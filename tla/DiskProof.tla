----------------------------- MODULE DiskProof -----------------------------
(***************************************************************************)
(* What crashes leave behind, for instances of any size: the journalled    *)
(* key/value store, the registry of tools of the self-improvement loop,    *)
(* the snapshots of sandboxes, and the parts of a session's transcript.    *)
(***************************************************************************)
EXTENDS MCKvStore, OnDisk, FiniteSetTheorems, SequenceTheorems, WellFoundedInduction, TLAPS

Snapping(t) == pc[t] \in {"snap", "create", "write", "rename"}

\* every version anywhere is covered by the counter that will be restored with it
CoverInv ==
    /\ \A k \in Keys : map[k].version <= seq
    /\ \A t \in Threads : pc[t] = "insert" => op[t].version \in 1..seq
    /\ \A t \in Threads : Snapping(t) => \A k \in Keys : snap[t].entries[k].version <= seq
    /\ \A t \in Threads : pc[t] \in {"create", "write", "rename"} => Covers(snap[t])
    /\ Covers(tmp.snap) /\ Covers(journal.snap)

\* no two entries of a snapshot share a version
Distinct(held) ==
    \A k, l \in Keys : k # l /\ held[k].version # 0 => held[k].version # held[l].version

\* a version a snapshot has seen under one key belongs to no other key
SnapInv ==
    \A t \in Threads : Snapping(t) =>
        /\ Distinct(snap[t].entries)
        /\ \A k, l \in Keys : k # l /\ snap[t].entries[k].version # 0 =>
             snap[t].entries[k].version # map[l].version
        /\ \A k \in Keys, u \in Threads : pc[u] = "insert" /\ op[u].key # k =>
             snap[t].entries[k].version # op[u].version

UseInv ==
    /\ Distinct(map)
    /\ \A t \in Threads : pc[t] = "insert" =>
         /\ \A k \in Keys : map[k].version # op[t].version
         /\ \A u \in Threads \ {t} : pc[u] = "insert" => op[u].version # op[t].version
    /\ Distinct(tmp.snap.entries) /\ Distinct(journal.snap.entries)

IInv == TypeOK /\ CoverInv /\ SnapInv /\ UseInv

USE StoreAssumption

Op == [cas : BOOLEAN, key : Keys, expected : Version, version : Version]

\* The constant records have their types.
LEMMA ConstantTypes ==
    /\ None \in Entry /\ EmptySnapshot \in Snapshot
    /\ Absent \in File /\ Truncated \in File /\ Garbled \in File
    /\ \A s \in Snapshot : Full(s) \in File
    /\ NoOp \in Op
<1>1. None \in Entry
  BY DEF None, Entry, Version
<1>2. EmptySnapshot \in Snapshot
  BY <1>1 DEF EmptySnapshot, Snapshot, Version
<1>3. (CHOOSE k \in Keys : TRUE) \in Keys
  OBVIOUS
<1> QED
  BY <1>1, <1>2, <1>3 DEF Absent, Truncated, Garbled, Full, File, NoOp, Op, Version

\* Type correctness is inductive on its own.
LEMMA TypeInv == TypeOK /\ [Next]_vars => TypeOK'
<1> SUFFICES ASSUME TypeOK, [Next]_vars PROVE TypeOK'
  OBVIOUS
<1> USE ConstantTypes DEF TypeOK, files, process, Op
<1>1. ASSUME NEW t \in Threads, NEW k \in Keys, Set(t, k) PROVE TypeOK'
  <2>1. [NoOp EXCEPT !.key = k] \in Op
    OBVIOUS
  <2> DEFINE call == [NoOp EXCEPT !.key = k]
  <2> HIDE DEF call
  <2>2. call \in Op /\ Issue(t, call)
    BY <1>1, <2>1 DEF Set, call
  <2>3. [call EXCEPT !.version = seq + 1] \in Op /\ seq' \in Version
    BY <2>2 DEF Issue, Version
  <2> QED
    BY <1>1, <2>2, <2>3 DEF Set, At, Issue
<1>2. ASSUME NEW t \in Threads, NEW k \in Keys, CasCheck(t, k) PROVE TypeOK'
  BY <1>2 DEF CasCheck, At, Entry
<1>3. ASSUME NEW t \in Threads, CasFetch(t) PROVE TypeOK'
  BY <1>3 DEF CasFetch, At, Issue, Version
<1>4. ASSUME NEW t \in Threads, Insert(t) PROVE TypeOK'
  BY <1>4 DEF Insert, Persist, At, Entry
<1>5. ASSUME NEW t \in Threads, NEW k \in Keys, Delete(t, k) PROVE TypeOK'
  BY <1>5 DEF Delete, Persist, At
<1>6. ASSUME NEW t \in Threads, NEW k \in Keys, Visit(t, k) PROVE TypeOK'
  BY <1>6 DEF Visit, Snapshot
<1>7. ASSUME NEW t \in Threads, ReadCounter(t) PROVE TypeOK'
  BY <1>7 DEF ReadCounter, At, Snapshot
<1>8. ASSUME NEW t \in Threads, Create(t) PROVE TypeOK'
  BY <1>8 DEF Create, At
<1>9. ASSUME NEW t \in Threads, Write(t) PROVE TypeOK'
  <2>1. ASSUME NEW held \in File PROVE Written(held, snap[t]) \subseteq File
    BY DEF Written
  <2>2. tmp' \in File /\ journal' \in File
    BY <1>9, <2>1 DEF Write
  <2> QED
    BY <1>9, <2>2 DEF Write, At
<1>10. ASSUME NEW t \in Threads, Rename(t) PROVE TypeOK'
  BY <1>10 DEF Rename, At, Moved
<1>11. ASSUME NEW t \in Threads, PersistFails(t) PROVE TypeOK'
  BY <1>11 DEF PersistFails
<1>12. CASE Crash
  <2>1. journal.snap.entries \in [Keys -> Entry] /\ journal.snap.next \in Version
    BY DEF File, Snapshot
  <2>2. crashes' \in 0..MaxCrashes
    BY <1>12 DEF Crash
  <2> QED
    BY <1>12, <2>1, <2>2 DEF Crash, Readable
<1>13. CASE UNCHANGED vars
  BY <1>13 DEF vars
<1> QED
  BY <1>1, <1>2, <1>3, <1>4, <1>5, <1>6, <1>7, <1>8, <1>9, <1>10, <1>11, <1>12, <1>13
  DEF Next, Call, Rest

\* Every step keeps the counters ahead.
LEMMA CoverStep == TypeOK /\ CoverInv /\ [Next]_vars => CoverInv'
<1> SUFFICES ASSUME TypeOK /\ CoverInv, [Next]_vars PROVE CoverInv'
  OBVIOUS
<1> USE DEF TypeOK, Op, Entry, File, Snapshot, Version
<1> USE DEF CoverInv, files, process, Snapping, Covers, Distinct
<1>1. ASSUME NEW t \in Threads, NEW k \in Keys, Set(t, k) PROVE CoverInv'
  BY <1>1 DEF Set, At, Issue, NoOp
<1>2. ASSUME NEW t \in Threads, NEW k \in Keys, CasCheck(t, k) PROVE CoverInv'
  BY <1>2 DEF CasCheck, At
<1>3. ASSUME NEW t \in Threads, CasFetch(t) PROVE CoverInv'
  BY <1>3 DEF CasFetch, At, Issue
<1>4. ASSUME NEW t \in Threads, Insert(t) PROVE CoverInv'
  BY <1>4 DEF Insert, Persist, At, EmptySnapshot, None
<1>5. ASSUME NEW t \in Threads, NEW k \in Keys, Delete(t, k) PROVE CoverInv'
  BY <1>5 DEF Delete, Persist, At, EmptySnapshot, None
<1>6. ASSUME NEW t \in Threads, NEW k \in Keys, Visit(t, k) PROVE CoverInv'
  BY <1>6 DEF Visit
<1>7. ASSUME NEW t \in Threads, ReadCounter(t) PROVE CoverInv'
  BY <1>7 DEF ReadCounter, At
<1>8. ASSUME NEW t \in Threads, Create(t) PROVE CoverInv'
  BY <1>8 DEF Create, At, Truncated, EmptySnapshot, None
<1>9. ASSUME NEW t \in Threads, Write(t) PROVE CoverInv'
  BY <1>9 DEF Write, At, Written, Full, Garbled, EmptySnapshot, None
<1>10. ASSUME NEW t \in Threads, Rename(t) PROVE CoverInv'
  BY <1>10 DEF Rename, At, Absent, EmptySnapshot, None
<1>11. ASSUME NEW t \in Threads, PersistFails(t) PROVE CoverInv'
  BY <1>11 DEF PersistFails
<1>12. CASE Crash
  BY <1>12 DEF Crash, EmptySnapshot
<1>13. CASE UNCHANGED vars
  BY <1>13 DEF vars
<1> QED
  BY <1>1, <1>2, <1>3, <1>4, <1>5, <1>6, <1>7, <1>8, <1>9, <1>10, <1>11, <1>12, <1>13
  DEF Next, Call, Rest

\* Every step keeps the versions in use apart.
LEMMA UseStep == IInv /\ [Next]_vars => UseInv'
<1> SUFFICES ASSUME IInv, [Next]_vars PROVE UseInv'
  OBVIOUS
<1> USE DEF TypeOK, Op, Entry, File, Snapshot, Version
<1> USE DEF IInv, UseInv, CoverInv, SnapInv, files, process, Snapping, Covers, Distinct
<1>1. ASSUME NEW t \in Threads, NEW k \in Keys, Set(t, k) PROVE UseInv'
  BY <1>1 DEF Set, At, Issue, NoOp
<1>2. ASSUME NEW t \in Threads, NEW k \in Keys, CasCheck(t, k) PROVE UseInv'
  BY <1>2 DEF CasCheck, At
<1>3. ASSUME NEW t \in Threads, CasFetch(t) PROVE UseInv'
  BY <1>3 DEF CasFetch, At, Issue
<1>4. ASSUME NEW t \in Threads, Insert(t) PROVE UseInv'
  BY <1>4 DEF Insert, Persist, At, EmptySnapshot, None
<1>5. ASSUME NEW t \in Threads, NEW k \in Keys, Delete(t, k) PROVE UseInv'
  BY <1>5 DEF Delete, Persist, At, EmptySnapshot, None
<1>6. ASSUME NEW t \in Threads, NEW k \in Keys, Visit(t, k) PROVE UseInv'
  BY <1>6 DEF Visit
<1>7. ASSUME NEW t \in Threads, ReadCounter(t) PROVE UseInv'
  BY <1>7 DEF ReadCounter, At
<1>8. ASSUME NEW t \in Threads, Create(t) PROVE UseInv'
  BY <1>8 DEF Create, At, Truncated, EmptySnapshot, None
<1>9. ASSUME NEW t \in Threads, Write(t) PROVE UseInv'
  BY <1>9 DEF Write, At, Written, Full, Garbled, EmptySnapshot, None
<1>10. ASSUME NEW t \in Threads, Rename(t) PROVE UseInv'
  BY <1>10 DEF Rename, At, Absent, EmptySnapshot, None
<1>11. ASSUME NEW t \in Threads, PersistFails(t) PROVE UseInv'
  BY <1>11 DEF PersistFails
<1>12. CASE Crash
  BY <1>12 DEF Crash, EmptySnapshot
<1>13. CASE UNCHANGED vars
  BY <1>13 DEF vars
<1> QED
  BY <1>1, <1>2, <1>3, <1>4, <1>5, <1>6, <1>7, <1>8, <1>9, <1>10, <1>11, <1>12, <1>13
  DEF Next, Call, Rest

\* Every step keeps the snapshots apart from the map.
LEMMA SnapStep == IInv /\ [Next]_vars => SnapInv'
<1> SUFFICES ASSUME IInv, [Next]_vars PROVE SnapInv'
  OBVIOUS
<1> USE DEF TypeOK, Op, Entry, File, Snapshot, Version
<1> USE DEF IInv, UseInv, CoverInv, SnapInv, files, process, Snapping, Covers, Distinct
<1>1. ASSUME NEW t \in Threads, NEW k \in Keys, Set(t, k) PROVE SnapInv'
  BY <1>1 DEF Set, At, Issue, NoOp
<1>2. ASSUME NEW t \in Threads, NEW k \in Keys, CasCheck(t, k) PROVE SnapInv'
  BY <1>2 DEF CasCheck, At
<1>3. ASSUME NEW t \in Threads, CasFetch(t) PROVE SnapInv'
  BY <1>3 DEF CasFetch, At, Issue
<1>4. ASSUME NEW t \in Threads, Insert(t) PROVE SnapInv'
  BY <1>4 DEF Insert, Persist, At, EmptySnapshot, None
<1>5. ASSUME NEW t \in Threads, NEW k \in Keys, Delete(t, k) PROVE SnapInv'
  BY <1>5 DEF Delete, Persist, At, EmptySnapshot, None
<1>6. ASSUME NEW t \in Threads, NEW k \in Keys, Visit(t, k) PROVE SnapInv'
  BY <1>6 DEF Visit
<1>7. ASSUME NEW t \in Threads, ReadCounter(t) PROVE SnapInv'
  BY <1>7 DEF ReadCounter, At
<1>8. ASSUME NEW t \in Threads, Create(t) PROVE SnapInv'
  BY <1>8 DEF Create, At, Truncated, EmptySnapshot, None
<1>9. ASSUME NEW t \in Threads, Write(t) PROVE SnapInv'
  BY <1>9 DEF Write, At, Written, Full, Garbled, EmptySnapshot, None
<1>10. ASSUME NEW t \in Threads, Rename(t) PROVE SnapInv'
  BY <1>10 DEF Rename, At, Absent, EmptySnapshot, None
<1>11. ASSUME NEW t \in Threads, PersistFails(t) PROVE SnapInv'
  BY <1>11 DEF PersistFails
<1>12. CASE Crash
  BY <1>12 DEF Crash, EmptySnapshot
<1>13. CASE UNCHANGED vars
  BY <1>13 DEF vars
<1> QED
  BY <1>1, <1>2, <1>3, <1>4, <1>5, <1>6, <1>7, <1>8, <1>9, <1>10, <1>11, <1>12, <1>13
  DEF Next, Call, Rest

\* A store starts with nothing to confuse.
LEMMA InitInv == Init => IInv
<1> SUFFICES ASSUME Init PROVE IInv
  OBVIOUS
<1>1. TypeOK
  <2>1. map \in [Keys -> Entry] /\ seq \in Version /\ crashes \in 0..MaxCrashes
    BY ConstantTypes DEF Init, EmptySnapshot, Version
  <2> QED
    BY <2>1, ConstantTypes DEF Init, TypeOK, Op
<1>2. CoverInv /\ SnapInv /\ UseInv
  BY DEF Init, CoverInv, SnapInv, UseInv, Snapping, Covers, Distinct,
         EmptySnapshot, None, Absent
<1> QED
  BY <1>1, <1>2 DEF IInv

\* The inductive invariant holds in every state.
LEMMA Invariance == Spec => []IInv
<1>1. IInv /\ [Next]_vars => IInv'
  BY TypeInv, CoverStep, UseStep, SnapStep DEF IInv
<1> QED
  BY <1>1, InitInv, PTL DEF Spec

\* Every variable keeps its type.
THEOREM TypeCorrect == Spec => []TypeOK
<1>1. IInv => TypeOK
  BY DEF IInv
<1> QED
  BY <1>1, Invariance, PTL

\* A version is never behind the counter stored with it, on disk or in memory.
THEOREM CountersCover == Spec => []CounterCoversVersions
<1>1. IInv => CounterCoversVersions
  BY DEF IInv, CoverInv, CounterCoversVersions, Covers
<1> QED
  BY <1>1, Invariance, PTL

\* A version names one write.
THEOREM VersionsNameWrites == Spec => []OneWritePerVersion
<1>1. IInv => OneWritePerVersion
  BY DEF IInv, UseInv, Distinct, OneWritePerVersion
<1> QED
  BY <1>1, Invariance, PTL

-----------------------------------------------------------------------------
(* One caller: nobody else moves, so what persist collects is the map *)

\* what holds while c is the only thread that calls
LoneState(c) ==
    /\ \A t \in Threads \ {c} : pc[t] = "idle"
    /\ ~Journalled => pc[c] \in {"idle", "fetch", "insert"}
    /\ journal.state \in {"absent", "full"}
    /\ Journalled /\ ~failed /\ pc[c] \in {"idle", "fetch", "insert"} =>
         journal.snap.entries = map
    /\ pc[c] = "snap" => \A k \in Keys \ todo[c] : snap[c].entries[k] = map[k]
    /\ pc[c] \in {"create", "write", "rename"} => snap[c].entries = map
    /\ pc[c] = "write" => handle[c] = "tmp" /\ tmp = Truncated
    /\ pc[c] = "rename" => tmp = Full(snap[c])

\* a version about to be inserted is newer than anything in memory or on disk
LoneFresh(c) ==
    /\ \A k \in Keys : journal.snap.entries[k].version <= seq
    /\ pc[c] = "insert" => \A k \in Keys :
         /\ map[k].version < op[c].version
         /\ journal.snap.entries[k].version < op[c].version

LoneInv == \A c \in Threads : callers = {c} => LoneState(c) /\ LoneFresh(c)

\* The others take no step; without a journal one may delete, which stays in memory.
LEMMA OthersRest ==
    ASSUME TypeOK, NEW c \in Threads, callers = {c}, LoneState(c),
           NEW t \in Threads \ {c}, Call(t), \A u \in Threads \ callers : pc'[u] = "idle"
    PROVE  ~Journalled /\ \E k \in Keys : Delete(t, k)
<1>1. pc[t] = "idle" /\ pc'[t] = "idle"
  BY DEF LoneState
<1> QED
  BY <1>1 DEF Call, Set, CasCheck, CasFetch, Insert, Delete, Visit, ReadCounter, Create, Write,
              Rename, PersistFails, At, Persist, TypeOK

\* A step of the lone caller keeps its journal whole.
LEMMA LoneCall ==
    ASSUME TypeOK, CoverInv, NEW c \in Threads, LoneState(c), LoneFresh(c), Call(c),
           \A u \in Threads \ {c} : pc'[u] = "idle"
    PROVE  LoneState(c)' /\ LoneFresh(c)'
<1> DEFINE P == LoneState(c)' /\ LoneFresh(c)'
<1> USE DEF TypeOK, Op, Entry, File, Snapshot, Version
<1> USE DEF CoverInv, LoneState, LoneFresh, files, process, Snapping
<1>1. ASSUME NEW k \in Keys, Set(c, k) PROVE P
  BY <1>1 DEF Set, At, Issue, NoOp
<1>2. ASSUME NEW k \in Keys, CasCheck(c, k) PROVE P
  BY <1>2 DEF CasCheck, At, NoOp
<1>3. ASSUME CasFetch(c) PROVE P
  BY <1>3 DEF CasFetch, At, Issue
<1>4. ASSUME Insert(c) PROVE P
  BY <1>4 DEF Insert, Persist, At
<1>5. ASSUME NEW k \in Keys, Delete(c, k) PROVE P
  BY <1>5 DEF Delete, Persist, At, None
<1>6. ASSUME NEW k \in Keys, Visit(c, k) PROVE P
  BY <1>6 DEF Visit
<1>7. ASSUME ReadCounter(c) PROVE P
  BY <1>7 DEF ReadCounter, At
<1>8. ASSUME Create(c) PROVE P
  BY <1>8 DEF Create, At
<1>9. ASSUME Write(c) PROVE P
  BY <1>9 DEF Write, At, Written, Truncated
<1>10. ASSUME Rename(c) PROVE P
  BY <1>10 DEF Rename, At, Full
<1>11. ASSUME PersistFails(c) PROVE P
  BY <1>11 DEF PersistFails
<1> QED
  BY <1>1, <1>2, <1>3, <1>4, <1>5, <1>6, <1>7, <1>8, <1>9, <1>10, <1>11 DEF Call

\* Every step keeps what one caller relies on.
LEMMA LoneStep == IInv /\ LoneInv /\ [MCNext]_<<vars, callers>> => LoneInv'
<1> SUFFICES ASSUME IInv, LoneInv, [MCNext]_<<vars, callers>>,
                    NEW c \in Threads, callers' = {c}
             PROVE  LoneState(c)' /\ LoneFresh(c)'
  BY DEF LoneInv
<1> USE DEF IInv
<1>1. callers = {c} /\ LoneState(c) /\ LoneFresh(c)
  BY DEF LoneInv, MCNext
<1>2. CASE UNCHANGED vars
  BY <1>1, <1>2 DEF vars, LoneState, LoneFresh
<1>3. ASSUME Next, \A u \in Threads \ callers : pc'[u] = "idle"
      PROVE  LoneState(c)' /\ LoneFresh(c)'
  <2>1. ASSUME NEW t \in Threads, Call(t) PROVE LoneState(c)' /\ LoneFresh(c)'
    <3>1. CASE t = c
      BY <1>1, <1>3, <2>1, <3>1, LoneCall
    <3>2. CASE t # c
      <4>1. ~Journalled /\ \E k \in Keys : Delete(t, k)
        BY <1>1, <1>3, <2>1, <3>2, OthersRest
      <4>2. PICK k \in Keys : Delete(t, k)
        BY <4>1
      <4> QED
        BY <1>1, <3>2, <4>1, <4>2
        DEF TypeOK, CoverInv, Delete, Persist, At, None, LoneState, LoneFresh, files, process,
            Entry, Version
    <3> QED
      BY <3>1, <3>2
  <2>2. CASE Crash
    BY <1>1, <2>2 DEF Crash, LoneState, LoneFresh, CoverInv, Covers
  <2> QED
    BY <1>2, <1>3, <2>1, <2>2 DEF Next, Rest
<1> QED
  BY <1>2, <1>3 DEF MCNext

\* Everything proved of the store holds of it with its callers.
LEMMA CallersInvariance == MCSpec => [](IInv /\ LoneInv)
<1>1. MCInit => IInv /\ LoneInv
  <2>1. ASSUME MCInit, NEW c \in Threads PROVE LoneState(c) /\ LoneFresh(c)
    BY <2>1 DEF MCInit, Init, LoneState, LoneFresh, Absent, EmptySnapshot, None
  <2> QED
    BY <2>1, InitInv DEF MCInit, LoneInv
<1>2. IInv /\ LoneInv /\ [MCNext]_<<vars, callers>> => IInv' /\ LoneInv'
  <2>1. [MCNext]_<<vars, callers>> => [Next]_vars
    BY DEF MCNext
  <2> QED
    BY <2>1, LoneStep, TypeInv, CoverStep, UseStep, SnapStep DEF IInv
<1> QED
  BY <1>1, <1>2, PTL DEF MCSpec

\* One caller is one thread, in the first state and ever after.
LEMMA LoneCaller == MCSpec => [](Alone => \E c \in Threads : callers = {c})
<1> DEFINE P == callers \in {Threads} \union {{t} : t \in Threads}
<1>1. MCInit => P
  BY DEF MCInit
<1>2. P /\ [MCNext]_<<vars, callers>> => P'
  BY DEF MCNext
<1>3. P => (Alone => \E c \in Threads : callers = {c})
  <2> SUFFICES ASSUME P, Alone PROVE \E c \in Threads : callers = {c}
    OBVIOUS
  <2>1. CASE callers = Threads
    <3>1. PICK c : Threads = {c}
      BY <2>1, FS_Singleton, CallersAssumption DEF Alone
    <3> QED
      BY <2>1, <3>1
  <2> QED
    BY <2>1
<1> QED
  BY <1>1, <1>2, <1>3, PTL DEF MCSpec

\* With one caller, a store opened on a journal has it whole at every instant and up
\* to date whenever the last call has returned without an error.
THEOREM LoneJournal == Journalled => (MCSpec => []LoneJournalHolds)
<1> SUFFICES ASSUME Journalled PROVE MCSpec => []LoneJournalHolds
  OBVIOUS
<1>1. LoneInv /\ (Alone => \E c \in Threads : callers = {c}) => LoneJournalHolds
  BY DEF LoneInv, LoneState, LoneJournalHolds, JournalHolds, Quiescent
<1> QED
  BY <1>1, CallersInvariance, LoneCaller, PTL

-----------------------------------------------------------------------------
(* One caller: the store is the durable map *)

\* A step of the lone caller is a step of the promise, or it shows nothing.
LEMMA LoneCallMaps ==
    ASSUME TypeOK, CoverInv, NEW c \in Threads, LoneState(c), LoneFresh(c), Call(c),
           Alone, callers' = callers
    PROVE  [LonePromise!Next]_<<LoneMap, LoneDisk>>
<1> DEFINE P == [LonePromise!Next]_<<LoneMap, LoneDisk>>
<1>1. LoneMap = map /\ LoneMap' = map' /\ LoneDisk = journal.snap.entries
      /\ LoneDisk' = journal'.snap.entries
  BY DEF LoneMap, LoneDisk, Alone
<1>2. ASSUME UNCHANGED <<map, journal>> PROVE P
  BY <1>1, <1>2
<1> USE DEF files, process
<1>3. ASSUME NEW k \in Keys, Set(c, k) \/ CasCheck(c, k) \/ Visit(c, k) PROVE P
  BY <1>2, <1>3 DEF Set, Issue, CasCheck, Visit
<1>4. ASSUME CasFetch(c) \/ ReadCounter(c) \/ Create(c) \/ PersistFails(c) PROVE P
  BY <1>2, <1>4 DEF CasFetch, Issue, ReadCounter, Create, PersistFails
<1>5. ASSUME Write(c) PROVE P
  BY <1>2, <1>5 DEF Write, At, LoneState
<1>6. ASSUME NEW k \in Keys, Delete(c, k) PROVE P
  <2>1. LonePromise!Remove(k)
    BY <1>1, <1>6 DEF Delete, Persist, LonePromise!Remove
  <2> QED
    BY <2>1 DEF LonePromise!Next
<1>7. ASSUME Insert(c) PROVE P
  <2> DEFINE k == op[c].key
             e == [version |-> op[c].version, epoch |-> crashes]
  <2>1. k \in Keys /\ op[c].version \in Version /\ crashes \in 0..MaxCrashes
    BY DEF TypeOK
  <2>2. pc[c] = "insert" /\ map' = [map EXCEPT ![k] = e] /\ UNCHANGED journal
    BY <1>7 DEF Insert, Persist, At
  <2>3. map'[k] = e
    BY <2>1, <2>2 DEF TypeOK
  <2>4. op[c].version \in 1..seq
    BY <2>2 DEF CoverInv
  <2>5. e \in Entry \ {None}
    BY <2>1, <2>4 DEF Entry, None, Version, TypeOK
  <2>6. \A l \in Keys : /\ e.version > LoneMap[l].version
                        /\ e.version > LoneDisk[l].version
    BY <1>1, <2>1, <2>2 DEF LoneFresh, TypeOK, Entry, File, Snapshot, Version
  <2> HIDE DEF k, e
  <2>7. LonePromise!Put(k)
    BY <1>1, <2>2, <2>3, <2>5, <2>6 DEF LonePromise!Put, LonePromise!Fresh
  <2> QED
    BY <2>1, <2>7 DEF LonePromise!Next
<1>8. ASSUME Rename(c) PROVE P
  <2>1. journal'.snap.entries = map /\ UNCHANGED map
    BY <1>8 DEF Rename, At, LoneState, Full
  <2> QED
    BY <1>1, <2>1 DEF LonePromise!Next, LonePromise!Save
<1> QED
  BY <1>3, <1>4, <1>5, <1>6, <1>7, <1>8 DEF Call

\* Every step of the store with its callers is a step of the promise, or shows nothing.
LEMMA LoneMaps ==
    ASSUME IInv, LoneInv, Alone => \E c \in Threads : callers = {c},
           [MCNext]_<<vars, callers>>
    PROVE  [LonePromise!Next]_<<LoneMap, LoneDisk>>
<1> DEFINE P == [LonePromise!Next]_<<LoneMap, LoneDisk>>
<1> USE DEF IInv
<1>1. callers' = callers /\ (Alone <=> Alone')
  BY DEF MCNext, Alone
<1>2. CASE ~Alone
  BY <1>1, <1>2 DEF LoneMap, LoneDisk, EmptySnapshot
<1>3. CASE Alone
  <2>1. LoneMap = map /\ LoneMap' = map' /\ LoneDisk = journal.snap.entries
        /\ LoneDisk' = journal'.snap.entries
    BY <1>1, <1>3 DEF LoneMap, LoneDisk
  <2>2. PICK c \in Threads : callers = {c} /\ LoneState(c) /\ LoneFresh(c)
    BY <1>3 DEF LoneInv
  <2>3. CASE UNCHANGED vars
    BY <2>1, <2>3 DEF vars
  <2>4. ASSUME NEW t \in Threads, Call(t), \A u \in Threads \ callers : pc'[u] = "idle" PROVE P
    <3>1. CASE t = c
      BY <1>1, <1>3, <2>2, <2>4, <3>1, LoneCallMaps
    <3>2. CASE t # c
      <4>1. PICK k \in Keys : Delete(t, k)
        BY <2>2, <2>4, <3>2, OthersRest
      <4>2. LonePromise!Remove(k)
        BY <2>1, <4>1 DEF Delete, Persist, LonePromise!Remove, files
      <4> QED
        BY <4>2 DEF LonePromise!Next
    <3> QED
      BY <3>1, <3>2
  <2>5. CASE Crash
    BY <2>1, <2>5 DEF Crash, LonePromise!Next, LonePromise!Restart
  <2> QED
    BY <2>3, <2>4, <2>5 DEF MCNext, Next, Rest
<1> QED
  BY <1>2, <1>3

\* With one caller, the store implements the durable map: every step of it puts an
\* entry newer than all others, removes one, saves the whole map, restarts from what
\* was saved, or shows nothing.
THEOREM LoneRefines == MCSpec => LoneImplements
<1>1. MCInit => LonePromise!Init
  BY DEF MCInit, Init, LonePromise!Init, LoneMap, LoneDisk, Absent, EmptySnapshot
<1>2. IInv /\ LoneInv /\ (Alone => \E c \in Threads : callers = {c})
        /\ [MCNext]_<<vars, callers>> => [LonePromise!Next]_<<LoneMap, LoneDisk>>
  BY LoneMaps
<1> QED
  BY <1>1, <1>2, CallersInvariance, LoneCaller, PTL DEF MCSpec, LoneImplements, LonePromise!Spec

HIDE StoreAssumption

-------------------------------------------------------------------------------
(* The self-improvement loop: what is kept *)

Line == Solver!Marks \union {Solver!Newline} \union Solver!Remains

Early == {"general", "plan", "proposals"}
Late  == {"promote", "write", "end line", "insert", "remember"}
Resting == {"idle", "closed"}

\* where the marks of proposals may be found
Proposed(dir) == {m \in dir : Solver!FromProposal(m)}
Kept == Proposed(workdir) \union DOMAIN entries \union Solver!OwnLines(disk)

\* the locals of solve, and the winner it has in hand
SolvePlace ==
    /\ step \notin Resting => task >= 1
    /\ step = "general" => attempt >= 1
    /\ step \in {"proposals"} \union Late => round >= 1
    /\ step \in Late => /\ winner[3] \in DOMAIN sandboxes /\ winner \in passed
                        /\ winner = Solver!Mark(round, winner[3])

\* what is kept passed, is of one proposal a task, and none of a task that has no winner yet
KeptOnes ==
    /\ Kept \subseteq passed
    /\ \A m \in Kept \union passed : m[1] <= task
    /\ \A m, n \in Kept : m[1] = n[1] => m = n
    /\ step \in Early => \A m \in Kept : m[1] # task
    /\ step \in Late => \A m \in Kept : m[1] = task => m = winner

\* a sandbox has marks of the working directory and its own
BoxesApart ==
    step \in {"proposals", "promote"} =>
        \A i \in DOMAIN sandboxes :
            /\ Proposed(sandboxes[i].dir) \subseteq workdir \union {Solver!Mark(round, i)}
            /\ sandboxes[i].at = "passed" => Solver!Mark(round, i) \in passed

\* a mark is written once, and before another task begins
LinesOfTasks ==
    /\ \A k \in DOMAIN disk : disk[k] \in Solver!Marks =>
           /\ disk[k][1] <= task
           /\ step \in Early \union {"promote", "write"} => disk[k][1] # task
    /\ step = "end line" =>
           /\ Len(disk) >= 1 /\ disk[Len(disk)] = winner
           /\ \A k \in DOMAIN disk : disk[k] = winner => k = Len(disk)
    /\ step \in {"insert", "remember"} =>
           /\ Len(disk) >= 2 /\ disk[Len(disk) - 1] = winner /\ disk[Len(disk)] = Solver!Newline
           /\ \A k \in DOMAIN disk : disk[k] = winner => k = Len(disk) - 1
    /\ step = "remember" => winner \in DOMAIN entries

\* a tool solve has returned is of an earlier task, and its lines are whole
LinesOfTools ==
    /\ \A t \in announced : t[1] <= task /\ (step \notin Resting => t[1] # task)
    /\ \A k \in DOMAIN disk : disk[k] \in announced => k < Len(disk) /\ disk[k + 1] = Solver!Newline

\* a tool solve has returned is at hand and has a line of its own, which is read if the
\* file is text
ToolsAreThere ==
    \A t \in announced :
        \/ Solver!Glued(t)
        \/ (step # "closed" => t \in DOMAIN entries) /\ t \in Solver!OwnLines(disk)

SolveInv == /\ Solver!TypeOK /\ SolvePlace /\ KeptOnes /\ BoxesApart
            /\ LinesOfTasks /\ LinesOfTools /\ ToolsAreThere

LEMMA Positions ==
    ASSUME NEW S, NEW s \in Seq(S)
    PROVE  /\ Len(s) \in Nat /\ DOMAIN s = 1..Len(s)
           /\ \A i \in DOMAIN s : i \in Nat \ {0} /\ s[i] \in S
BY LenProperties, ElementOfSeq

LEMMA Replaced ==
    ASSUME NEW S, NEW s \in Seq(S), NEW i \in DOMAIN s, NEW e \in S
    PROVE  [s EXCEPT ![i] = e] \in Seq(S)
BY LenProperties, ExceptSeq

\* Neither a newline nor what is left of a line is a mark.
LEMMA MarksAreTriples ==
    /\ Solver!Newline \notin Solver!Marks
    /\ \A rest \in Solver!Remains : rest \notin Solver!Marks /\ rest # Solver!Newline
    /\ Solver!NoOne \notin Solver!Marks
    /\ \A m \in Solver!Marks : /\ m[1] \in 1..MaxSolves /\ m[2] \in Nat /\ m[3] \in Nat \ {0}
                               /\ m = <<m[1], m[2], m[3]>>
<1>1. ASSUME NEW m \in Solver!Marks
      PROVE  m[1] \in 1..MaxSolves /\ m[2] \in Nat /\ m[3] \in Nat \ {0} /\ m = <<m[1], m[2], m[3]>>
  BY DEF Solver!Marks
<1>2. ASSUME NEW m \in Solver!Marks PROVE DOMAIN m = 1..3
  BY DEF Solver!Marks
<1>3. /\ DOMAIN Solver!Newline = 1..1
      /\ \A rest \in Solver!Remains : DOMAIN rest = 1..1 /\ rest # Solver!Newline
  BY DEF Solver!Newline, Solver!Remains, Solver!Fragment, Solver!Splinter
<1>4. Solver!NoOne[1] = 0
  BY DEF Solver!NoOne
<1> QED
  BY <1>1, <1>2, <1>3, <1>4

\* A mark of the current task.
LEMMA MarkFacts ==
    ASSUME NEW r \in Nat, NEW i \in Nat \ {0}, task \in 1..MaxSolves
    PROVE  /\ Solver!Mark(r, i) \in Solver!Marks
           /\ Solver!Mark(r, i)[1] = task /\ Solver!Mark(r, i)[2] = r /\ Solver!Mark(r, i)[3] = i
BY DEF Solver!Mark, Solver!Marks

\* A line that is appended makes no other readable.
LEMMA LoadedAppend ==
    ASSUME NEW d \in Seq(Line), NEW x \in Line
    PROVE  Solver!OwnLines(Append(d, x)) \subseteq Solver!OwnLines(d) \union ({x} \intersect Solver!Marks)
<1>1. ASSUME NEW y \in Solver!OwnLines(Append(d, x))
      PROVE  y \in Solver!OwnLines(d) \union ({x} \intersect Solver!Marks)
  <2> DEFINE e == Append(d, x)
  <2>1. PICK k \in DOMAIN e : /\ y = e[k] /\ e[k] \notin {Solver!Newline} \union Solver!Remains
                              /\ k > 1 => e[k - 1] = Solver!Newline
                              /\ k < Len(e) => e[k + 1] = Solver!Newline
    BY <1>1 DEF Solver!OwnLines
  <2>2. /\ e \in Seq(Line) /\ Len(e) = Len(d) + 1 /\ Len(d) \in Nat /\ DOMAIN e = 1..Len(e)
        /\ e[Len(d) + 1] = x /\ \A j \in 1..Len(d) : e[j] = d[j]
    BY AppendProperties, LenProperties
  <2> HIDE DEF e
  <2>3. CASE k = Len(d) + 1
    BY <2>1, <2>2, <2>3 DEF Line
  <2>4. CASE k \in 1..Len(d)
    <3>1. k \in DOMAIN d /\ d[k] = y
      BY <2>1, <2>2, <2>4, LenProperties
    <3>2. k > 1 => d[k - 1] = Solver!Newline
      BY <2>1, <2>2, <2>4
    <3>3. k < Len(d) => d[k + 1] = Solver!Newline
      BY <2>1, <2>2, <2>4
    <3> QED
      BY <2>1, <2>2, <3>1, <3>2, <3>3, <2>4 DEF Solver!OwnLines
  <2> QED
    BY <2>1, <2>2, <2>3, <2>4
<1> QED
  BY <1>1

\* Only marks are read.
LEMMA LoadedMarks == ASSUME NEW d \in Seq(Line) PROVE Solver!OwnLines(d) \subseteq Solver!Marks
BY LenProperties, ElementOfSeq DEF Solver!OwnLines, Line

\* A set of naturals has a least element.
LEMMA LeastIndex ==
    ASSUME NEW P, P \subseteq Nat, P # {}
    PROVE  \E i \in P : \A j \in P : i <= j
<1> DEFINE Smaller == OpToRel(<, Nat)
<1>1. IsWellFoundedOn(Smaller, Nat)
  BY NatLessThanWellFounded
<1>2. \A i, j \in Nat : <<j, i>> \in Smaller <=> j < i
  BY DEF OpToRel
<1> HIDE DEF Smaller
<1>3. PICK i \in P : \A j \in P : <<j, i>> \notin Smaller
  BY <1>1, WFMin
<1>4. ASSUME NEW j \in P PROVE i <= j
  <2>1. i \in Nat /\ j \in Nat /\ ~(j < i)
    BY <1>2, <1>3
  <2> QED
    BY <2>1
<1> QED
  BY <1>4

\* The first sandbox in the planner's order that passed.
LEMMA WinnerExists ==
    ASSUME NEW S, sandboxes \in Seq(S), \E i \in DOMAIN sandboxes : sandboxes[i].at = "passed"
    PROVE  Solver!Winner \in DOMAIN sandboxes /\ sandboxes[Solver!Winner].at = "passed"
<1> DEFINE P == {i \in DOMAIN sandboxes : sandboxes[i].at = "passed"}
<1>1. P # {} /\ P \subseteq Nat /\ DOMAIN sandboxes = 1..Len(sandboxes) /\ Len(sandboxes) \in Nat
  BY LenProperties
<1>2. PICK i \in P : \A j \in P : i <= j
  BY <1>1, LeastIndex
<1>3. \A j \in 1..(i - 1) : sandboxes[j].at # "passed"
  BY <1>1, <1>2
<1> QED
  BY <1>2, <1>3 DEF Solver!Winner

LEMMA SolveInit == ASSUME SolveAssumption, Solver!Init PROVE SolveInv
<1> USE SolveAssumption, Solver!Init DEF Solver!Init
<1>1. disk \in Seq(Line) /\ DOMAIN disk = {} /\ Solver!OwnLines(disk) = {} /\ DOMAIN entries = {}
  BY EmptySeq DEF Solver!OwnLines
<1>2. Solver!TypeOK
  BY <1>1, EmptySeq DEF Solver!TypeOK, Line, SolveAssumption
<1>3. SolvePlace /\ BoxesApart
  BY DEF SolvePlace, BoxesApart, Resting, Late
<1>4. KeptOnes
  <2>1. Kept = {}
    BY <1>1 DEF Kept, Proposed
  <2> QED
    BY <2>1 DEF KeptOnes
<1>5. LinesOfTasks /\ LinesOfTools /\ ToolsAreThere
  BY <1>1 DEF LinesOfTasks, LinesOfTools, ToolsAreThere, Late
<1> QED
  BY <1>2, <1>3, <1>4, <1>5 DEF SolveInv

\* An attempt leaves in the working directory what was there and a mark of no proposal.
LEMMA TriesEffect ==
    ASSUME SolveInv, SolveAssumption, step = "general", Solver!Tries
    PROVE  workdir' \subseteq Solver!Marks /\ Proposed(workdir') \subseteq Proposed(workdir)
<1>1. task \in 1..MaxSolves /\ attempt \in Nat \ {0} /\ workdir \subseteq Solver!Marks
  BY DEF SolveInv, SolvePlace, Solver!TypeOK, SolveAssumption, Resting
<1>2. /\ Solver!Mark(0, attempt) \in Solver!Marks /\ Solver!Mark(0, attempt)[2] = 0
      /\ ~Solver!FromProposal(Solver!Mark(0, attempt))
  BY <1>1, MarkFacts DEF Solver!FromProposal
<1>3. PICK g \in SUBSET workdir : workdir' = (workdir \ g) \union {Solver!Mark(0, attempt)}
  <2>1. PICK g \in {{}} \union {{m} : m \in workdir} :
           workdir' = (workdir \ g) \union {Solver!Mark(0, attempt)}
    BY DEF Solver!Tries, Solver!Worked
  <2> QED
    BY <2>1
<1> QED
  BY <1>1, <1>2, <1>3 DEF Proposed

\* Promoting adds to the working directory marks of the winner's sandbox.
LEMMA PromoteEffect ==
    ASSUME SolveInv, step = "promote",
           workdir' = Solver!Copied \/ workdir' \in Solver!HalfWay
    PROVE  /\ workdir' \subseteq Solver!Marks
           /\ Proposed(workdir') \subseteq Proposed(workdir) \union {winner}
<1>1. /\ workdir \subseteq Solver!Marks /\ winner[3] \in DOMAIN sandboxes
      /\ sandboxes[winner[3]].dir \subseteq Solver!Marks
  <2>1. /\ workdir \subseteq Solver!Marks /\ winner[3] \in DOMAIN sandboxes
        /\ sandboxes \in Seq([dir : SUBSET Solver!Marks, at : {"works", "passed", "failed"}])
    BY DEF SolveInv, SolvePlace, Solver!TypeOK, Late
  <2> DEFINE Box == [dir : SUBSET Solver!Marks, at : {"works", "passed", "failed"}]
  <2>2. \A b \in Box : b.dir \subseteq Solver!Marks
    OBVIOUS
  <2>3. sandboxes \in Seq(Box)
    BY <2>1
  <2> HIDE DEF Box
  <2>4. sandboxes[winner[3]] \in Box
    BY <2>1, <2>3, Positions
  <2> QED
    BY <2>1, <2>2, <2>4
<1>2. Proposed(sandboxes[winner[3]].dir) \subseteq workdir \union {winner}
  BY <1>1 DEF SolveInv, SolvePlace, BoxesApart, Late
<1>3. workdir' \subseteq workdir \union sandboxes[winner[3]].dir
  BY DEF Solver!Copied, Solver!HalfWay
<1> QED
  BY <1>1, <1>2, <1>3 DEF Proposed

\* What may be left of a line is no mark.
LEMMA CutOffEffect ==
    ASSUME SolveInv, disk' \in Solver!CutOff
    PROVE  \/ disk' = disk
           \/ step = "write" /\ \E rest \in Solver!Remains : disk' = Append(disk, rest)
BY DEF Solver!CutOff

LEMMA SolveTypes == ASSUME SolveAssumption, SolveInv, Solver!Next PROVE Solver!TypeOK'
<1> USE DEF Solver!registry, Solver!ghosts, Solver!local
<1> DEFINE Box == [dir : SUBSET Solver!Marks, at : {"works", "passed", "failed"}]
<1>1. Solver!TypeOK
  BY DEF SolveInv
<1>2. /\ step \in {"closed", "idle", "general", "plan", "proposals", "promote", "write", "end line", "insert", "remember"}
      /\ task \in 0..MaxSolves /\ available \subseteq Solver!Marks
      /\ attempt \in 0..Samples /\ round \in 0..MaxRounds
      /\ workdir \subseteq Solver!Marks /\ winner \in Solver!Marks \union {Solver!NoOne}
      /\ sandboxes \in Seq(Box)
      /\ DOMAIN entries \subseteq Solver!Marks /\ (\A t \in DOMAIN entries : entries[t] \in Nat)
      /\ disk \in Seq(Line) /\ hints \subseteq Solver!Marks
      /\ trouble \in 0..MaxTrouble /\ passed \subseteq Solver!Marks /\ announced \subseteq Solver!Marks
  BY <1>1 DEF Solver!TypeOK, Line
<1> DEFINE Typed ==
      /\ step' \in {"closed", "idle", "general", "plan", "proposals", "promote", "write", "end line", "insert", "remember"}
      /\ task' \in 0..MaxSolves /\ available' \subseteq Solver!Marks
      /\ attempt' \in 0..Samples /\ round' \in 0..MaxRounds
      /\ workdir' \subseteq Solver!Marks /\ winner' \in Solver!Marks \union {Solver!NoOne}
      /\ sandboxes' \in Seq(Box)
      /\ DOMAIN entries' \subseteq Solver!Marks /\ (\A t \in DOMAIN entries' : entries'[t] \in Nat)
      /\ disk' \in Seq(Line) /\ hints' \subseteq Solver!Marks
      /\ trouble' \in 0..MaxTrouble /\ passed' \subseteq Solver!Marks /\ announced' \subseteq Solver!Marks
<1>3. SUFFICES Typed
  BY DEF Solver!TypeOK, Line, Solver!Marks, Solver!Newline, Solver!Remains, Solver!Fragment,
     Solver!Splinter, Solver!NoOne
<1> HIDE DEF Box
<1>4. Samples \in Nat \ {0} /\ MaxRounds \in Nat /\ MaxSolves \in Nat /\ MaxTrouble \in Nat
  BY DEF SolveAssumption
<1>5. task \in 0..MaxSolves /\ trouble \in 0..MaxTrouble
  BY <1>2
<1>6. /\ task \in Nat /\ task <= MaxSolves /\ (task >= 1 => task \in 1..MaxSolves)
      /\ trouble \in Nat /\ (trouble < MaxTrouble => trouble + 1 \in 0..MaxTrouble)
  BY <1>4, <1>5
<1>7. /\ step \notin Resting => task \in 1..MaxSolves
      /\ step \in Late => winner \in Solver!Marks
  <2>1. step \notin Resting => task >= 1
    BY DEF SolveInv, SolvePlace
  <2>2. step \in Late => winner \in passed
    BY DEF SolveInv, SolvePlace
  <2> QED
    BY <1>2, <1>6, <2>1, <2>2
<1>8. Solver!Fails => trouble' \in 0..MaxTrouble
  BY <1>6 DEF Solver!Fails
<1>9. Solver!Dropped => /\ available' = {} /\ attempt' \in 0..Samples
                        /\ round' \in 0..MaxRounds /\ sandboxes' \in Seq(Box)
                        /\ winner' \in Solver!Marks \union {Solver!NoOne}
  BY <1>4, EmptySeq DEF Solver!Dropped
<1>10. \A x \in Line : Append(disk, x) \in Seq(Line)
  BY <1>2, AppendProperties
<1>11. /\ Solver!Newline \in Line /\ Solver!Remains \subseteq Line
      /\ \A m \in Solver!Marks : m \in Line
  BY DEF Line
<1>12. disk' \in Solver!CutOff => disk' \in Seq(Line)
  BY <1>2, <1>10, <1>11 DEF Solver!CutOff
<1>13. CASE Solver!Solve
  BY <1>2, <1>4, <1>13 DEF Solver!Solve
<1>14. CASE Solver!AttemptPasses
  <2>1. workdir' \subseteq Solver!Marks
    BY <1>14, TriesEffect DEF Solver!AttemptPasses
  <2>2. DOMAIN entries' \subseteq Solver!Marks /\ (\A t \in DOMAIN entries' : entries'[t] \in Nat)
    BY <1>2, <1>14 DEF Solver!AttemptPasses
  <2> QED
    BY <1>2, <1>9, <1>14, <2>1, <2>2 DEF Solver!AttemptPasses, Solver!Returns
<1>15. CASE Solver!AttemptFails
  <2>1. workdir' \subseteq Solver!Marks
    BY <1>15, TriesEffect DEF Solver!AttemptFails
  <2>2. attempt' \in 0..Samples /\ step' \in {"general", "plan"}
    BY <1>2, <1>4, <1>15 DEF Solver!AttemptFails
  <2> QED
    BY <1>2, <1>15, <2>1, <2>2 DEF Solver!AttemptFails
<1>16. CASE Solver!Plan
  <2>1. round' \in 0..MaxRounds
    BY <1>2, <1>4, <1>16 DEF Solver!Plan
  <2>2. PICK n \in 1..Proposals : sandboxes' = [i \in 1..n |-> [dir |-> workdir, at |-> "works"]]
    BY <1>16 DEF Solver!Plan
  <2>3. [dir |-> workdir, at |-> "works"] \in Box
    BY <1>2 DEF Box
  <2>4. sandboxes' \in Seq(Box)
    <3>1. n \in Nat
      BY DEF SolveAssumption
    <3> QED
      BY <2>2, <2>3, <3>1
  <2> QED
    BY <1>2, <1>16, <2>1, <2>4 DEF Solver!Plan
<1>17. CASE Solver!GiveUp
  BY <1>2, <1>9, <1>17 DEF Solver!GiveUp, Solver!Returns
<1>18. ASSUME NEW i \in DOMAIN sandboxes,
              Solver!BoxFails(i) \/ \E v \in {"passed", "failed"} : Solver!Verified(i, v)
       PROVE  Typed
  <2>1. i \in Nat \ {0} /\ sandboxes[i] \in Box
    BY <1>2, Positions
  <2>2. step = "proposals" /\ round \in Nat /\ task \in 1..MaxSolves
    <3>1. step = "proposals"
      BY <1>18 DEF Solver!BoxFails, Solver!Verified
    <3> QED
      BY <1>2, <1>4, <1>7, <3>1 DEF Resting
  <2>3. Solver!Mark(round, i) \in Solver!Marks
    BY <2>1, <2>2, MarkFacts
  <2>4. sandboxes' \in Seq(Box)
    <3>1. CASE Solver!BoxFails(i)
      <4>1. [sandboxes[i] EXCEPT !.at = "failed"] \in Box
        BY <2>1 DEF Box
      <4> QED
        BY <1>2, <3>1, <4>1, Replaced DEF Solver!BoxFails
    <3>2. CASE \E v \in {"passed", "failed"} : Solver!Verified(i, v)
      <4>1. PICK v \in {"passed", "failed"} : Solver!Verified(i, v)
        BY <3>2
      <4>2. PICK dir \in Solver!Worked(sandboxes[i].dir, Solver!Mark(round, i)) :
               sandboxes' = [sandboxes EXCEPT ![i] = [dir |-> dir, at |-> v]]
        BY <4>1 DEF Solver!Verified
      <4>3. dir \subseteq Solver!Marks
        BY <2>1, <2>3, <4>2 DEF Solver!Worked, Box
      <4>4. [dir |-> dir, at |-> v] \in Box
        BY <4>3 DEF Box
      <4> QED
        BY <1>2, <4>2, <4>4, Replaced
    <3> QED
      BY <1>18, <3>1, <3>2
  <2>5. passed' \subseteq Solver!Marks
    BY <1>2, <1>18, <2>3 DEF Solver!BoxFails, Solver!Verified
  <2> QED
    BY <1>2, <1>8, <1>18, <2>4, <2>5 DEF Solver!BoxFails, Solver!Verified
<1>19. CASE Solver!Select
  <2>1. CASE \E i \in DOMAIN sandboxes : sandboxes[i].at = "passed"
    <3>1. Solver!Winner \in DOMAIN sandboxes
      BY <1>2, <2>1, WinnerExists DEF SolveInv
    <3>2. winner' = Solver!Mark(round, Solver!Winner) /\ step' = "promote" /\ sandboxes' = sandboxes
      BY <1>19, <2>1 DEF Solver!Select
    <3>3. winner' \in Solver!Marks
      <4>1. Solver!Winner \in Nat \ {0}
        BY <1>2, <3>1, Positions
      <4> QED
        BY <1>2, <1>4, <1>7, <1>19, <3>2, <4>1, MarkFacts DEF Solver!Select, Resting
    <3> QED
      BY <1>2, <1>19, <3>2, <3>3 DEF Solver!Select
  <2>2. CASE ~\E i \in DOMAIN sandboxes : sandboxes[i].at = "passed"
    BY <1>2, <1>19, <2>2, EmptySeq DEF Solver!Select
  <2> QED
    BY <2>1, <2>2
<1>20. CASE Solver!Promote
  <2>1. workdir' \subseteq Solver!Marks
    BY <1>20, PromoteEffect DEF Solver!Promote
  <2> QED
    BY <1>2, <1>8, <1>20, <2>1 DEF Solver!Promote
<1>21. CASE Solver!WriteLine \/ Solver!EndLine
  <2>1. disk' \in Seq(Line)
    BY <1>7, <1>10, <1>11, <1>21 DEF Solver!WriteLine, Solver!EndLine, Late
  <2> QED
    BY <1>2, <1>21, <2>1 DEF Solver!WriteLine, Solver!EndLine
<1>22. CASE Solver!WriteFails
  BY <1>2, <1>8, <1>9, <1>12, <1>22 DEF Solver!WriteFails, Solver!Returns
<1>23. CASE Solver!Insert
  <2>1. DOMAIN entries' \subseteq Solver!Marks /\ (\A t \in DOMAIN entries' : entries'[t] \in Nat)
    BY <1>2, <1>7, <1>23 DEF Solver!Insert, Late
  <2> QED
    BY <1>2, <1>23, <2>1 DEF Solver!Insert
<1>24. CASE Solver!Remember
  <2>1. winner \in Solver!Marks
    BY <1>7, <1>24 DEF Solver!Remember, Late
  <2> QED
    BY <1>2, <1>8, <1>9, <1>24, <2>1 DEF Solver!Remember, Solver!Returns
<1>25. CASE Solver!Crash
  <2>1. workdir' \subseteq Solver!Marks
    BY <1>2, <1>25, TriesEffect, PromoteEffect DEF Solver!Crash
  <2>2. disk' \in Seq(Line)
    BY <1>12, <1>25 DEF Solver!Crash
  <2>3. DOMAIN entries' \subseteq Solver!Marks /\ (\A t \in DOMAIN entries' : entries'[t] \in Nat)
    BY <1>25, <2>2, LoadedMarks DEF Solver!Crash, Solver!Loaded
  <2> QED
    BY <1>2, <1>8, <1>9, <1>25, <2>1, <2>2, <2>3 DEF Solver!Crash
<1>26. CASE Solver!Quiet
  BY <1>2, <1>26 DEF Solver!Quiet, Solver!vars
<1> QED
  BY <1>13, <1>14, <1>15, <1>16, <1>17, <1>18, <1>19, <1>20, <1>21, <1>22, <1>23, <1>24, <1>25, <1>26
     DEF Solver!Next

LEMMA SolveNumbers ==
    ASSUME SolveAssumption, Solver!TypeOK
    PROVE  /\ task \in Nat /\ attempt \in Nat /\ round \in Nat /\ trouble \in Nat
           /\ \A m \in Solver!Marks : m[1] \in Nat
<1>1. MaxSolves \in Nat /\ Samples \in Nat /\ MaxRounds \in Nat /\ MaxTrouble \in Nat
  BY DEF SolveAssumption
<1>2. task \in 0..MaxSolves /\ attempt \in 0..Samples /\ round \in 0..MaxRounds /\ trouble \in 0..MaxTrouble
  BY DEF Solver!TypeOK
<1>3. \A m \in Solver!Marks : m[1] \in 1..MaxSolves
  BY MarksAreTriples
<1> QED
  BY <1>1, <1>2, <1>3

\* How solve goes on: a task begins when none is under way, and a winner stays the winner.
LEMMA SolveFlow ==
    ASSUME SolveAssumption, SolveInv, Solver!Next
    PROVE  /\ task' = task \/ (task' = task + 1 /\ step = "idle" /\ step' \in Early)
           /\ step' \in Early => step \in Early \/ task' = task + 1
           /\ step' \in Late => (step \in Late /\ winner' = winner) \/ step \in Early
           /\ step' \in Late => task' = task
           /\ step' \in {"promote", "write"} => step \in Early \union {"promote"}
           /\ passed \subseteq passed'
           /\ \A m \in passed' : m \notin passed => m[1] = task /\ task' = task
<1> USE DEF Solver!registry, Solver!ghosts, Solver!local, Solver!Returns, Solver!Dropped, Early, Late
<1>1. CASE \E i \in DOMAIN sandboxes, v \in {"passed", "failed"} : Solver!Verified(i, v)
  <2>1. PICK i \in DOMAIN sandboxes, v \in {"passed", "failed"} : Solver!Verified(i, v)
    BY <1>1
  <2>2. Solver!Mark(round, i)[1] = task
    BY DEF Solver!Mark
  <2> QED
    BY <2>1, <2>2 DEF Solver!Verified
<1>2. CASE \/ Solver!Solve \/ Solver!AttemptPasses \/ Solver!AttemptFails \/ Solver!Plan
           \/ Solver!GiveUp \/ Solver!Select \/ Solver!Promote
  BY <1>2 DEF Solver!Solve, Solver!AttemptPasses, Solver!AttemptFails, Solver!Plan, Solver!GiveUp,
     Solver!Select, Solver!Promote
<1>3. CASE \/ \E i \in DOMAIN sandboxes : Solver!BoxFails(i)
           \/ Solver!WriteLine \/ Solver!EndLine \/ Solver!WriteFails \/ Solver!Insert
           \/ Solver!Remember \/ Solver!Crash \/ Solver!Quiet
  BY <1>3 DEF Solver!BoxFails, Solver!WriteLine, Solver!EndLine, Solver!WriteFails, Solver!Insert,
     Solver!Remember, Solver!Crash, Solver!Quiet, Solver!vars
<1> QED
  BY <1>1, <1>2, <1>3 DEF Solver!Next

\* What is written to the registry's file, and when.
LEMMA DiskFlow ==
    ASSUME SolveInv, Solver!Next
    PROVE  \/ /\ step = "write" /\ step' = "end line" /\ disk' = Append(disk, winner)
              /\ winner' = winner
           \/ /\ step = "end line" /\ step' = "insert" /\ disk' = Append(disk, Solver!Newline)
              /\ winner' = winner
           \/ /\ step = "write" /\ step' \in Resting
              /\ \E rest \in Solver!Remains : disk' = Append(disk, rest)
           \/ /\ disk' = disk
              /\ step' \notin {"end line", "insert"}
              /\ step' = "remember" => step = "insert" /\ winner' = winner /\ winner \in DOMAIN entries'
<1> USE DEF Solver!registry, Solver!ghosts, Solver!local, Solver!Returns, Solver!Dropped
<1>1. CASE \/ Solver!Solve \/ Solver!AttemptPasses \/ Solver!AttemptFails \/ Solver!Plan
           \/ Solver!GiveUp \/ Solver!Select \/ Solver!Promote
  BY <1>1 DEF Solver!Solve, Solver!AttemptPasses, Solver!AttemptFails, Solver!Plan, Solver!GiveUp,
     Solver!Select, Solver!Promote
<1>2. CASE \E i \in DOMAIN sandboxes :
              Solver!BoxFails(i) \/ \E v \in {"passed", "failed"} : Solver!Verified(i, v)
  BY <1>2 DEF Solver!BoxFails, Solver!Verified
<1>3. CASE Solver!WriteLine \/ Solver!EndLine \/ Solver!Insert \/ Solver!Remember \/ Solver!Quiet
  BY <1>3 DEF Solver!WriteLine, Solver!EndLine, Solver!Insert, Solver!Remember, Solver!Quiet, Solver!vars
<1>4. CASE Solver!WriteFails \/ Solver!Crash
  <2>1. step' \in Resting /\ disk' \in Solver!CutOff
    BY <1>4 DEF Solver!WriteFails, Solver!Crash, Resting
  <2> QED
    BY <2>1, CutOffEffect DEF Resting
<1> QED
  BY <1>1, <1>2, <1>3, <1>4 DEF Solver!Next

\* What no longer can be read was not forgotten otherwise, and nothing but the winner is new.
LEMMA LoadedFlow ==
    ASSUME SolveAssumption, SolveInv, Solver!Next
    PROVE  Solver!OwnLines(disk)' \subseteq Solver!OwnLines(disk) \union (IF step \in Late THEN {winner} ELSE {})
<1>1. disk \in Seq(Line) /\ Solver!Newline \in Line /\ Solver!Remains \subseteq Line
  BY DEF SolveInv, Solver!TypeOK, Line
<1>2. step \in Late => winner \in Line
  BY DEF SolveInv, Solver!TypeOK, SolvePlace, Line
<1>3. Solver!Newline \notin Solver!Marks /\ \A rest \in Solver!Remains : rest \notin Solver!Marks
  BY MarksAreTriples
<1>4. Solver!OwnLines(disk)' = Solver!OwnLines(disk')
  BY DEF Solver!OwnLines, Solver!Newline, Solver!Remains, Solver!Fragment, Solver!Splinter
<1>5. CASE disk' = disk
  BY <1>4, <1>5
<1>6. CASE \E x \in {Solver!Newline} \union Solver!Remains : disk' = Append(disk, x)
  <2>1. PICK x \in {Solver!Newline} \union Solver!Remains : disk' = Append(disk, x)
    BY <1>6
  <2>2. x \in Line /\ x \notin Solver!Marks
    BY <1>1, <1>3
  <2> QED
    BY <1>1, <1>4, <2>1, <2>2, LoadedAppend
<1>7. CASE step = "write" /\ disk' = Append(disk, winner)
  <2>1. step \in Late
    BY <1>7 DEF Late
  <2> QED
    BY <1>1, <1>2, <1>4, <1>7, <2>1, LoadedAppend
<1> QED
  BY <1>5, <1>6, <1>7, DiskFlow

LEMMA KeptFlow ==
    ASSUME SolveAssumption, SolveInv, Solver!Next
    PROVE  Kept' \subseteq Kept \union (IF step \in Late THEN {winner} ELSE {})
<1> USE DEF Solver!registry, Solver!ghosts, Solver!local
<1> DEFINE New == IF step \in Late THEN {winner} ELSE {}
<1>1. Solver!OwnLines(disk)' \subseteq Kept \union New
  BY LoadedFlow DEF Kept
<1>2. DOMAIN entries' \subseteq Kept \union New
  <2>1. CASE Solver!AttemptPasses
    <3>1. DOMAIN entries' = DOMAIN entries
      BY <2>1 DEF Solver!AttemptPasses
    <3> QED
      BY <3>1 DEF Kept
  <2>2. CASE Solver!Insert
    BY <2>2 DEF Solver!Insert, Kept, Late
  <2>3. CASE Solver!Crash
    <3>1. DOMAIN entries' \subseteq Solver!OwnLines(disk)'
      BY <2>3 DEF Solver!Crash, Solver!Loaded, Solver!OwnLines, Solver!Newline, Solver!Remains,
         Solver!Fragment, Solver!Splinter
    <3> QED
      BY <1>1, <3>1
  <2>4. CASE ~(Solver!AttemptPasses \/ Solver!Insert \/ Solver!Crash)
    <3>1. entries' = entries
      BY <2>4 DEF Solver!Next, Solver!Solve, Solver!AttemptFails, Solver!Plan, Solver!GiveUp,
         Solver!Select, Solver!Promote, Solver!BoxFails, Solver!Verified, Solver!WriteLine,
         Solver!EndLine, Solver!WriteFails, Solver!Remember, Solver!Quiet, Solver!vars
    <3> QED
      BY <3>1 DEF Kept
  <2> QED
    BY <2>1, <2>2, <2>3, <2>4
<1>3. Proposed(workdir') \subseteq Kept \union New
  <2>1. CASE step = "general" /\ Solver!Tries
    BY <2>1, TriesEffect DEF Kept
  <2>2. CASE step = "promote" /\ (workdir' = Solver!Copied \/ workdir' \in Solver!HalfWay)
    BY <2>2, PromoteEffect DEF Kept, Late
  <2>3. CASE workdir' = workdir
    BY <2>3 DEF Kept, Proposed
  <2> QED
    <3>1. CASE Solver!AttemptPasses \/ Solver!AttemptFails \/ Solver!Promote \/ Solver!Crash
      BY <2>1, <2>2, <2>3, <3>1 DEF Solver!AttemptPasses, Solver!AttemptFails, Solver!Promote, Solver!Crash
    <3>2. CASE ~(Solver!AttemptPasses \/ Solver!AttemptFails \/ Solver!Promote \/ Solver!Crash)
      <4>1. workdir' = workdir
        BY <3>2 DEF Solver!Next, Solver!Solve, Solver!Plan, Solver!GiveUp,
           Solver!Select, Solver!BoxFails, Solver!Verified, Solver!WriteLine, Solver!Insert,
           Solver!EndLine, Solver!WriteFails, Solver!Remember, Solver!Quiet, Solver!vars
      <4> QED
        BY <2>3, <4>1
    <3> QED
      BY <3>1, <3>2
<1>4. Kept' = Proposed(workdir') \union DOMAIN entries' \union Solver!OwnLines(disk)'
  BY DEF Kept, Proposed, Solver!FromProposal
<1> QED
  BY <1>1, <1>2, <1>3, <1>4

LEMMA KeptStep == ASSUME SolveAssumption, SolveInv, Solver!Next PROVE KeptOnes'
<1>1. /\ Kept \subseteq passed /\ task \in Nat
      /\ \A m \in Kept \union passed : m[1] <= task
      /\ \A m, n \in Kept : m[1] = n[1] => m = n
      /\ step \in Early => \A m \in Kept : m[1] # task
      /\ step \in Late => \A m \in Kept : m[1] = task => m = winner
  BY SolveNumbers DEF SolveInv, KeptOnes
<1>2. step \in Late => winner \in passed /\ winner[1] = task
  BY DEF SolveInv, SolvePlace, Solver!Mark
<1>3. \A m \in passed : m[1] \in Nat
  BY SolveNumbers DEF SolveInv, Solver!TypeOK
<1>4. Kept' \subseteq passed'
  BY <1>1, <1>2, KeptFlow, SolveFlow
<1>5. ASSUME NEW m \in passed' PROVE m[1] <= task'
  <2>1. CASE m \in passed
    <3>1. m[1] \in Nat /\ m[1] <= task
      BY <1>1, <1>3, <2>1
    <3>2. task' = task \/ task' = task + 1
      BY SolveFlow
    <3> QED
      BY <1>1, <3>1, <3>2
  <2>2. CASE m \notin passed
    BY <1>1, <2>2, SolveFlow
  <2> QED
    BY <2>1, <2>2
<1>6. \A m, n \in Kept' : m[1] = n[1] => m = n
  BY <1>1, <1>2, KeptFlow
<1>7. ASSUME step' \in Early, NEW m \in Kept' PROVE m[1] # task'
  <2>1. step \notin Late
    <3>1. task' # task + 1 \/ (step = "idle" /\ task' # task)
      BY <1>1, SolveFlow
    <3> QED
      BY <1>7, <3>1, SolveFlow DEF Early, Late
  <2>2. m \in Kept /\ m[1] \in Nat /\ m[1] <= task
    BY <1>1, <1>3, <2>1, KeptFlow
  <2> QED
    BY <1>1, <1>7, <2>2, SolveFlow
<1>8. ASSUME step' \in Late, NEW m \in Kept', m[1] = task' PROVE m = winner'
  BY <1>1, <1>2, <1>8, KeptFlow, SolveFlow DEF Early, Late
<1> QED
  BY <1>4, <1>5, <1>6, <1>7, <1>8 DEF KeptOnes, Early, Late

LEMMA PlaceStep == ASSUME SolveAssumption, SolveInv, Solver!Next PROVE SolvePlace'
<1> USE DEF Solver!registry, Solver!ghosts, Solver!local
<1>1. /\ task \in Nat /\ attempt \in Nat /\ round \in Nat
      /\ sandboxes \in Seq([dir : SUBSET Solver!Marks, at : {"works", "passed", "failed"}])
  BY SolveNumbers DEF SolveInv, Solver!TypeOK
<1>2. SolvePlace /\ BoxesApart
  BY DEF SolveInv
<1>3. CASE Solver!Solve
  BY <1>1, <1>3 DEF Solver!Solve, SolvePlace, Resting, Late
<1>4. CASE Solver!AttemptFails \/ Solver!Plan
  <2>1. /\ step \in {"general", "plan"} /\ step' \in {"general", "plan", "proposals"} /\ task' = task
        /\ step' = "general" => step = "general" /\ attempt' = attempt + 1
        /\ step' = "proposals" => round' = round + 1
    BY <1>4 DEF Solver!AttemptFails, Solver!Plan
  <2>2. step' \notin Resting => task' >= 1
    BY <1>2, <2>1 DEF SolvePlace, Resting
  <2>3. step' = "general" => attempt' >= 1
    BY <1>1, <1>2, <2>1 DEF SolvePlace
  <2>4. step' = "proposals" => round' >= 1
    BY <1>1, <2>1
  <2> QED
    BY <2>1, <2>2, <2>3, <2>4 DEF SolvePlace, Resting, Late
<1>5. CASE Solver!AttemptPasses \/ Solver!GiveUp \/ Solver!WriteFails \/ Solver!Remember \/ Solver!Crash
  <2>1. step' \in Resting
    BY <1>5 DEF Solver!AttemptPasses, Solver!GiveUp, Solver!WriteFails, Solver!Remember,
       Solver!Crash, Solver!Returns, Resting
  <2> QED
    BY <2>1 DEF SolvePlace, Resting, Late
<1>6. ASSUME NEW i \in DOMAIN sandboxes,
             Solver!BoxFails(i) \/ \E v \in {"passed", "failed"} : Solver!Verified(i, v)
      PROVE  SolvePlace'
  BY <1>2, <1>6 DEF Solver!BoxFails, Solver!Verified, SolvePlace, Resting, Late
<1>7. CASE Solver!Select
  <2>1. CASE \E i \in DOMAIN sandboxes : sandboxes[i].at = "passed"
    <3>1. Solver!Winner \in DOMAIN sandboxes /\ sandboxes[Solver!Winner].at = "passed"
      BY <1>1, <2>1, WinnerExists
    <3>2. Solver!Mark(round, Solver!Winner) \in passed
      BY <1>2, <1>7, <3>1 DEF BoxesApart, Solver!Select
    <3>3. /\ step = "proposals" /\ step' = "promote" /\ winner' = Solver!Mark(round, Solver!Winner)
          /\ sandboxes' = sandboxes /\ round' = round /\ task' = task /\ passed' = passed
      BY <1>7, <2>1 DEF Solver!Select
    <3>4. winner'[3] = Solver!Winner /\ winner' = <<task, round, winner'[3]>>
      BY <3>3 DEF Solver!Mark
    <3> QED
      BY <1>2, <3>1, <3>2, <3>3, <3>4 DEF SolvePlace, Resting, Late, Solver!Mark
  <2>2. CASE ~\E i \in DOMAIN sandboxes : sandboxes[i].at = "passed"
    BY <1>2, <1>7, <2>2 DEF Solver!Select, SolvePlace, Resting, Late
  <2> QED
    BY <2>1, <2>2
<1>8. CASE Solver!Promote \/ Solver!WriteLine \/ Solver!EndLine \/ Solver!Insert
  BY <1>2, <1>8 DEF Solver!Promote, Solver!WriteLine, Solver!EndLine, Solver!Insert, SolvePlace, Resting, Late,
     Solver!Mark
<1>9. CASE Solver!Quiet
  BY <1>2, <1>9 DEF Solver!Quiet, Solver!vars, SolvePlace, Solver!Mark
<1> QED
  BY <1>3, <1>4, <1>5, <1>6, <1>7, <1>8, <1>9 DEF Solver!Next

LEMMA BoxesStep == ASSUME SolveAssumption, SolveInv, Solver!Next PROVE BoxesApart'
<1> USE DEF Solver!registry, Solver!ghosts, Solver!local
<1>1. BoxesApart
  BY DEF SolveInv
<1>2. CASE step' \notin {"proposals", "promote"}
  BY <1>2 DEF BoxesApart
<1>3. CASE Solver!Plan
  BY <1>3 DEF Solver!Plan, BoxesApart, Proposed
<1>4. ASSUME NEW i \in DOMAIN sandboxes, Solver!BoxFails(i) PROVE BoxesApart'
  <2>1. /\ step = "proposals" /\ workdir' = workdir /\ passed' = passed /\ round' = round /\ task' = task
        /\ sandboxes' = [sandboxes EXCEPT ![i].at = "failed"]
    BY <1>4 DEF Solver!BoxFails
  <2>2. \A j \in DOMAIN sandboxes' : /\ j \in DOMAIN sandboxes
                                     /\ sandboxes'[j].dir = sandboxes[j].dir
                                     /\ sandboxes'[j].at \in {sandboxes[j].at, "failed"}
    <3> DEFINE Box == [dir : SUBSET Solver!Marks, at : {"works", "passed", "failed"}]
    <3>1. \A b \in Box : /\ [b EXCEPT !.at = "failed"].dir = b.dir
                         /\ [b EXCEPT !.at = "failed"].at = "failed"
      OBVIOUS
    <3>2. sandboxes \in Seq(Box)
      BY DEF SolveInv, Solver!TypeOK
    <3> HIDE DEF Box
    <3>3. sandboxes[i] \in Box
      BY <3>2, Positions
    <3> QED
      BY <2>1, <3>1, <3>3
  <2> QED
    BY <1>1, <2>1, <2>2 DEF BoxesApart, Proposed, Solver!Mark, Solver!FromProposal
<1>5. ASSUME NEW i \in DOMAIN sandboxes, NEW v \in {"passed", "failed"}, Solver!Verified(i, v)
      PROVE  BoxesApart'
  <2>1. /\ step = "proposals" /\ workdir' = workdir /\ round' = round /\ task' = task
        /\ passed' = (IF v = "passed" THEN passed \union {Solver!Mark(round, i)} ELSE passed)
    BY <1>5 DEF Solver!Verified
  <2>2. PICK dir \in Solver!Worked(sandboxes[i].dir, Solver!Mark(round, i)) :
           sandboxes' = [sandboxes EXCEPT ![i] = [dir |-> dir, at |-> v]]
    BY <1>5 DEF Solver!Verified
  <2>3. dir \subseteq sandboxes[i].dir \union {Solver!Mark(round, i)}
    BY <2>2 DEF Solver!Worked
  <2>4. \A j \in DOMAIN sandboxes' :
           /\ j \in DOMAIN sandboxes
           /\ sandboxes'[j].dir \subseteq sandboxes[j].dir \union {Solver!Mark(round, j)}
           /\ sandboxes'[j].at = "passed" => sandboxes[j].at = "passed" \/ (j = i /\ v = "passed")
    BY <2>2, <2>3
  <2>5. \A j \in DOMAIN sandboxes :
           /\ Proposed(sandboxes[j].dir) \subseteq workdir \union {Solver!Mark(round, j)}
           /\ sandboxes[j].at = "passed" => Solver!Mark(round, j) \in passed
    BY <1>1, <2>1 DEF BoxesApart
  <2>6. \A j : Solver!Mark(round, j)' = Solver!Mark(round, j)
    BY <2>1 DEF Solver!Mark
  <2>7. ASSUME NEW j \in DOMAIN sandboxes'
        PROVE  /\ Proposed(sandboxes'[j].dir) \subseteq workdir \union {Solver!Mark(round, j)}
               /\ sandboxes'[j].at = "passed" => Solver!Mark(round, j) \in passed'
    <3>1. Proposed(sandboxes'[j].dir) \subseteq Proposed(sandboxes[j].dir) \union {Solver!Mark(round, j)}
      BY <2>4 DEF Proposed
    <3> QED
      BY <2>1, <2>4, <2>5, <3>1
  <2> QED
    BY <2>1, <2>6, <2>7 DEF BoxesApart, Proposed, Solver!FromProposal
<1>6. CASE Solver!Select \/ Solver!Quiet
  BY <1>1, <1>2, <1>6 DEF Solver!Select, Solver!Quiet, Solver!vars, BoxesApart, Proposed, Solver!Mark,
     Solver!FromProposal
<1>7. CASE ~(Solver!Plan \/ Solver!Select \/ Solver!Quiet)
           /\ ~\E i \in DOMAIN sandboxes :
                   Solver!BoxFails(i) \/ \E v \in {"passed", "failed"} : Solver!Verified(i, v)
  <2>1. step' \notin {"proposals", "promote"}
    BY <1>7 DEF Solver!Next, Solver!Solve, Solver!AttemptPasses, Solver!AttemptFails, Solver!GiveUp,
       Solver!Promote, Solver!WriteLine, Solver!EndLine, Solver!WriteFails, Solver!Insert,
       Solver!Remember, Solver!Crash, Solver!Returns
  <2> QED
    BY <1>2, <2>1
<1> QED
  BY <1>3, <1>4, <1>5, <1>6, <1>7

LEMMA AppendLine ==
    ASSUME NEW d \in Seq(Line), NEW x \in Line
    PROVE  /\ Len(Append(d, x)) = Len(d) + 1 /\ Append(d, x)[Len(d) + 1] = x
           /\ DOMAIN Append(d, x) = 1..(Len(d) + 1) /\ DOMAIN d = 1..Len(d) /\ Len(d) \in Nat
           /\ \A k \in DOMAIN d : Append(d, x)[k] = d[k]
BY AppendProperties, LenProperties

\* A whole line that can be read stays readable.
LEMMA LoadedStays ==
    ASSUME NEW d \in Seq(Line), NEW x \in Line, NEW t \in Solver!OwnLines(d),
           \A k \in DOMAIN d : d[k] = t => k < Len(d) /\ d[k + 1] = Solver!Newline
    PROVE  t \in Solver!OwnLines(Append(d, x))
<1> DEFINE e == Append(d, x)
<1>1. PICK k \in DOMAIN d : /\ t = d[k] /\ d[k] \notin {Solver!Newline} \union Solver!Remains
                            /\ k > 1 => d[k - 1] = Solver!Newline
  BY DEF Solver!OwnLines
<1>2. k < Len(d) /\ d[k + 1] = Solver!Newline
  BY <1>1
<1>3. /\ Len(e) = Len(d) + 1 /\ DOMAIN e = 1..(Len(d) + 1) /\ DOMAIN d = 1..Len(d) /\ Len(d) \in Nat
      /\ \A j \in DOMAIN d : e[j] = d[j]
  BY AppendLine
<1> HIDE DEF e
<1>4. k \in DOMAIN e /\ e[k] = d[k] /\ k + 1 \in DOMAIN d
  BY <1>1, <1>2, <1>3
<1>5. k > 1 => e[k - 1] = Solver!Newline
  BY <1>1, <1>3
<1>6. e[k + 1] = Solver!Newline
  BY <1>2, <1>3, <1>4
<1>7. t \in Solver!OwnLines(e)
  BY <1>1, <1>4, <1>5, <1>6 DEF Solver!OwnLines
<1> QED
  BY <1>7 DEF e

\* Only remembering announces a tool; only a crash takes one from memory.
LEMMA ToolFlow ==
    ASSUME SolveInv, Solver!Next
    PROVE  /\ \/ announced' = announced
              \/ /\ step = "remember" /\ step' = "idle" /\ announced' = announced \union {winner}
                 /\ disk' = disk /\ task' = task /\ entries' = entries
           /\ \/ /\ DOMAIN entries \subseteq DOMAIN entries'
                 /\ step = "closed" => step' = "closed"
              \/ step' # "closed" => DOMAIN entries' = Solver!OwnLines(disk)'
<1> USE DEF Solver!registry, Solver!ghosts, Solver!local, Solver!Returns, Solver!Dropped
<1>1. CASE \/ Solver!Solve \/ Solver!AttemptPasses \/ Solver!AttemptFails \/ Solver!Plan
           \/ Solver!GiveUp \/ Solver!Select \/ Solver!Promote
  BY <1>1 DEF Solver!Solve, Solver!AttemptPasses, Solver!AttemptFails, Solver!Plan, Solver!GiveUp,
     Solver!Select, Solver!Promote
<1>2. CASE \E i \in DOMAIN sandboxes :
              Solver!BoxFails(i) \/ \E v \in {"passed", "failed"} : Solver!Verified(i, v)
  BY <1>2 DEF Solver!BoxFails, Solver!Verified
<1>3. CASE Solver!WriteLine \/ Solver!EndLine \/ Solver!WriteFails \/ Solver!Quiet
  BY <1>3 DEF Solver!WriteLine, Solver!EndLine, Solver!WriteFails, Solver!Quiet, Solver!vars
<1>4. CASE Solver!Insert \/ Solver!Remember
  BY <1>4 DEF Solver!Insert, Solver!Remember
<1>5. CASE Solver!Crash
  BY <1>5 DEF Solver!Crash, Solver!Loaded, Solver!Readable, Solver!OwnLines, Solver!Newline,
     Solver!Remains, Solver!Fragment, Solver!Splinter
<1> QED
  BY <1>1, <1>2, <1>3, <1>4, <1>5 DEF Solver!Next

\* What the invariant says of the file in the words the next proofs use.
LEMMA DiskFacts ==
    ASSUME SolveAssumption, SolveInv
    PROVE  /\ disk \in Seq(Line) /\ Solver!Newline \in Line /\ Solver!Remains \subseteq Line
           /\ Solver!Newline \notin Solver!Marks /\ Solver!Marks \intersect Solver!Remains = {}
           /\ announced \subseteq Solver!Marks /\ task \in Nat
           /\ step \in Late => winner \in Solver!Marks /\ winner \in Line /\ winner[1] = task
           /\ \A m \in Solver!Marks : m[1] \in Nat
           /\ Len(disk) \in Nat /\ DOMAIN disk = 1..Len(disk)
<1>1. disk \in Seq(Line) /\ announced \subseteq Solver!Marks /\ passed \subseteq Solver!Marks
  BY DEF SolveInv, Solver!TypeOK, Line
<1>2. step \in Late => winner \in passed /\ winner[1] = task
  BY DEF SolveInv, SolvePlace, Solver!Mark
<1>3. task \in Nat /\ \A m \in Solver!Marks : m[1] \in Nat
  BY SolveNumbers DEF SolveInv
<1> QED
  BY <1>1, <1>2, <1>3, MarksAreTriples, LenProperties DEF Line

LEMMA TaskLines == ASSUME SolveAssumption, SolveInv, Solver!Next PROVE LinesOfTasks'
<1> DEFINE n == Len(disk)
           Old == Early \union {"promote", "write"}
<1>1. /\ disk \in Seq(Line) /\ Solver!Newline \in Line /\ Solver!Remains \subseteq Line
      /\ Solver!Newline \notin Solver!Marks /\ Solver!Marks \intersect Solver!Remains = {}
      /\ task \in Nat /\ n \in Nat /\ DOMAIN disk = 1..n
      /\ step \in Late => winner \in Solver!Marks /\ winner \in Line /\ winner[1] = task
      /\ \A m \in Solver!Marks : m[1] \in Nat
  BY DiskFacts
<1>0. n = Len(disk)
  OBVIOUS
<1>2. /\ \A k \in DOMAIN disk : disk[k] \in Solver!Marks => disk[k][1] <= task
      /\ step \in Old => \A k \in DOMAIN disk : disk[k] \in Solver!Marks => disk[k][1] # task
      /\ step = "end line" => /\ n >= 1 /\ disk[n] = winner
                              /\ \A k \in DOMAIN disk : disk[k] = winner => k = n
      /\ step \in {"insert", "remember"} =>
             /\ n >= 2 /\ disk[n - 1] = winner /\ disk[n] = Solver!Newline
             /\ \A k \in DOMAIN disk : disk[k] = winner => k = n - 1
  BY DEF SolveInv, LinesOfTasks
<1> HIDE DEF n
<1>9. SUFFICES
      /\ \A k \in DOMAIN disk' : disk'[k] \in Solver!Marks =>
             /\ disk'[k][1] <= task'
             /\ step' \in Old => disk'[k][1] # task'
      /\ step' = "end line" => /\ Len(disk') >= 1 /\ disk'[Len(disk')] = winner'
                               /\ \A k \in DOMAIN disk' : disk'[k] = winner' => k = Len(disk')
      /\ step' \in {"insert", "remember"} =>
             /\ Len(disk') >= 2 /\ disk'[Len(disk') - 1] = winner'
             /\ disk'[Len(disk')] = Solver!Newline
             /\ \A k \in DOMAIN disk' : disk'[k] = winner' => k = Len(disk') - 1
      /\ step' = "remember" => winner' \in DOMAIN entries'
  BY DEF LinesOfTasks, Solver!Marks, Solver!Newline
<1>3. task' = task \/ task' = task + 1
  BY SolveFlow
<1>4. step' \in Old => step \in Old \/ task' = task + 1
  BY SolveFlow DEF Early, Late
<1>10. ASSUME NEW x \in Line
       PROVE  /\ Len(Append(disk, x)) = n + 1 /\ Append(disk, x)[n + 1] = x
              /\ DOMAIN Append(disk, x) = 1..(n + 1)
              /\ \A k \in 1..n : Append(disk, x)[k] = disk[k]
  BY <1>0, <1>1, AppendLine
<1>5. CASE disk' = disk
  <2>1. ASSUME NEW k \in DOMAIN disk, disk[k] \in Solver!Marks
        PROVE  disk[k][1] <= task' /\ (step' \in Old => disk[k][1] # task')
    <3>1. disk[k][1] \in Nat /\ disk[k][1] <= task /\ (step \in Old => disk[k][1] # task)
      BY <1>1, <1>2, <2>1
    <3> QED
      BY <1>1, <1>3, <1>4, <3>1, SolveFlow DEF Early
  <2>2. step' # "end line" /\ step' # "insert"
    <3>1. ASSUME NEW x \in Line PROVE Append(disk, x) # disk
      BY <1>0, <1>1, <1>10
    <3>2. step = "write" => Append(disk, winner) # disk
      BY <1>1, <3>1 DEF Late
    <3>3. Append(disk, Solver!Newline) # disk
      BY <1>1, <3>1
    <3> QED
      BY <1>5, <3>2, <3>3, DiskFlow DEF Resting
  <2>3. step' = "remember" => step = "insert" /\ winner' = winner /\ winner \in DOMAIN entries'
    BY <2>2, DiskFlow DEF Resting
  <2> QED
    BY <1>0, <1>2, <1>5, <2>1, <2>2, <2>3
<1>6. CASE step = "write" /\ step' = "end line" /\ disk' = Append(disk, winner) /\ winner' = winner
  <2>1. /\ Len(disk') = n + 1 /\ disk'[n + 1] = winner /\ DOMAIN disk' = 1..(n + 1)
        /\ \A k \in 1..n : disk'[k] = disk[k]
    BY <1>1, <1>6, <1>10 DEF Late
  <2>2. task' = task /\ winner \in Solver!Marks /\ winner[1] = task
    BY <1>1, <1>6, SolveFlow DEF Late
  <2>3. ASSUME NEW k \in DOMAIN disk', disk'[k] \in Solver!Marks
        PROVE  disk'[k][1] <= task /\ (disk'[k] = winner => k = n + 1)
    <3>1. CASE k = n + 1
      BY <1>1, <2>1, <2>2, <3>1
    <3>2. CASE k \in 1..n
      <4>1. disk[k] \in Solver!Marks /\ disk'[k] = disk[k]
        BY <2>1, <2>3, <3>2
      <4> QED
        BY <1>1, <1>2, <1>6, <2>2, <3>2, <4>1
    <3> QED
      BY <1>1, <2>1, <3>1, <3>2
  <2> QED
    <3>1. n + 1 >= 1 /\ "end line" \notin Old
      BY <1>1 DEF Early
    <3> QED
      BY <1>6, <2>1, <2>2, <2>3, <3>1
<1>7. CASE step = "end line" /\ step' = "insert" /\ disk' = Append(disk, Solver!Newline) /\ winner' = winner
  <2>1. /\ Len(disk') = n + 1 /\ disk'[n + 1] = Solver!Newline /\ DOMAIN disk' = 1..(n + 1)
        /\ \A k \in 1..n : disk'[k] = disk[k]
    BY <1>1, <1>7, <1>10
  <2>2. task' = task /\ winner \in Solver!Marks
    BY <1>1, <1>7, SolveFlow DEF Late
  <2>3. ASSUME NEW k \in DOMAIN disk', disk'[k] \in Solver!Marks
        PROVE  disk'[k][1] <= task /\ (disk'[k] = winner => k = n)
    <3>1. k \in 1..n
      BY <1>1, <2>1, <2>3
    <3>2. disk[k] \in Solver!Marks /\ disk'[k] = disk[k]
      BY <2>1, <2>3, <3>1
    <3> QED
      BY <1>1, <1>2, <1>7, <3>1, <3>2
  <2>4. n \in 1..n /\ n + 1 >= 2 /\ (n + 1) - 1 = n
    <3>1. n >= 1
      BY <1>2, <1>7
    <3> QED
      BY <1>1, <3>1
  <2>5. disk'[n] = winner /\ "insert" \notin Old
    BY <1>2, <1>7, <2>1, <2>4 DEF Early
  <2> QED
    <3>1. Len(disk') - 1 = n /\ Len(disk') >= 2 /\ disk'[Len(disk')] = Solver!Newline
      BY <2>1, <2>4
    <3>2. /\ disk'[Len(disk') - 1] = winner'
          /\ \A k \in DOMAIN disk' : disk'[k] = winner' => k = Len(disk') - 1
      BY <1>7, <2>2, <2>3, <2>5, <3>1
    <3> QED
      BY <1>7, <2>2, <2>3, <2>5, <3>1, <3>2
<1>8. CASE step' \in Resting /\ \E rest \in Solver!Remains : disk' = Append(disk, rest)
  <2>4. PICK rest \in Solver!Remains : disk' = Append(disk, rest)
    BY <1>8
  <2>5. rest \in Line /\ rest \notin Solver!Marks
    BY <1>1
  <2>1. /\ disk'[n + 1] = rest /\ DOMAIN disk' = 1..(n + 1)
        /\ \A k \in 1..n : disk'[k] = disk[k]
    BY <1>10, <2>4, <2>5
  <2>2. task' = task
    BY <1>8, SolveFlow DEF Early, Resting
  <2>3. ASSUME NEW k \in DOMAIN disk', disk'[k] \in Solver!Marks PROVE disk'[k][1] <= task
    <3>1. k \in 1..n
      BY <1>1, <2>1, <2>3, <2>5
    <3> QED
      BY <1>1, <1>2, <2>1, <2>3, <3>1
  <2> QED
    BY <1>8, <2>2, <2>3 DEF Early, Resting
<1> QED
  BY <1>5, <1>6, <1>7, <1>8, DiskFlow

LEMMA ToolLines == ASSUME SolveAssumption, SolveInv, Solver!Next PROVE LinesOfTools'
<1> DEFINE n == Len(disk)
<1>1. /\ disk \in Seq(Line) /\ Solver!Newline \in Line /\ Solver!Remains \subseteq Line
      /\ Solver!Newline \notin Solver!Marks /\ Solver!Marks \intersect Solver!Remains = {}
      /\ announced \subseteq Solver!Marks
      /\ task \in Nat /\ n \in Nat /\ DOMAIN disk = 1..n
      /\ step \in Late => winner \in Solver!Marks /\ winner \in Line /\ winner[1] = task
      /\ \A m \in Solver!Marks : m[1] \in Nat
  BY DiskFacts
<1>2. /\ \A t \in announced : t[1] <= task /\ (step \notin Resting => t[1] # task)
      /\ \A k \in DOMAIN disk : disk[k] \in announced => k < n /\ disk[k + 1] = Solver!Newline
  BY DEF SolveInv, LinesOfTools
<1>3. task' = task \/ task' = task + 1
  BY SolveFlow
<1>4. step' \notin Resting => step \notin Resting \/ task' = task + 1
  <2>1. step' \in Resting \union Early \union Late
    BY SolveTypes DEF Solver!TypeOK, Resting, Early, Late
  <2> QED
    BY <2>1, SolveFlow DEF Resting, Early, Late
<1>5. CASE announced' = announced
  <2>1. ASSUME NEW t \in announced PROVE t[1] <= task' /\ (step' \notin Resting => t[1] # task')
    <3>1. t[1] \in Nat /\ t[1] <= task /\ (step \notin Resting => t[1] # task)
      BY <1>1, <1>2
    <3> QED
      BY <1>1, <1>3, <1>4, <3>1, SolveFlow DEF Early
  <2>2. ASSUME NEW x \in Line \ announced, disk' = Append(disk, x), NEW k \in DOMAIN disk', disk'[k] \in announced
        PROVE  k < Len(disk') /\ disk'[k + 1] = Solver!Newline
    <3>1. /\ Len(disk') = n + 1 /\ disk'[n + 1] = x /\ DOMAIN disk' = 1..(n + 1)
          /\ \A j \in 1..n : disk'[j] = disk[j]
      BY <1>1, <2>2, AppendLine
    <3>2. k \in 1..n /\ disk[k] \in announced
      BY <1>1, <2>2, <3>1
    <3>3. k < n /\ disk[k + 1] = Solver!Newline /\ k + 1 \in 1..n
      BY <1>1, <1>2, <3>2
    <3> QED
      BY <1>1, <3>1, <3>2, <3>3
  <2>3. \A k \in DOMAIN disk' : disk'[k] \in announced => k < Len(disk') /\ disk'[k + 1] = Solver!Newline
    <3>1. CASE disk' = disk
      BY <1>2, <3>1
    <3>2. CASE \E x \in {Solver!Newline} \union Solver!Remains : disk' = Append(disk, x)
      <4>1. PICK x \in {Solver!Newline} \union Solver!Remains : disk' = Append(disk, x)
        BY <3>2
      <4>2. x \in Line \ announced
        BY <1>1
      <4>3. ASSUME NEW k \in DOMAIN disk', disk'[k] \in announced
            PROVE  k < Len(disk') /\ disk'[k + 1] = Solver!Newline
        BY <2>2, <4>1, <4>2, <4>3
      <4> QED
        BY <4>3
    <3>3. CASE step = "write" /\ disk' = Append(disk, winner)
      <4>1. winner \in Line /\ winner \notin announced
        BY <1>1, <1>2, <3>3 DEF Late, Resting
      <4> QED
        BY <2>2, <3>3, <4>1
    <3> QED
      BY <3>1, <3>2, <3>3, DiskFlow
  <2> QED
    BY <1>5, <2>1, <2>3 DEF LinesOfTools, Resting, Solver!Newline
<1>6. CASE /\ step = "remember" /\ step' = "idle" /\ announced' = announced \union {winner}
           /\ disk' = disk /\ task' = task
  <2>1. winner[1] = task
    BY <1>1, <1>6 DEF Late
  <2>2. /\ n >= 2 /\ disk[n] = Solver!Newline
        /\ \A k \in DOMAIN disk : disk[k] = winner => k = n - 1
    BY <1>6 DEF SolveInv, LinesOfTasks
  <2>3. ASSUME NEW k \in DOMAIN disk, disk[k] \in announced \union {winner}
        PROVE  k < n /\ disk[k + 1] = Solver!Newline
    <3>1. CASE disk[k] = winner
      BY <1>1, <2>2, <3>1
    <3>2. CASE disk[k] \in announced
      BY <1>2, <3>2
    <3> QED
      BY <2>3, <3>1, <3>2
  <2>4. \A t \in announced \union {winner} : t[1] <= task
    BY <1>1, <1>2, <2>1
  <2> QED
    BY <1>6, <2>3, <2>4 DEF LinesOfTools, Resting, Solver!Newline
<1> QED
  BY <1>5, <1>6, ToolFlow

LEMMA ToolsStay == ASSUME SolveAssumption, SolveInv, Solver!Next PROVE ToolsAreThere'
<1> DEFINE n == Len(disk)
           Behind(t, k) == k > 1 /\ disk[k] = t /\ disk[k - 1] # Solver!Newline /\ disk[k - 1] \notin announced
<1>1. /\ disk \in Seq(Line) /\ Solver!Newline \in Line /\ Solver!Remains \subseteq Line
      /\ Solver!Newline \notin Solver!Marks /\ Solver!Marks \intersect Solver!Remains = {}
      /\ announced \subseteq Solver!Marks
      /\ n \in Nat /\ DOMAIN disk = 1..n
      /\ step \in Late => winner \in Solver!Marks /\ winner \in Line
  BY DiskFacts
<1>2. \A k \in DOMAIN disk : disk[k] \in announced => k < n /\ disk[k + 1] = Solver!Newline
  BY DEF SolveInv, LinesOfTools
<1>3. step = "remember" =>
          /\ n >= 2 /\ disk[n - 1] = winner /\ disk[n] = Solver!Newline
          /\ \A k \in DOMAIN disk : disk[k] = winner => k = n - 1
          /\ winner \in DOMAIN entries
  BY DEF SolveInv, LinesOfTasks
<1>0. n = Len(disk)
  OBVIOUS
<1> HIDE DEF n
<1>4. disk' = disk \/ \E x \in Line : disk' = Append(disk, x)
  BY <1>1, DiskFlow DEF Late
<1>5. Solver!OwnLines(disk)' = Solver!OwnLines(disk')
  BY DEF Solver!OwnLines, Solver!Newline, Solver!Remains, Solver!Fragment, Solver!Splinter
<1>6. \A k \in DOMAIN disk : k \in DOMAIN disk' /\ disk'[k] = disk[k]
  <2>1. ASSUME NEW x \in Line, disk' = Append(disk, x), NEW k \in DOMAIN disk
        PROVE  k \in DOMAIN disk' /\ disk'[k] = disk[k]
    BY <1>0, <1>1, <2>1, AppendLine
  <2> QED
    BY <1>4, <2>1
<1>7. SUFFICES ASSUME NEW t \in announced'
               PROVE  \/ (step' # "closed" => t \in DOMAIN entries') /\ t \in Solver!OwnLines(disk')
                      \/ \E k \in DOMAIN disk' : /\ k > 1 /\ disk'[k] = t
                                                 /\ disk'[k - 1] # Solver!Newline
                                                 /\ disk'[k - 1] \notin announced'
  BY <1>5 DEF ToolsAreThere, Solver!Glued, Solver!Newline
<1>8. ASSUME t \in announced, step # "closed" => t \in DOMAIN entries, t \in Solver!OwnLines(disk)
      PROVE  (step' # "closed" => t \in DOMAIN entries') /\ t \in Solver!OwnLines(disk')
  <2>1. ASSUME NEW x \in Line, disk' = Append(disk, x) PROVE t \in Solver!OwnLines(disk')
    BY <1>0, <1>1, <1>2, <1>8, <2>1, LoadedStays
  <2>2. t \in Solver!OwnLines(disk')
    BY <1>4, <1>8, <2>1
  <2> QED
    BY <1>5, <1>8, <2>2, ToolFlow
<1>9. ASSUME t \in announced, NEW k \in DOMAIN disk, Behind(t, k)
      PROVE  /\ k \in DOMAIN disk' /\ k > 1 /\ disk'[k] = t
             /\ disk'[k - 1] # Solver!Newline /\ disk'[k - 1] \notin announced'
  <2>1. k - 1 \in DOMAIN disk
    BY <1>1, <1>9
  <2>2. disk'[k] = t /\ disk'[k - 1] = disk[k - 1]
    BY <1>6, <1>9, <2>1
  <2>3. ASSUME step = "remember", disk[k - 1] = winner PROVE FALSE
    <3>1. k = n
      BY <1>1, <1>3, <2>1, <2>3
    <3> QED
      BY <1>1, <1>3, <1>9, <2>3, <3>1
  <2> QED
    BY <1>6, <1>9, <2>2, <2>3, ToolFlow
<1>10. ASSUME t \notin announced
       PROVE  \/ (step' # "closed" => t \in DOMAIN entries') /\ t \in Solver!OwnLines(disk')
              \/ \E k \in DOMAIN disk' : /\ k > 1 /\ disk'[k] = t
                                         /\ disk'[k - 1] # Solver!Newline
                                         /\ disk'[k - 1] \notin announced'
  <2>1. /\ step = "remember" /\ announced' = announced \union {winner} /\ t = winner
        /\ disk' = disk /\ entries' = entries
    BY <1>7, <1>10, ToolFlow
  <2>2. /\ n >= 2 /\ disk[n - 1] = winner /\ disk[n] = Solver!Newline
        /\ winner \in DOMAIN entries /\ winner \in Solver!Marks
        /\ n - 1 \in DOMAIN disk
    BY <1>1, <1>3, <2>1 DEF Late
  <2>3. CASE n - 1 > 1 => disk[(n - 1) - 1] = Solver!Newline
    <3>1. winner \in Solver!OwnLines(disk)
      <4>1. winner \notin {Solver!Newline} \union Solver!Remains /\ (n - 1) + 1 = n
        BY <1>1, <2>2, MarksAreTriples
      <4> QED
        BY <1>0, <2>2, <2>3, <4>1 DEF Solver!OwnLines
    <3> QED
      BY <2>1, <2>2, <3>1
  <2>4. CASE n - 1 > 1 /\ disk[(n - 1) - 1] # Solver!Newline
    <3>1. (n - 1) - 1 \in DOMAIN disk /\ (n - 1) - 1 # n - 1 /\ ((n - 1) - 1) + 1 = n - 1
      BY <1>1, <2>4
    <3>2. disk[(n - 1) - 1] # winner
      BY <1>3, <2>1, <3>1
    <3>3. disk[(n - 1) - 1] \notin announced
      BY <1>1, <1>2, <2>2, <3>1
    <3> QED
      BY <2>1, <2>2, <2>4, <3>2, <3>3
  <2> QED
    BY <2>3, <2>4
<1> QED
  <2>1. CASE t \in announced
    <3>1. \/ (step # "closed" => t \in DOMAIN entries) /\ t \in Solver!OwnLines(disk)
          \/ \E k \in DOMAIN disk : Behind(t, k)
      BY <2>1 DEF SolveInv, ToolsAreThere, Solver!Glued
    <3> QED
      BY <1>8, <1>9, <2>1, <3>1
  <2>2. CASE t \notin announced
    BY <1>10, <2>2
  <2> QED
    BY <2>1, <2>2

LEMMA SolveStep == SolveAssumption /\ SolveInv /\ [Solver!Next]_(Solver!vars) => SolveInv'
<1>1. ASSUME SolveAssumption, SolveInv, Solver!Next PROVE SolveInv'
  BY <1>1, SolveTypes, PlaceStep, KeptStep, BoxesStep, TaskLines, ToolLines, ToolsStay DEF SolveInv
<1>2. ASSUME SolveInv, UNCHANGED Solver!vars PROVE SolveInv'
  <2> USE <1>2 DEF Solver!vars, Solver!registry, Solver!ghosts, SolveInv
  <2>1. Solver!TypeOK'
    BY DEF Solver!TypeOK, Solver!Marks, Solver!Newline, Solver!Remains, Solver!Fragment,
       Solver!Splinter, Solver!NoOne
  <2>2. SolvePlace' /\ BoxesApart'
    BY DEF SolvePlace, BoxesApart, Proposed, Solver!Mark, Solver!FromProposal
  <2>3. KeptOnes'
    BY DEF KeptOnes, Kept, Proposed, Solver!FromProposal, Solver!OwnLines, Solver!Newline,
       Solver!Remains, Solver!Fragment, Solver!Splinter
  <2>4. LinesOfTasks'
    BY DEF LinesOfTasks, Solver!Marks, Solver!Newline
  <2>5. LinesOfTools' /\ ToolsAreThere'
    BY DEF LinesOfTools, ToolsAreThere, Solver!Glued, Solver!OwnLines, Solver!Newline,
       Solver!Remains, Solver!Fragment, Solver!Splinter
  <2> QED
    BY <2>1, <2>2, <2>3, <2>4, <2>5
<1> QED
  BY <1>1, <1>2

(***************************************************************************)
(* Solver!RecoveryIsSound for any number of tasks, rounds, proposals and   *)
(* failures: only a proposal that passed reaches the working directory or  *)
(* the registry, one for a task. However often the process dies, a tool    *)
(* that solve returned is loaded again, unless its line was written behind *)
(* a cut one, or a line was cut inside a character, which leaves a file    *)
(* that no registry opens.                                                 *)
(***************************************************************************)
THEOREM RecoveryHolds == Solver!Spec => []RecoveryIsSound
<1>1. SolveInv => RecoveryIsSound
  <2>1. Solver!Loaded(disk) \subseteq Solver!OwnLines(disk)
    BY DEF Solver!Loaded
  <2>2. SolveInv => Solver!OnlyWinners
    BY <2>1 DEF SolveInv, KeptOnes, Kept, Proposed, Solver!OnlyWinners
  <2>3. SolveInv => Solver!ToolsAreKept
    BY DEF SolveInv, ToolsAreThere, Solver!ToolsAreKept, Solver!Loaded
  <2> QED
    BY <2>2, <2>3 DEF RecoveryIsSound, Solver!RecoveryIsSound
<1>2. Solver!Init => SolveInv
  BY SolveInit, SolveAssumption
<1>3. SolveInv /\ [Solver!Next]_(Solver!vars) => SolveInv'
  BY SolveStep, SolveAssumption
<1> QED
  BY <1>1, <1>2, <1>3, PTL DEF Solver!Spec

-------------------------------------------------------------------------------
(* Sandboxes and their snapshots *)

Taking    == {"copy", "entries", "counter", "put", "cache"}
Restoring == {"create", "back", "clear", "insert", "next", "restored"}

Files  == [BoxFiles -> Nat]
Images == UNION {[F -> Nat] : F \in SUBSET BoxFiles}
Value  == [version : Nat, value : Nat]
Stores == UNION {[K -> Value] : K \in SUBSET BoxKeys}
Calls  == [at : {"idle"} \union Taking \union Restoring, box : Nat, id : Nat,
           left : SUBSET (BoxFiles \union BoxKeys), entries : Stores, next : Nat,
           still : BOOLEAN, calm : BOOLEAN]

VmTypes ==
    /\ backend \in {"local", "docker"}
    /\ boxes \in Seq([files : Files, status : {"running", "paused", "killed"}])
    /\ store \in Stores /\ counter \in Nat /\ stamp \in Nat
    /\ setting = Vm!NoSet \/ setting \in [key : BoxKeys, version : Nat, value : Nat]
    /\ images \in Seq(Images)
    /\ origin \in Seq({"local", "docker"}) /\ Len(origin) = Len(images)
    /\ taken \in Seq([files : Files, entries : Stores, next : Nat, still : BOOLEAN, calm : BOOLEAN])
    /\ Len(taken) = Len(images)
    /\ manifests \in [DOMAIN manifests -> [entries : Stores, next : Nat]]
    /\ DOMAIN manifests \subseteq DOMAIN images /\ cache \subseteq DOMAIN manifests
    /\ caller \in [Callers -> Calls]

\* what a caller has still to do, and with which sandbox and snapshot
Place(c) ==
    /\ c.at \in Taking \union Restoring => c.id \in DOMAIN images
    /\ c.at \in (Restoring \union {"copy"}) \ {"create"} => c.box \in DOMAIN boxes
    /\ c.at \in {"copy", "back"} => c.left \subseteq BoxFiles
    /\ c.at \in {"entries", "clear"} => c.left \subseteq BoxKeys
    /\ c.at = "insert" => c.left \subseteq DOMAIN c.entries

\* the image of a snapshot that is done is true, and so are the entries e and the counter n
TrueImage(id) == /\ DOMAIN images[id] = BoxFiles
                 /\ taken[id].still => images[id] = taken[id].files
TrueStore(id, e, n) == taken[id].calm => e = taken[id].entries /\ n = taken[id].next

\* the id of a snapshot in the making is nobody else's, and known to nobody
OneTakes ==
    /\ \A c \in Callers : caller[c].at \in Taking =>
           /\ caller[c].id \notin cache
           /\ caller[c].id \in DOMAIN manifests => caller[c].at = "cache"
    /\ \A c \in Callers : caller[c].at = "cache" => caller[c].id \in DOMAIN manifests
    /\ \A c, d \in Callers :
           c # d /\ caller[c].at \in Taking /\ caller[d].at \in Taking \union Restoring
           => caller[c].id # caller[d].id

KnownAreTrue ==
    \A id \in DOMAIN manifests :
        TrueImage(id) /\ TrueStore(id, manifests[id].entries, manifests[id].next)

\* a snapshot in the making
Takes(c) ==
    /\ c.at = "copy" =>
           /\ c.entries = <<>>
           /\ DOMAIN images[c.id] = (IF backend = "local" THEN BoxFiles \ c.left ELSE {})
           /\ c.still => /\ boxes[c.box].files = taken[c.id].files
                         /\ \A f \in DOMAIN images[c.id] : images[c.id][f] = taken[c.id].files[f]
    /\ c.at \in {"entries", "counter"} =>
           /\ DOMAIN images[c.id] = BoxFiles
           /\ c.still => images[c.id] = taken[c.id].files
    /\ c.at \in {"copy", "entries", "counter"} /\ c.calm =>
           store = taken[c.id].entries /\ counter = taken[c.id].next
    /\ c.at = "entries" /\ c.calm => c.entries = [k \in DOMAIN store \ c.left |-> store[k]]
    /\ c.at = "counter" /\ c.calm => c.entries = store
    /\ c.at \in {"put", "cache"} => TrueImage(c.id) /\ TrueStore(c.id, c.entries, c.next)

\* a restore under way
Restores(c) ==
    /\ c.at \in Restoring => TrueImage(c.id) /\ TrueStore(c.id, c.entries, c.next)
    /\ c.at = "back" /\ c.still =>
           \A f \in BoxFiles \ c.left : boxes[c.box].files[f] = images[c.id][f]
    /\ c.at \in {"clear", "insert", "next", "restored"} /\ c.still /\ origin[c.id] = backend =>
           boxes[c.box].files = images[c.id]
    /\ c.at = "clear" /\ c.calm => DOMAIN store \subseteq c.left
    /\ c.at = "insert" /\ c.calm => store = [k \in DOMAIN c.entries \ c.left |-> c.entries[k]]
    /\ c.at \in {"next", "restored"} /\ c.calm => store = c.entries
    /\ c.at = "restored" /\ c.calm => counter = c.next

VmInv == /\ VmTypes /\ OneTakes /\ KnownAreTrue
         /\ \A c \in Callers : Place(caller[c]) /\ Takes(caller[c]) /\ Restores(caller[c])

LEMMA StoreFacts ==
    /\ <<>> \in Stores /\ DOMAIN <<>> = {}
    /\ \A s \in Stores : /\ DOMAIN s \subseteq BoxKeys
                         /\ s = [k \in DOMAIN s |-> s[k]]
                         /\ \A k \in DOMAIN s : s[k] \in Value
<1>1. <<>> \in [{} -> Value] /\ DOMAIN <<>> = {}
  OBVIOUS
<1>2. {} \in SUBSET BoxKeys
  OBVIOUS
<1>3. ASSUME NEW s \in Stores
      PROVE  /\ DOMAIN s \subseteq BoxKeys
             /\ s = [k \in DOMAIN s |-> s[k]]
             /\ \A k \in DOMAIN s : s[k] \in Value
  <2>1. PICK K \in SUBSET BoxKeys : s \in [K -> Value]
    BY DEF Stores
  <2> QED
    BY <2>1
<1>4. <<>> \in Stores
  BY <1>1, <1>2 DEF Stores
<1> QED
  BY <1>1, <1>3, <1>4

\* A function on some keys is a store.
LEMMA StoreIntro ==
    ASSUME NEW s, DOMAIN s \subseteq BoxKeys, s = [k \in DOMAIN s |-> s[k]],
           \A k \in DOMAIN s : s[k] \in Value
    PROVE  s \in Stores
<1>1. s \in [DOMAIN s -> Value]
  OBVIOUS
<1> QED
  BY <1>1 DEF Stores, Value

LEMMA StoreChanges ==
    ASSUME NEW s \in Stores, NEW k \in BoxKeys, NEW v \in Value
    PROVE  Vm!With(s, k, v) \in Stores /\ Vm!Without(s, k) \in Stores
<1>1. /\ DOMAIN Vm!With(s, k, v) = DOMAIN s \union {k}
      /\ \A x \in DOMAIN s \union {k} : Vm!With(s, k, v)[x] = IF x = k THEN v ELSE s[x]
      /\ DOMAIN Vm!Without(s, k) = DOMAIN s \ {k}
      /\ \A x \in DOMAIN s \ {k} : Vm!Without(s, k)[x] = s[x]
      /\ Vm!With(s, k, v) = [x \in DOMAIN Vm!With(s, k, v) |-> Vm!With(s, k, v)[x]]
      /\ Vm!Without(s, k) = [x \in DOMAIN Vm!Without(s, k) |-> Vm!Without(s, k)[x]]
  BY DEF Vm!With, Vm!Without
<1>2. DOMAIN s \subseteq BoxKeys /\ \A x \in DOMAIN s : s[x] \in Value
  BY StoreFacts
<1>3. Vm!With(s, k, v) \in Stores
  BY <1>1, <1>2, StoreIntro
<1>4. Vm!Without(s, k) \in Stores
  BY <1>1, <1>2, StoreIntro
<1> QED
  BY <1>3, <1>4

LEMMA ImageFacts ==
    /\ <<>> \in Images /\ Files \subseteq Images
    /\ \A i \in Images : /\ DOMAIN i \subseteq BoxFiles /\ i = [f \in DOMAIN i |-> i[f]]
                         /\ DOMAIN i = BoxFiles => i \in Files
    /\ \A i \in Images, f \in BoxFiles, n \in Nat : Vm!With(i, f, n) \in Images
<1>1. <<>> \in [{} -> Nat]
  OBVIOUS
<1>2. {} \in SUBSET BoxFiles /\ BoxFiles \in SUBSET BoxFiles
  OBVIOUS
<1>3. ASSUME NEW i \in Images, NEW f \in BoxFiles, NEW n \in Nat
      PROVE  Vm!With(i, f, n) \in Images
  <2>1. PICK F \in SUBSET BoxFiles : i \in [F -> Nat]
    BY DEF Images
  <2>2. Vm!With(i, f, n) \in [F \union {f} -> Nat]
    BY <2>1 DEF Vm!With
  <2>3. F \union {f} \in SUBSET BoxFiles
    BY <2>1
  <2> QED
    BY <2>2, <2>3 DEF Images
<1> QED
  BY <1>1, <1>2, <1>3 DEF Images, Files

LEMMA IdleFacts ==
    /\ Vm!Idle \in Calls
    /\ Vm!Idle.at = "idle" /\ Vm!Idle.id = 0 /\ Vm!Idle.box = 0 /\ Vm!Idle.entries = <<>>
    /\ Vm!Idle.still = TRUE /\ Vm!Idle.calm = TRUE
BY StoreFacts DEF Vm!Idle, Calls

\* The callers' records after somebody else's step.
LEMMA Disturbed ==
    ASSUME caller \in [Callers -> Calls]
    PROVE  /\ Vm!Stirred \in [Callers -> Calls] /\ \A b : Vm!Touched(b) \in [Callers -> Calls]
           /\ \A c \in Callers :
                 /\ Vm!Stirred[c] = [caller[c] EXCEPT !.calm = (caller[c].at = "idle")]
                 /\ \A b : Vm!Touched(b)[c] = [caller[c] EXCEPT !.still = caller[c].still /\ caller[c].box # b]
<1>1. \A r \in Calls : [r EXCEPT !.calm = (r.at = "idle")] \in Calls
  BY DEF Calls
<1>2. \A r \in Calls : \A b : [r EXCEPT !.still = r.still /\ r.box # b] \in Calls
  <2> TAKE r \in Calls
  <2> TAKE b
  <2>1. (r.still /\ r.box # b) \in BOOLEAN
    OBVIOUS
  <2> QED
    BY <2>1 DEF Calls
<1> QED
  BY <1>1, <1>2 DEF Vm!Stirred, Vm!Touched

Boxed == [files : Files, status : {"running", "paused", "killed"}]
Taken == [files : Files, entries : Stores, next : Nat, still : BOOLEAN, calm : BOOLEAN]
Manifest == [entries : Stores, next : Nat]

\* What the invariant gives about a caller.
LEMMA CallFacts ==
    ASSUME VmInv, NEW c \in Callers
    PROVE  /\ caller \in [Callers -> Calls] /\ caller[c] \in Calls
           /\ caller[c].at \in Taking \union Restoring =>
                  /\ caller[c].id \in DOMAIN images /\ caller[c].id \in DOMAIN taken
                  /\ caller[c].id \in Nat \ {0}
                  /\ images[caller[c].id] \in Images /\ taken[caller[c].id] \in Taken
           /\ caller[c].at \in (Restoring \union {"copy"}) \ {"create"} =>
                  /\ caller[c].box \in DOMAIN boxes
                  /\ boxes[caller[c].box] \in Boxed /\ boxes[caller[c].box].files \in Files
<1>1. /\ caller \in [Callers -> Calls] /\ images \in Seq(Images) /\ taken \in Seq(Taken)
      /\ boxes \in Seq(Boxed) /\ Len(taken) = Len(images)
  BY DEF VmInv, VmTypes, Boxed, Taken
<1>2. DOMAIN images = 1..Len(images) /\ DOMAIN taken = DOMAIN images
  BY <1>1, Positions
<1>3. /\ caller[c].at \in Taking \union Restoring => caller[c].id \in DOMAIN images
      /\ caller[c].at \in (Restoring \union {"copy"}) \ {"create"} => caller[c].box \in DOMAIN boxes
  BY DEF VmInv, Place
<1>4. \A b \in Boxed : b.files \in Files
  BY DEF Boxed
<1> QED
  BY <1>1, <1>2, <1>3, <1>4, Positions

\* What Step makes of a caller's record.
LEMMA StepEffect ==
    ASSUME caller \in [Callers -> Calls], NEW c \in Callers, NEW x, NEW then, NEW rest
    PROVE  /\ Vm!Step(c, x, then, rest).at = IF caller[c].left = {x} THEN then ELSE caller[c].at
           /\ Vm!Step(c, x, then, rest).left = IF caller[c].left = {x} THEN rest ELSE caller[c].left \ {x}
           /\ Vm!Step(c, x, then, rest).box = caller[c].box /\ Vm!Step(c, x, then, rest).id = caller[c].id
           /\ Vm!Step(c, x, then, rest).entries = caller[c].entries
           /\ Vm!Step(c, x, then, rest).next = caller[c].next
           /\ Vm!Step(c, x, then, rest).still = caller[c].still
           /\ Vm!Step(c, x, then, rest).calm = caller[c].calm
           /\ then \in {"idle"} \union Taking \union Restoring /\ rest \subseteq BoxFiles \union BoxKeys
                => Vm!Step(c, x, then, rest) \in Calls
<1>1. caller[c] \in Calls
  OBVIOUS
<1> QED
  BY <1>1 DEF Vm!Step, Calls

LEMMA VmInitTypes == Vm!Init => VmTypes
<1>1. ASSUME Vm!Init PROVE VmTypes
  <2>1. boxes \in Seq(Boxed) /\ images \in Seq(Images) /\ taken \in Seq(Taken) /\ Len(taken) = Len(images)
    BY <1>1, EmptySeq DEF Vm!Init
  <2>2. manifests \in [DOMAIN manifests -> Manifest] /\ DOMAIN manifests = {} /\ cache = {}
    BY <1>1 DEF Vm!Init
  <2>3. caller \in [Callers -> Calls] /\ store \in Stores
    BY <1>1, IdleFacts, StoreFacts DEF Vm!Init
  <2> QED
    BY <1>1, <2>1, <2>2, <2>3 DEF Vm!Init, VmTypes, Boxed, Taken, Manifest
<1> QED
  BY <1>1

\* A write changes one file of one sandbox.
LEMMA BoxWritten ==
    ASSUME boxes \in Seq(Boxed), NEW b \in DOMAIN boxes, NEW f \in BoxFiles, NEW n \in Nat
    PROVE  /\ [boxes EXCEPT ![b].files[f] = n] \in Seq(Boxed)
           /\ DOMAIN [boxes EXCEPT ![b].files[f] = n] = DOMAIN boxes
           /\ [boxes EXCEPT ![b].files[f] = n][b].files = [boxes[b].files EXCEPT ![f] = n]
           /\ \A a \in DOMAIN boxes : a # b => [boxes EXCEPT ![b].files[f] = n][a] = boxes[a]
<1>1. boxes[b] \in Boxed
  BY Positions
<1>2. /\ [boxes[b] EXCEPT !.files[f] = n] \in Boxed
      /\ [boxes[b] EXCEPT !.files[f] = n].files = [boxes[b].files EXCEPT ![f] = n]
  BY <1>1 DEF Boxed, Files
<1>3. [boxes EXCEPT ![b].files[f] = n] = [boxes EXCEPT ![b] = [boxes[b] EXCEPT !.files[f] = n]]
  OBVIOUS
<1> QED
  BY <1>2, <1>3, Replaced

\* A new status changes no file.
LEMMA BoxStatus ==
    ASSUME boxes \in Seq(Boxed), NEW b \in DOMAIN boxes, NEW s \in {"running", "paused", "killed"}
    PROVE  /\ [boxes EXCEPT ![b].status = s] \in Seq(Boxed)
           /\ DOMAIN [boxes EXCEPT ![b].status = s] = DOMAIN boxes
           /\ \A a \in DOMAIN boxes : [boxes EXCEPT ![b].status = s][a].files = boxes[a].files
<1>1. boxes[b] \in Boxed
  BY Positions
<1>2. /\ [boxes[b] EXCEPT !.status = s] \in Boxed
      /\ [boxes[b] EXCEPT !.status = s].files = boxes[b].files
  BY <1>1 DEF Boxed
<1>3. [boxes EXCEPT ![b].status = s] = [boxes EXCEPT ![b] = [boxes[b] EXCEPT !.status = s]]
  OBVIOUS
<1> QED
  BY <1>2, <1>3, Replaced

LEMMA Appended ==
    ASSUME NEW S, NEW s \in Seq(S), NEW x \in S
    PROVE  /\ Append(s, x) \in Seq(S) /\ Len(Append(s, x)) = Len(s) + 1
           /\ DOMAIN s = 1..Len(s) /\ DOMAIN Append(s, x) = 1..(Len(s) + 1) /\ Len(s) \in Nat
           /\ Append(s, x)[Len(s) + 1] = x
           /\ \A i \in DOMAIN s : i \in DOMAIN Append(s, x) /\ Append(s, x)[i] = s[i]
BY AppendProperties, LenProperties

\* What Recreate does, in the words the proofs use.
LEMMA RecreateEffect ==
    ASSUME NEW c \in Callers, Vm!Recreate(c), caller \in [Callers -> Calls]
    PROVE  /\ boxes' = Append(boxes, [status |-> "running",
                 files |-> IF backend = "local" THEN [f \in BoxFiles |-> 0] ELSE images[caller[c].id]])
           /\ caller[c].at = "create" /\ \A d \in Callers : d # c => caller'[d] = caller[d]
           /\ \E a \in {"back", "clear"} : \E l, n :
                 caller'[c] = [caller[c] EXCEPT !.box = n, !.at = a, !.left = l]
<1> DEFINE tree == IF backend = "local" THEN Vm!Tree(caller[c].id) ELSE {}
<1>1. caller' = [caller EXCEPT ![c] = [caller[c] EXCEPT
                     !.box = Len(boxes'),
                     !.at = IF tree # {} THEN "back" ELSE "clear",
                     !.left = IF tree # {} THEN tree ELSE BoxKeys]]
  BY DEF Vm!Recreate
<1>2. boxes' = Append(boxes, [status |-> "running",
                 files |-> IF backend = "local" THEN [f \in BoxFiles |-> 0] ELSE images[caller[c].id]])
  BY DEF Vm!Recreate
<1>3. caller[c].at = "create"
  BY DEF Vm!Recreate
<1> HIDE DEF tree
<1>4. /\ \A d \in Callers : d # c => caller'[d] = caller[d]
      /\ caller'[c] = [caller[c] EXCEPT !.box = Len(boxes'),
                                       !.at = IF tree # {} THEN "back" ELSE "clear",
                                       !.left = IF tree # {} THEN tree ELSE BoxKeys]
  BY <1>1
<1> QED
  BY <1>2, <1>3, <1>4

LEMMA VmTypesStep == ASSUME BoxAssumption, VmInv, Vm!Next PROVE VmTypes'
<1> USE DEF Vm!machine, Vm!disks, Vm!kv
<1>1. /\ backend \in {"local", "docker"}
      /\ boxes \in Seq(Boxed)
      /\ store \in Stores /\ counter \in Nat /\ stamp \in Nat
      /\ setting = Vm!NoSet \/ setting \in [key : BoxKeys, version : Nat, value : Nat]
      /\ origin \in Seq({"local", "docker"}) /\ Len(origin) = Len(images)
      /\ images \in Seq(Images) /\ taken \in Seq(Taken) /\ Len(taken) = Len(images)
      /\ manifests \in [DOMAIN manifests -> Manifest]
      /\ DOMAIN manifests \subseteq DOMAIN images /\ cache \subseteq DOMAIN manifests
      /\ caller \in [Callers -> Calls]
  BY DEF VmInv, VmTypes, Boxed, Taken, Manifest
<1> DEFINE Typed ==
      /\ backend' \in {"local", "docker"}
      /\ boxes' \in Seq(Boxed)
      /\ store' \in Stores /\ counter' \in Nat /\ stamp' \in Nat
      /\ setting' = Vm!NoSet \/ setting' \in [key : BoxKeys, version : Nat, value : Nat]
      /\ origin' \in Seq({"local", "docker"}) /\ Len(origin') = Len(images')
      /\ images' \in Seq(Images) /\ taken' \in Seq(Taken) /\ Len(taken') = Len(images')
      /\ manifests' \in [DOMAIN manifests' -> Manifest]
      /\ DOMAIN manifests' \subseteq DOMAIN images' /\ cache' \subseteq DOMAIN manifests'
      /\ caller' \in [Callers -> Calls]
<1>2. SUFFICES Typed
  BY DEF VmTypes, Boxed, Taken, Manifest, Files, Images, Stores, Value, Calls, Taking, Restoring, Vm!NoSet
<1>3. /\ Vm!Stirred \in [Callers -> Calls] /\ \A b : Vm!Touched(b) \in [Callers -> Calls]
      /\ \A c \in Callers, r \in Calls : /\ [caller EXCEPT ![c] = r] \in [Callers -> Calls]
                                         /\ [Vm!Stirred EXCEPT ![c] = r] \in [Callers -> Calls]
                                         /\ \A b : [Vm!Touched(b) EXCEPT ![c] = r] \in [Callers -> Calls]
  BY <1>1, Disturbed
<1>4. Vm!Idle \in Calls
  BY IdleFacts
<1>5. ASSUME NEW b \in DOMAIN boxes,
             Vm!Kill(b) \/ Vm!Pause(b) \/ Vm!Resume(b) \/ \E f \in BoxFiles : Vm!Write(b, f)
      PROVE  Typed
  <2>1. CASE \E s \in {"running", "paused", "killed"} : Vm!SetStatus(b, s)
    <3>1. PICK s \in {"running", "paused", "killed"} : Vm!SetStatus(b, s)
      BY <2>1
    <3>2. boxes' \in Seq(Boxed)
      BY <1>1, <3>1, BoxStatus DEF Vm!SetStatus
    <3> QED
      BY <1>1, <3>1, <3>2 DEF Vm!SetStatus
  <2>2. CASE \E f \in BoxFiles : Vm!Write(b, f)
    <3>1. PICK f \in BoxFiles : Vm!Write(b, f)
      BY <2>2
    <3>2. stamp' \in Nat
      BY <1>1, <3>1 DEF Vm!Write
    <3>3. boxes' \in Seq(Boxed)
      BY <1>1, <3>1, <3>2, BoxWritten DEF Vm!Write
    <3> QED
      BY <1>1, <1>3, <3>1, <3>2, <3>3 DEF Vm!Write
  <2> QED
    BY <1>5, <2>1, <2>2 DEF Vm!Kill, Vm!Pause, Vm!Resume
<1>6. CASE Vm!Create
  <2>1. [files |-> [f \in BoxFiles |-> 0], status |-> "running"] \in Boxed
    BY DEF Boxed, Files
  <2> QED
    BY <1>1, <1>6, <2>1, Appended DEF Vm!Create
<1>7. CASE Vm!SetEnds
  <2>1. setting \in [key : BoxKeys, version : Nat, value : Nat]
    BY <1>1, <1>7 DEF Vm!SetEnds
  <2>2. [version |-> setting.version, value |-> setting.value] \in Value /\ setting.key \in BoxKeys
    BY <2>1 DEF Value
  <2>3. store' \in Stores
    BY <1>1, <1>7, <2>2, StoreChanges DEF Vm!SetEnds
  <2> QED
    BY <1>1, <1>3, <1>7, <2>3 DEF Vm!SetEnds
<1>8. CASE Vm!Crash
  <2>1. boxes' \in Seq(Boxed)
    BY <1>8, EmptySeq DEF Vm!Crash
  <2> QED
    BY <1>1, <1>4, <1>8, <2>1, StoreFacts DEF Vm!Crash
<1>9. CASE Vm!Quiet
  BY <1>1, <1>9 DEF Vm!Quiet, Vm!vmVars
<1>10. ASSUME NEW k \in BoxKeys, Vm!SetBegins(k) \/ Vm!Delete(k) PROVE Typed
  <2>1. CASE Vm!SetBegins(k)
    BY <1>1, <1>3, <2>1 DEF Vm!SetBegins
  <2>2. CASE Vm!Delete(k)
    <3>1. [version |-> 0, value |-> 0] \in Value
      BY DEF Value
    <3>2. store' \in Stores
      BY <1>1, <2>2, <3>1, StoreChanges DEF Vm!Delete
    <3> QED
      BY <1>1, <1>3, <2>2, <3>2 DEF Vm!Delete
  <2> QED
    BY <1>10, <2>1, <2>2
<1>11. ASSUME NEW id \in cache, Vm!Remove(id) PROVE Typed
  <2>1. manifests' \in [DOMAIN manifests' -> Manifest] /\ DOMAIN manifests' = DOMAIN manifests \ {id}
    BY <1>1, <1>11 DEF Vm!Remove, Vm!Without
  <2> QED
    BY <1>1, <1>11, <2>1 DEF Vm!Remove
<1>12. ASSUME NEW c \in Callers, NEW b \in DOMAIN boxes, Vm!Snapshot(c, b) PROVE Typed
  <2> DEFINE r == [Vm!Idle EXCEPT !.at = "copy", !.box = b, !.id = Len(images'), !.left = BoxFiles]
             t == [files |-> boxes[b].files, entries |-> store, next |-> counter,
                   still |-> TRUE, calm |-> TRUE]
  <2>1. images' \in Seq(Images) /\ Len(images') = Len(images) + 1 /\ DOMAIN images \subseteq DOMAIN images'
    BY <1>1, <1>12, Appended, ImageFacts DEF Vm!Snapshot
  <2>2. b \in Nat /\ boxes[b] \in Boxed /\ Len(images') \in Nat
    BY <1>1, <2>1, Positions
  <2>6. origin' \in Seq({"local", "docker"}) /\ Len(origin') = Len(origin) + 1
    BY <1>1, <1>12, Appended DEF Vm!Snapshot
  <2>3. t \in Taken
    BY <1>1, <2>2 DEF Taken, Boxed
  <2>4. taken' \in Seq(Taken) /\ Len(taken') = Len(taken) + 1
    BY <1>1, <1>12, <2>3, Appended DEF Vm!Snapshot
  <2>5. r \in Calls
    BY <1>4, <2>2 DEF Calls, Taking
  <2> QED
    BY <1>1, <1>3, <1>12, <2>1, <2>4, <2>5, <2>6 DEF Vm!Snapshot
<1>13. ASSUME NEW c \in Callers, NEW id \in cache, Vm!Restore(c, id) PROVE Typed
  <2>1. manifests[id] \in Manifest /\ id \in Nat
    BY <1>1, Positions
  <2>2. [Vm!Idle EXCEPT !.at = "create", !.id = id,
                      !.entries = manifests[id].entries, !.next = manifests[id].next] \in Calls
    BY <1>4, <2>1 DEF Calls, Restoring, Manifest
  <2> QED
    BY <1>1, <1>3, <1>13, <2>2 DEF Vm!Restore
<1>14. ASSUME NEW c \in Callers, NEW f \in BoxFiles, Vm!CopyFile(c, f) \/ Vm!CopyBack(c, f)
       PROVE  Typed
  <2>1. CASE Vm!CopyFile(c, f)
    <3>1. Vm!Step(c, f, "entries", BoxKeys) \in Calls
      BY <1>1, StepEffect DEF Taking
    <3>2. /\ caller[c].id \in DOMAIN images /\ images[caller[c].id] \in Images
          /\ boxes[caller[c].box].files \in Files
      BY <2>1, CallFacts DEF Vm!CopyFile, Taking
    <3>3. Vm!With(images[caller[c].id], f, boxes[caller[c].box].files[f]) \in Images
      BY <3>2, ImageFacts DEF Files
    <3>4. images' \in Seq(Images) /\ DOMAIN images' = DOMAIN images /\ Len(images') = Len(images)
      BY <1>1, <2>1, <3>2, <3>3, Replaced, Positions DEF Vm!CopyFile
    <3> QED
      BY <1>1, <1>3, <2>1, <3>1, <3>4 DEF Vm!CopyFile
  <2>2. CASE Vm!CopyBack(c, f)
    <3>1. Vm!Step(c, f, "clear", BoxKeys) \in Calls
      BY <1>1, StepEffect DEF Restoring
    <3>2. /\ caller[c].box \in DOMAIN boxes /\ images[caller[c].id] \in Files
      BY <2>2, CallFacts, ImageFacts DEF Vm!CopyBack, Restoring, Taking, VmInv, Restores, TrueImage
    <3>3. boxes' \in Seq(Boxed)
      BY <1>1, <2>2, <3>2, BoxWritten DEF Vm!CopyBack, Files
    <3> QED
      BY <1>1, <1>3, <2>2, <3>1, <3>3 DEF Vm!CopyBack
  <2> QED
    BY <1>14, <2>1, <2>2
<1>15. ASSUME NEW c \in Callers, NEW k \in BoxKeys,
              Vm!ReadEntry(c, k) \/ Vm!Clear(c, k) \/ Vm!Insert(c, k)
       PROVE  Typed
  <2>1. caller[c] \in Calls /\ DOMAIN caller[c].entries \subseteq BoxKeys
    BY CallFacts, StoreFacts DEF Calls
  <2>2. CASE Vm!ReadEntry(c, k)
    <3> DEFINE e == IF k \in DOMAIN store THEN Vm!With(caller[c].entries, k, store[k]) ELSE caller[c].entries
    <3>1. Vm!Step(c, k, "counter", {}) \in Calls /\ Vm!Step(c, k, "counter", {}).entries = caller[c].entries
      <4>1. \A rest : rest \subseteq BoxFiles \union BoxKeys => Vm!Step(c, k, "counter", rest) \in Calls
        BY <1>1, StepEffect DEF Taking
      <4>2. \A rest : Vm!Step(c, k, "counter", rest).entries = caller[c].entries
        BY <2>1 DEF Vm!Step, Calls
      <4> QED
        BY <4>1, <4>2
    <3>2. e \in Stores
      BY <1>1, <2>1, StoreChanges, StoreFacts DEF Calls
    <3>3. [Vm!Step(c, k, "counter", {}) EXCEPT !.entries =
               IF k \in DOMAIN store THEN Vm!With(@, k, store[k]) ELSE @] \in Calls
      BY <3>1, <3>2 DEF Calls
    <3> QED
      BY <1>1, <1>3, <2>2, <3>3 DEF Vm!ReadEntry
  <2>3. CASE Vm!Clear(c, k)
    <3>1. [version |-> 0, value |-> 0] \in Value
      BY DEF Value
    <3>2. store' \in Stores
      BY <1>1, <2>3, <3>1, StoreChanges DEF Vm!Clear
    <3>3. \A then \in {"next", "insert"} : Vm!Step(c, k, then, DOMAIN caller[c].entries) \in Calls
      BY <1>1, <2>1, StepEffect DEF Restoring
    <3>4. caller' \in [Callers -> Calls]
      BY <1>3, <2>3, <3>3 DEF Vm!Clear
    <3> QED
      BY <1>1, <2>3, <3>2, <3>4 DEF Vm!Clear
  <2>4. CASE Vm!Insert(c, k)
    <3>1. k \in DOMAIN caller[c].entries
      BY <2>4 DEF Vm!Insert, VmInv, Place
    <3>2. store' \in Stores
      BY <1>1, <2>1, <2>4, <3>1, StoreChanges, StoreFacts DEF Vm!Insert, Calls
    <3>3. Vm!Step(c, k, "next", {}) \in Calls
      BY <1>1, StepEffect DEF Restoring
    <3> QED
      BY <1>1, <1>3, <2>4, <3>2, <3>3 DEF Vm!Insert
  <2> QED
    BY <1>15, <2>2, <2>3, <2>4
<1>16. ASSUME NEW c \in Callers, Vm!Commit(c) \/ Vm!ReadCounter(c) \/ Vm!Put(c) PROVE Typed
  <2>1. caller[c] \in Calls
    BY <1>1
  <2>2. CASE Vm!Commit(c)
    <3>1. [caller[c] EXCEPT !.at = "entries", !.left = BoxKeys] \in Calls
      BY <2>1 DEF Calls, Taking
    <3>2. /\ caller[c].id \in DOMAIN images /\ boxes[caller[c].box].files \in Images
      BY <2>2, CallFacts, ImageFacts DEF Vm!Commit, Taking
    <3>3. images' \in Seq(Images) /\ DOMAIN images' = DOMAIN images /\ Len(images') = Len(images)
      BY <1>1, <2>2, <3>2, Replaced, Positions DEF Vm!Commit
    <3>4. caller' = [caller EXCEPT ![c] = [caller[c] EXCEPT !.at = "entries", !.left = BoxKeys]]
      BY <2>2 DEF Vm!Commit
    <3> QED
      BY <1>1, <1>3, <2>2, <3>1, <3>3, <3>4 DEF Vm!Commit
  <2>3. CASE Vm!ReadCounter(c)
    <3>1. [caller[c] EXCEPT !.at = "put", !.next = counter] \in Calls
      BY <1>1, <2>1 DEF Calls, Taking
    <3>2. caller[c].id \in DOMAIN taken /\ taken[caller[c].id] \in Taken
      BY <2>3, CallFacts DEF Vm!ReadCounter, Taking
    <3>3. [taken[caller[c].id] EXCEPT !.still = caller[c].still, !.calm = caller[c].calm] \in Taken
      BY <2>1, <3>2 DEF Taken, Calls
    <3>4. taken' \in Seq(Taken) /\ DOMAIN taken' = DOMAIN taken
      BY <1>1, <2>3, <3>2, <3>3, Replaced DEF Vm!ReadCounter
    <3>5. Len(taken') = Len(taken)
      BY <1>1, <3>4, Positions
    <3> QED
      BY <1>1, <1>3, <2>3, <3>1, <3>4, <3>5 DEF Vm!ReadCounter
  <2>4. CASE Vm!Put(c)
    <3>1. [caller[c] EXCEPT !.at = "cache"] \in Calls
      BY <2>1 DEF Calls, Taking
    <3>2. [entries |-> caller[c].entries, next |-> caller[c].next] \in Manifest
      BY <2>1 DEF Calls, Manifest
    <3>3. manifests' \in [DOMAIN manifests' -> Manifest] /\ DOMAIN manifests' = DOMAIN manifests \union {caller[c].id}
      BY <1>1, <2>4, <3>2 DEF Vm!Put, Vm!With
    <3>4. caller[c].id \in DOMAIN images
      BY <2>4, CallFacts DEF Vm!Put, Taking
    <3> QED
      BY <1>1, <1>3, <2>4, <3>1, <3>3, <3>4 DEF Vm!Put
  <2> QED
    BY <1>16, <2>2, <2>3, <2>4
<1>17. ASSUME NEW c \in Callers,
              Vm!Register(c) \/ Vm!Recreate(c) \/ Vm!StoreCounter(c) \/ Vm!Return(c) \/ Vm!Fail(c)
       PROVE  Typed
  <2>1. caller[c] \in Calls
    BY <1>1
  <2>2. CASE Vm!Register(c)
    <3>1. caller[c].id \in DOMAIN manifests
      BY <2>2 DEF Vm!Register, VmInv, OneTakes
    <3> QED
      BY <1>1, <1>3, <1>4, <2>2, <3>1 DEF Vm!Register
  <2>3. CASE Vm!Return(c) \/ Vm!Fail(c)
    <3>1. caller' \in [Callers -> Calls]
      BY <1>3, <1>4, <2>3 DEF Vm!Return, Vm!Fail
    <3>2. /\ UNCHANGED <<backend, boxes, store, counter, stamp, setting>>
          /\ UNCHANGED <<images, origin, taken, manifests, cache>>
      BY <2>3 DEF Vm!Return, Vm!Fail
    <3> QED
      BY <1>1, <3>1, <3>2
  <2>4. CASE Vm!StoreCounter(c)
    <3>1. [caller[c] EXCEPT !.at = "restored"] \in Calls /\ caller[c].next \in Nat
      BY <2>1 DEF Calls, Restoring
    <3> QED
      BY <1>1, <1>3, <2>4, <3>1 DEF Vm!StoreCounter
  <2>5. CASE Vm!Recreate(c)
    <3>1. images[caller[c].id] \in Files /\ DOMAIN images[caller[c].id] = BoxFiles
      BY <2>5, CallFacts, ImageFacts DEF Vm!Recreate, Restoring, Taking, VmInv, Restores, TrueImage
    <3> DEFINE tree == IF backend = "local" THEN Vm!Tree(caller[c].id) ELSE {}
               b == [status |-> "running",
                     files |-> IF backend = "local" THEN [f \in BoxFiles |-> 0] ELSE images[caller[c].id]]
    <3>2. b \in Boxed
      BY <3>1 DEF Boxed, Files
    <3>3. boxes' \in Seq(Boxed) /\ Len(boxes') \in Nat
      <4>1. boxes' = Append(boxes, b)
        BY <1>1, <2>5, RecreateEffect
      <4> HIDE DEF b
      <4> QED
        BY <1>1, <3>2, <4>1, Appended, Positions
    <3>4. \A at \in {"back", "clear"}, left \in {BoxFiles, BoxKeys} :
             [caller[c] EXCEPT !.box = Len(boxes'), !.at = at, !.left = left] \in Calls
      BY <2>1, <3>3 DEF Calls, Restoring
    <3>5. caller' = [caller EXCEPT ![c] = [caller[c] EXCEPT
                        !.box = Len(boxes'),
                        !.at = IF tree # {} THEN "back" ELSE "clear",
                        !.left = IF tree # {} THEN tree ELSE BoxKeys]]
      BY <2>5 DEF Vm!Recreate
    <3>7. tree # {} => tree = BoxFiles
      BY <3>1 DEF Vm!Tree
    <3> HIDE DEF tree
    <3>6. caller' \in [Callers -> Calls]
      BY <1>3, <3>4, <3>5, <3>7
    <3> QED
      BY <1>1, <2>5, <3>3, <3>6 DEF Vm!Recreate
  <2> QED
    BY <1>17, <2>2, <2>3, <2>4, <2>5
<1> QED
  BY <1>5, <1>6, <1>7, <1>8, <1>9, <1>10, <1>11, <1>12, <1>13, <1>14, <1>15, <1>16, <1>17 DEF Vm!Next

Holds(c) == Place(caller[c]) /\ Takes(caller[c]) /\ Restores(caller[c])

\* A caller that is where it was, whose snapshot is as it was, and whose sandbox and store
\* are, too, unless it notes that they changed.
Unmoved(c) ==
    /\ backend' = backend
    /\ caller'[c].at = caller[c].at /\ caller'[c].box = caller[c].box /\ caller'[c].id = caller[c].id
    /\ caller'[c].left = caller[c].left /\ caller'[c].entries = caller[c].entries
    /\ caller'[c].next = caller[c].next
    /\ caller'[c].still => caller[c].still
    /\ caller[c].at \in Taking \union Restoring =>
           /\ caller[c].id \in DOMAIN images'
           /\ images'[caller[c].id] = images[caller[c].id]
           /\ origin'[caller[c].id] = origin[caller[c].id]
           /\ taken'[caller[c].id] = taken[caller[c].id]
    /\ caller[c].box \in DOMAIN boxes =>
           /\ caller[c].box \in DOMAIN boxes'
           /\ caller'[c].still => boxes'[caller[c].box].files = boxes[caller[c].box].files
    /\ caller[c].at # "idle" /\ caller'[c].calm =>
           caller[c].calm /\ store' = store /\ counter' = counter

LEMMA UnmovedHolds == ASSUME NEW c \in Callers, VmInv, Unmoved(c) PROVE Holds(c)'
<1> DEFINE r == caller[c]
           q == caller'[c]
           Image(i) == /\ DOMAIN images'[i] = BoxFiles
                       /\ taken'[i].still => images'[i] = taken'[i].files
           Store(i, e, n) == taken'[i].calm => e = taken'[i].entries /\ n = taken'[i].next
<1>1. Place(r) /\ Takes(r) /\ Restores(r)
  BY DEF VmInv
<1>2. /\ backend' = backend
      /\ q.at = r.at /\ q.box = r.box /\ q.id = r.id /\ q.left = r.left
      /\ q.entries = r.entries /\ q.next = r.next
      /\ (q.still => r.still)
      /\ r.at \in Taking \union Restoring =>
             /\ r.id \in DOMAIN images' /\ images'[r.id] = images[r.id] /\ taken'[r.id] = taken[r.id]
             /\ origin'[r.id] = origin[r.id]
      /\ r.box \in DOMAIN boxes => /\ r.box \in DOMAIN boxes'
                                   /\ q.still => boxes'[r.box].files = boxes[r.box].files
      /\ r.at # "idle" /\ q.calm => r.calm /\ store' = store /\ counter' = counter
  BY DEF Unmoved
<1>3. /\ q.at \in Taking \union Restoring => q.id \in DOMAIN images'
      /\ q.at \in (Restoring \union {"copy"}) \ {"create"} => q.box \in DOMAIN boxes'
      /\ q.at \in {"copy", "back"} => q.left \subseteq BoxFiles
      /\ q.at \in {"entries", "clear"} => q.left \subseteq BoxKeys
      /\ q.at = "insert" => q.left \subseteq DOMAIN q.entries
  BY <1>1, <1>2 DEF Place
<1>4. r.at \in Taking \union Restoring => 
          /\ TrueImage(r.id) => Image(r.id)
          /\ \A e, n : TrueStore(r.id, e, n) => Store(r.id, e, n)
  BY <1>2 DEF TrueImage, TrueStore
<1>5. r.at \in {"copy", "back", "clear", "insert", "next", "restored"} => r.box \in DOMAIN boxes
  BY <1>1 DEF Place, Taking, Restoring
<1> HIDE DEF r, q, Image, Store
<1>6. Takes(r)
  BY <1>1
<1>7. ASSUME q.at = "copy"
      PROVE  /\ q.entries = <<>>
             /\ DOMAIN images'[q.id] = (IF backend' = "local" THEN BoxFiles \ q.left ELSE {})
             /\ q.still => /\ boxes'[q.box].files = taken'[q.id].files
                           /\ \A f \in DOMAIN images'[q.id] : images'[q.id][f] = taken'[q.id].files[f]
  BY <1>2, <1>5, <1>6, <1>7 DEF Takes, Taking
<1>8. ASSUME q.at \in {"entries", "counter"}
      PROVE  /\ DOMAIN images'[q.id] = BoxFiles
             /\ q.still => images'[q.id] = taken'[q.id].files
  BY <1>2, <1>6, <1>8 DEF Takes, Taking
<1>9. ASSUME q.at \in {"copy", "entries", "counter"}, q.calm
      PROVE  /\ store' = taken'[q.id].entries /\ counter' = taken'[q.id].next
             /\ q.at = "entries" => q.entries = [k \in DOMAIN store' \ q.left |-> store'[k]]
             /\ q.at = "counter" => q.entries = store'
  BY <1>2, <1>6, <1>9 DEF Takes, Taking
<1>10. ASSUME q.at \in {"put", "cache"} PROVE Image(q.id) /\ Store(q.id, q.entries, q.next)
  BY <1>2, <1>4, <1>6, <1>10 DEF Takes, Taking
<1>11. Restores(r)
  BY <1>1
<1>12. ASSUME q.at \in Restoring PROVE Image(q.id) /\ Store(q.id, q.entries, q.next)
  BY <1>2, <1>4, <1>11, <1>12 DEF Restores
<1>13. ASSUME q.still
       PROVE  /\ q.at = "back" => \A f \in BoxFiles \ q.left : boxes'[q.box].files[f] = images'[q.id][f]
              /\ q.at \in {"clear", "insert", "next", "restored"} /\ origin'[q.id] = backend' =>
                     boxes'[q.box].files = images'[q.id]
  BY <1>2, <1>5, <1>11, <1>13 DEF Restores, Restoring
<1>14. ASSUME q.calm
       PROVE  /\ q.at = "clear" => DOMAIN store' \subseteq q.left
              /\ q.at = "insert" => store' = [k \in DOMAIN q.entries \ q.left |-> q.entries[k]]
              /\ q.at \in {"next", "restored"} => store' = q.entries
              /\ q.at = "restored" => counter' = q.next
  BY <1>2, <1>11, <1>14 DEF Restores
<1>15. Place(caller[c])'
  BY <1>3 DEF Place, Taking, Restoring, q
<1>16. Takes(caller[c])'
  BY <1>7, <1>8, <1>9, <1>10 DEF Takes, TrueImage, TrueStore, q, Image, Store
<1>17. Restores(caller[c])'
  BY <1>12, <1>13, <1>14 DEF Restores, Restoring, TrueImage, TrueStore, q, Image, Store
<1> QED
  BY <1>15, <1>16, <1>17 DEF Holds

\* The fields of a record that nobody else's step changes.
Alike(q, r) ==
    /\ q.at = r.at /\ q.box = r.box /\ q.id = r.id /\ q.left = r.left
    /\ q.entries = r.entries /\ q.next = r.next

LEMMA StirredFields ==
    ASSUME VmInv, NEW c \in Callers
    PROVE  /\ Alike(Vm!Stirred[c], caller[c]) /\ Vm!Stirred[c].still = caller[c].still
           /\ caller[c].at # "idle" => Vm!Stirred[c].calm = FALSE
           /\ caller[c].at = "idle" => Vm!Stirred[c].calm = TRUE
<1>1. caller[c] \in Calls /\ Vm!Stirred[c] = [caller[c] EXCEPT !.calm = (caller[c].at = "idle")]
  BY CallFacts, Disturbed
<1> DEFINE r == caller[c]
<1>2. r \in Calls
  BY <1>1
<1> HIDE DEF r
<1>3. \A x : /\ Alike([r EXCEPT !.calm = x], r) /\ [r EXCEPT !.calm = x].still = r.still
             /\ [r EXCEPT !.calm = x].calm = x
  BY <1>2 DEF Calls, Alike
<1> QED
  BY <1>1, <1>3 DEF r

LEMMA TouchedFields ==
    ASSUME VmInv, NEW c \in Callers, NEW b
    PROVE  /\ Alike(Vm!Touched(b)[c], caller[c]) /\ Vm!Touched(b)[c].calm = caller[c].calm
           /\ Vm!Touched(b)[c].still => caller[c].still /\ caller[c].box # b
<1>1. /\ caller[c] \in Calls
      /\ Vm!Touched(b)[c] = [caller[c] EXCEPT !.still = caller[c].still /\ caller[c].box # b]
  BY CallFacts, Disturbed
<1> DEFINE r == caller[c]
<1>2. r \in Calls
  BY <1>1
<1> HIDE DEF r
<1>3. \A x : /\ Alike([r EXCEPT !.still = x], r) /\ [r EXCEPT !.still = x].calm = r.calm
             /\ [r EXCEPT !.still = x].still = x
  BY <1>2 DEF Calls, Alike
<1> QED
  BY <1>1, <1>3 DEF r

\* What the runtime does apart from snapshots and restores.
Turns ==
    \/ Vm!Create \/ Vm!SetEnds \/ Vm!Quiet
    \/ \E b \in DOMAIN boxes : \/ Vm!Kill(b) \/ Vm!Pause(b) \/ Vm!Resume(b)
                               \/ \E f \in BoxFiles : Vm!Write(b, f)
    \/ \E k \in BoxKeys : Vm!SetBegins(k) \/ Vm!Delete(k)
    \/ \E id \in cache : Vm!Remove(id)

\* What a call of snapshot or restore does.
Moves(c) ==
    \/ \E b \in DOMAIN boxes : Vm!Snapshot(c, b)
    \/ \E id \in cache : Vm!Restore(c, id)
    \/ \E f \in BoxFiles : Vm!CopyFile(c, f) \/ Vm!CopyBack(c, f)
    \/ \E k \in BoxKeys : Vm!ReadEntry(c, k) \/ Vm!Clear(c, k) \/ Vm!Insert(c, k)
    \/ Vm!Commit(c) \/ Vm!ReadCounter(c) \/ Vm!Put(c) \/ Vm!Register(c) \/ Vm!Recreate(c)
    \/ Vm!StoreCounter(c) \/ Vm!Return(c) \/ Vm!Fail(c)

LEMMA VmSteps == Vm!Next => Turns \/ Vm!Crash \/ \E c \in Callers : Moves(c)
BY DEF Vm!Next, Turns, Moves

LEMMA RuntimeTurns == ASSUME VmInv, Turns, NEW d \in Callers PROVE Unmoved(d)
<1> USE DEF Vm!machine, Vm!disks, Vm!kv
<1>1. boxes \in Seq(Boxed)
  BY DEF VmInv, VmTypes, Boxed
<1>2. caller[d].at \in Taking \union Restoring => caller[d].id \in DOMAIN images
  BY CallFacts
<1>3. CASE Vm!Create
  <2>1. \A a \in DOMAIN boxes : a \in DOMAIN boxes' /\ boxes'[a] = boxes[a]
    <3>1. [files |-> [f \in BoxFiles |-> 0], status |-> "running"] \in Boxed
      BY DEF Boxed, Files
    <3> QED
      BY <1>1, <1>3, <3>1, Appended DEF Vm!Create
  <2> QED
    BY <1>2, <1>3, <2>1 DEF Vm!Create, Unmoved
<1>4. CASE Vm!SetEnds \/ \E k \in BoxKeys : Vm!SetBegins(k) \/ Vm!Delete(k)
  <2>1. /\ caller' = Vm!Stirred /\ boxes' = boxes /\ images' = images /\ taken' = taken
        /\ backend' = backend /\ origin' = origin
    BY <1>4 DEF Vm!SetEnds, Vm!SetBegins, Vm!Delete
  <2>2. /\ Alike(caller'[d], caller[d]) /\ caller'[d].still = caller[d].still
        /\ caller[d].at # "idle" => caller'[d].calm = FALSE
    BY <2>1, StirredFields
  <2> QED
    BY <1>2, <2>1, <2>2 DEF Alike, Unmoved
<1>5. CASE Vm!Quiet
  BY <1>2, <1>5 DEF Vm!Quiet, Vm!vmVars, Unmoved
<1>6. ASSUME NEW b \in DOMAIN boxes, NEW s \in {"running", "paused", "killed"}, Vm!SetStatus(b, s)
      PROVE  Unmoved(d)
  <2>1. DOMAIN boxes' = DOMAIN boxes /\ \A a \in DOMAIN boxes : boxes'[a].files = boxes[a].files
    BY <1>1, <1>6, BoxStatus DEF Vm!SetStatus
  <2> QED
    BY <1>2, <1>6, <2>1 DEF Vm!SetStatus, Unmoved
<1>7. ASSUME NEW b \in DOMAIN boxes, NEW f \in BoxFiles, Vm!Write(b, f) PROVE Unmoved(d)
  <2>1. stamp' \in Nat
    BY <1>7 DEF Vm!Write, VmInv, VmTypes
  <2>2. DOMAIN boxes' = DOMAIN boxes /\ \A a \in DOMAIN boxes : a # b => boxes'[a] = boxes[a]
    BY <1>1, <1>7, <2>1, BoxWritten DEF Vm!Write
  <2>3. /\ Alike(caller'[d], caller[d]) /\ caller'[d].calm = caller[d].calm
        /\ caller'[d].still => caller[d].still /\ caller[d].box # b
    BY <1>7, TouchedFields DEF Vm!Write
  <2> QED
    BY <1>2, <1>7, <2>2, <2>3 DEF Vm!Write, Alike, Unmoved
<1>8. ASSUME NEW id \in cache, Vm!Remove(id) PROVE Unmoved(d)
  BY <1>2, <1>8 DEF Vm!Remove, Unmoved
<1> QED
  BY <1>3, <1>4, <1>5, <1>6, <1>7, <1>8 DEF Turns, Vm!Kill, Vm!Pause, Vm!Resume

LEMMA Bystanders ==
    ASSUME VmInv, NEW c \in Callers, Moves(c), NEW d \in Callers, d # c
    PROVE  Unmoved(d)
<1> USE DEF Vm!machine, Vm!disks, Vm!kv
<1>1. boxes \in Seq(Boxed) /\ images \in Seq(Images) /\ taken \in Seq(Taken) /\ Len(taken) = Len(images)
      /\ origin \in Seq({"local", "docker"}) /\ Len(origin) = Len(images) /\ backend \in {"local", "docker"}
      /\ caller \in [Callers -> Calls]
  BY DEF VmInv, VmTypes, Boxed, Taken
<1>2. caller[d].at \in Taking \union Restoring => caller[d].id \in DOMAIN images /\ caller[d].id \in DOMAIN taken
  BY CallFacts
<1>3. caller[c].at \in Taking /\ caller[d].at \in Taking \union Restoring => caller[c].id # caller[d].id
  BY DEF VmInv, OneTakes
<1>4. CASE \E b \in DOMAIN boxes : Vm!Snapshot(c, b)
  <2>1. \A i \in DOMAIN images : i \in DOMAIN images' /\ images'[i] = images[i]
    BY <1>1, <1>4, Appended, ImageFacts DEF Vm!Snapshot
  <2>4. \A i \in DOMAIN images : origin'[i] = origin[i]
    BY <1>1, <1>4, Appended, Positions DEF Vm!Snapshot
  <2>2. \A i \in DOMAIN taken : taken'[i] = taken[i]
    <3>1. PICK b \in DOMAIN boxes : Vm!Snapshot(c, b)
      BY <1>4
    <3>2. [files |-> boxes[b].files, entries |-> store, next |-> counter, still |-> TRUE, calm |-> TRUE] \in Taken
      <4>1. boxes[b] \in Boxed
        BY <1>1, Positions
      <4> QED
        BY <4>1 DEF Taken, Boxed, VmInv, VmTypes
    <3> QED
      BY <1>1, <3>1, <3>2, Appended DEF Vm!Snapshot
  <2>3. caller'[d] = caller[d]
    BY <1>1, <1>4 DEF Vm!Snapshot
  <2> QED
    BY <1>2, <1>4, <2>1, <2>2, <2>3, <2>4 DEF Vm!Snapshot, Unmoved
<1>5. CASE (\E id \in cache : Vm!Restore(c, id)) \/ (\E k \in BoxKeys : Vm!ReadEntry(c, k))
           \/ Vm!Put(c) \/ Vm!Register(c) \/ Vm!Return(c) \/ Vm!Fail(c)
  <2>1. /\ caller'[d] = caller[d] /\ boxes' = boxes /\ images' = images /\ taken' = taken
        /\ backend' = backend /\ origin' = origin /\ store' = store /\ counter' = counter
    BY <1>1, <1>5 DEF Vm!Restore, Vm!ReadEntry, Vm!Put, Vm!Register, Vm!Return, Vm!Fail
  <2> QED
    BY <1>2, <2>1 DEF Unmoved
<1>6. CASE Vm!Commit(c) \/ \E f \in BoxFiles : Vm!CopyFile(c, f)
  <2>1. /\ caller'[d] = caller[d] /\ boxes' = boxes /\ taken' = taken
        /\ backend' = backend /\ origin' = origin /\ store' = store /\ counter' = counter
        /\ caller[c].at = "copy" /\ \E i : images' = [images EXCEPT ![caller[c].id] = i]
    BY <1>1, <1>6 DEF Vm!Commit, Vm!CopyFile
  <2>2. DOMAIN images' = DOMAIN images /\ \A i \in DOMAIN images : i # caller[c].id => images'[i] = images[i]
    BY <2>1
  <2> QED
    BY <1>2, <1>3, <2>1, <2>2 DEF Unmoved, Taking
<1>7. CASE Vm!ReadCounter(c)
  <2>1. /\ caller'[d] = caller[d] /\ boxes' = boxes /\ images' = images
        /\ backend' = backend /\ origin' = origin /\ store' = store /\ counter' = counter
        /\ caller[c].at = "counter"
    BY <1>1, <1>7 DEF Vm!ReadCounter
  <2>2. \A i \in DOMAIN taken : i # caller[c].id => taken'[i] = taken[i]
    BY <1>7 DEF Vm!ReadCounter
  <2> QED
    BY <1>2, <1>3, <2>1, <2>2 DEF Unmoved, Taking
<1>8. CASE (\E k \in BoxKeys : Vm!Clear(c, k) \/ Vm!Insert(c, k)) \/ Vm!StoreCounter(c)
  <2>1. /\ caller'[d] = Vm!Stirred[d] /\ boxes' = boxes /\ images' = images /\ taken' = taken
        /\ backend' = backend /\ origin' = origin
    <3>1. DOMAIN Vm!Stirred = Callers
      BY <1>1, Disturbed
    <3> QED
      BY <1>8, <3>1 DEF Vm!Clear, Vm!Insert, Vm!StoreCounter
  <2>2. /\ Alike(caller'[d], caller[d]) /\ caller'[d].still = caller[d].still
        /\ caller[d].at # "idle" => caller'[d].calm = FALSE
    BY <2>1, StirredFields
  <2> QED
    BY <1>2, <2>1, <2>2 DEF Alike, Unmoved
<1>9. CASE Vm!Recreate(c)
  <2>1. \A a \in DOMAIN boxes : a \in DOMAIN boxes' /\ boxes'[a] = boxes[a]
    <3> DEFINE b == [status |-> "running",
                     files |-> IF backend = "local" THEN [f \in BoxFiles |-> 0] ELSE images[caller[c].id]]
    <3>1. boxes' = Append(boxes, b)
      BY <1>1, <1>9, RecreateEffect
    <3> HIDE DEF b
    <3> QED
      BY <1>1, <3>1, AppendProperties, LenProperties
  <2>2. /\ caller'[d] = caller[d] /\ images' = images /\ taken' = taken
        /\ backend' = backend /\ origin' = origin /\ store' = store /\ counter' = counter
    BY <1>1, <1>9 DEF Vm!Recreate
  <2> QED
    BY <1>2, <2>1, <2>2 DEF Unmoved
<1>10. CASE \E f \in BoxFiles : Vm!CopyBack(c, f)
  <2>1. PICK f \in BoxFiles : Vm!CopyBack(c, f)
    BY <1>10
  <2>2. /\ caller'[d] = Vm!Touched(caller[c].box)[d] /\ images' = images /\ taken' = taken
        /\ backend' = backend /\ origin' = origin /\ store' = store /\ counter' = counter
    <3>1. DOMAIN Vm!Touched(caller[c].box) = Callers
      BY <1>1, Disturbed
    <3> QED
      BY <2>1, <3>1 DEF Vm!CopyBack
  <2>3. DOMAIN boxes' = DOMAIN boxes /\ \A a \in DOMAIN boxes : a # caller[c].box => boxes'[a] = boxes[a]
    BY <2>1 DEF Vm!CopyBack
  <2>4. /\ Alike(caller'[d], caller[d]) /\ caller'[d].calm = caller[d].calm
        /\ caller'[d].still => caller[d].still /\ caller[d].box # caller[c].box
    BY <2>2, TouchedFields
  <2> QED
    BY <1>2, <2>2, <2>3, <2>4 DEF Alike, Unmoved
<1> QED
  BY <1>4, <1>5, <1>6, <1>7, <1>8, <1>9, <1>10 DEF Moves

LEMMA IdleHolds == ASSUME NEW c \in Callers, caller'[c].at = "idle" PROVE Holds(c)'
BY DEF Holds, Place, Takes, Restores, Taking, Restoring

\* There is one store without entries.
LEMMA EmptyStore ==
    \A s : DOMAIN s = {} /\ s = [k \in DOMAIN s |-> s[k]] => s = <<>>
BY StoreFacts

LEMMA SnapshotHolds ==
    ASSUME VmInv, NEW c \in Callers, NEW b \in DOMAIN boxes, Vm!Snapshot(c, b) PROVE Holds(c)'
<1> USE DEF Vm!machine, Vm!disks, Vm!kv
<1> DEFINE i == Len(images) + 1
           t == [files |-> boxes[b].files, entries |-> store, next |-> counter,
                 still |-> TRUE, calm |-> TRUE]
<1>1. boxes \in Seq(Boxed) /\ images \in Seq(Images) /\ taken \in Seq(Taken) /\ Len(taken) = Len(images)
      /\ caller \in [Callers -> Calls]
  BY DEF VmInv, VmTypes, Boxed, Taken
<1>2. t \in Taken
  <2>1. boxes[b] \in Boxed
    BY <1>1, Positions
  <2> QED
    BY <2>1 DEF Taken, Boxed, VmInv, VmTypes
<1>3. images' = Append(images, <<>>) /\ taken' = Append(taken, t) /\ boxes' = boxes
      /\ store' = store /\ counter' = counter
  BY DEF Vm!Snapshot
<1>4. Len(images') = i /\ i \in DOMAIN images' /\ images'[i] = <<>>
  BY <1>1, <1>3, Appended, ImageFacts
<1>5. taken'[i] = t
  BY <1>1, <1>2, <1>3, Appended
<1>6. caller'[c] = [Vm!Idle EXCEPT !.at = "copy", !.box = b, !.id = i, !.left = BoxFiles]
  BY <1>1, <1>4 DEF Vm!Snapshot
<1>7. /\ caller'[c].at = "copy" /\ caller'[c].box = b /\ caller'[c].id = i
      /\ caller'[c].left = BoxFiles /\ caller'[c].entries = <<>>
  BY <1>6 DEF Vm!Idle
<1>8. taken'[i].files = boxes'[b].files /\ taken'[i].entries = store' /\ taken'[i].next = counter'
  <2>1. t.files = boxes[b].files /\ t.entries = store /\ t.next = counter
    OBVIOUS
  <2> HIDE DEF t, i
  <2> QED
    BY <1>3, <1>5, <2>1
<1>9. DOMAIN images'[i] = {}
  BY <1>4, StoreFacts
<1> HIDE DEF i, t
<1>10. Place(caller[c])'
  BY <1>3, <1>4, <1>7 DEF Place, Taking, Restoring
<1>11. Takes(caller[c])'
  BY <1>7, <1>8, <1>9 DEF Takes, Taking
<1>12. Restores(caller[c])'
  BY <1>7 DEF Restores, Restoring
<1> QED
  BY <1>10, <1>11, <1>12 DEF Holds

LEMMA RestoreHolds ==
    ASSUME VmInv, NEW c \in Callers, NEW id \in cache, Vm!Restore(c, id) PROVE Holds(c)'
<1> USE DEF Vm!machine, Vm!disks, Vm!kv
<1>1. /\ caller'[c].at = "create" /\ caller'[c].id = id /\ images' = images /\ taken' = taken
      /\ caller'[c].entries = manifests[id].entries /\ caller'[c].next = manifests[id].next
  <2>1. caller \in [Callers -> Calls]
    BY DEF VmInv, VmTypes
  <2> QED
    BY <2>1 DEF Vm!Restore, Vm!Idle
<1>2. id \in DOMAIN manifests /\ id \in DOMAIN images
  BY DEF VmInv, VmTypes
<1>3. TrueImage(id) /\ TrueStore(id, manifests[id].entries, manifests[id].next)
  BY <1>2 DEF VmInv, KnownAreTrue
<1>4. Place(caller[c])'
  BY <1>1, <1>2 DEF Place, Taking, Restoring
<1>5. Takes(caller[c])'
  BY <1>1 DEF Takes, Taking
<1>6. Restores(caller[c])'
  BY <1>1, <1>3 DEF Restores, Restoring, TrueImage, TrueStore
<1> QED
  BY <1>4, <1>5, <1>6 DEF Holds

\* A snapshot that has all files goes on with no entries.
LEMMA EntriesBegin ==
    ASSUME VmInv, NEW c \in Callers,
           caller[c].at = "copy", caller'[c].at = "entries", caller'[c].id = caller[c].id,
           caller'[c].left = BoxKeys, caller'[c].entries = caller[c].entries,
           caller'[c].calm = caller[c].calm,
           taken' = taken, store' = store, counter' = counter, caller[c].id \in DOMAIN images',
           DOMAIN images'[caller[c].id] = BoxFiles,
           caller'[c].still => images'[caller[c].id] = taken[caller[c].id].files
    PROVE  Holds(c)'
<1>1. store \in Stores /\ Takes(caller[c])
  BY DEF VmInv, VmTypes
<1>2. DOMAIN store' \ BoxKeys = {}
  BY <1>1, StoreFacts
<1>3. caller'[c].entries = [k \in DOMAIN store' \ caller'[c].left |-> store'[k]]
  <2>1. \A f : f = [k \in {} |-> store'[k]] => f = <<>>
    BY EmptyStore
  <2>2. caller'[c].entries = <<>>
    BY <1>1 DEF Takes
  <2> QED
    BY <1>2, <2>1, <2>2
<1>4. caller[c].calm => store = taken[caller[c].id].entries /\ counter = taken[caller[c].id].next
  BY <1>1 DEF Takes
<1>5. Place(caller[c])'
  BY DEF Place, Taking, Restoring
<1>6. Takes(caller[c])'
  BY <1>3, <1>4 DEF Takes, Taking
<1>7. Restores(caller[c])'
  BY DEF Restores, Restoring
<1> QED
  BY <1>5, <1>6, <1>7 DEF Holds

LEMMA CopyFileHolds ==
    ASSUME VmInv, NEW c \in Callers, NEW f \in BoxFiles, Vm!CopyFile(c, f) PROVE Holds(c)'
<1> USE DEF Vm!machine, Vm!disks, Vm!kv
<1> DEFINE r == caller[c]
           q == caller'[c]
           held == boxes[r.box].files
           old == images[r.id]
           new == images'[r.id]
<1>1. caller \in [Callers -> Calls] /\ r.at = "copy" /\ f \in r.left /\ backend = "local"
  BY DEF VmInv, VmTypes, Vm!CopyFile
<1>2. /\ r.id \in DOMAIN images /\ old \in Images /\ taken[r.id] \in Taken
      /\ r.box \in DOMAIN boxes /\ held \in Files
  BY <1>1, CallFacts DEF Taking, Restoring
<1>3. /\ images' = [images EXCEPT ![r.id] = Vm!With(images[r.id], f, held[f])]
      /\ q = Vm!Step(c, f, "entries", BoxKeys)
      /\ boxes' = boxes /\ store' = store /\ counter' = counter /\ taken' = taken /\ backend' = backend
  BY <1>1 DEF Vm!CopyFile
<1>4. /\ DOMAIN images' = DOMAIN images /\ DOMAIN new = DOMAIN old \union {f}
      /\ \A g \in DOMAIN new : new[g] = IF g = f THEN held[f] ELSE old[g]
      /\ new = [g \in DOMAIN new |-> new[g]]
  BY <1>2, <1>3 DEF Vm!With
<1>5. /\ q.at = IF r.left = {f} THEN "entries" ELSE "copy"
      /\ q.left = IF r.left = {f} THEN BoxKeys ELSE r.left \ {f}
      /\ q.box = r.box /\ q.id = r.id /\ q.entries = r.entries /\ q.still = r.still /\ q.calm = r.calm
  <2>1. r \in Calls
    BY <1>1
  <2>2. q = [r EXCEPT !.left = IF r.left = {f} THEN BoxKeys ELSE r.left \ {f},
                      !.at   = IF r.left = {f} THEN "entries" ELSE r.at]
    BY <1>3 DEF Vm!Step
  <2> HIDE DEF r, q
  <2> QED
    BY <1>1, <2>1, <2>2 DEF Calls
<1>6. Place(r) /\ Takes(r)
  BY DEF VmInv
<1>7. /\ r.entries = <<>> /\ r.left \subseteq BoxFiles /\ DOMAIN old = BoxFiles \ r.left
      /\ r.still => /\ held = taken[r.id].files
                    /\ \A g \in DOMAIN old : old[g] = taken[r.id].files[g]
      /\ r.calm => store = taken[r.id].entries /\ counter = taken[r.id].next
  BY <1>1, <1>6 DEF Place, Takes
<1>8. taken[r.id].files = [g \in BoxFiles |-> taken[r.id].files[g]]
  BY <1>2 DEF Taken, Files
<1>9. r.still => \A g \in DOMAIN new : new[g] = taken[r.id].files[g]
  BY <1>1, <1>4, <1>7
<1>10. CASE r.left = {f}
  <2>1. DOMAIN new = BoxFiles
    BY <1>4, <1>7, <1>10
  <2>2. r.still => new = taken[r.id].files
    BY <1>4, <1>8, <1>9, <2>1
  <2> QED
    BY <1>1, <1>2, <1>3, <1>4, <1>5, <1>10, <2>1, <2>2, EntriesBegin
<1>11. CASE r.left # {f}
  <2>1. DOMAIN new = BoxFiles \ (r.left \ {f})
    BY <1>1, <1>4, <1>7
  <2>2. q.at = "copy" /\ q.left = r.left \ {f}
    BY <1>5, <1>11
  <2> HIDE DEF r, new, old, held
  <2>3. Place(caller[c])'
    BY <1>2, <1>3, <1>4, <1>5, <1>7, <2>2 DEF Place, Taking, Restoring
  <2>4. images'[q.id] = new /\ boxes'[q.box].files = held
    BY <1>3, <1>5 DEF new, held
  <2>5. Takes(caller[c])'
    BY <1>1, <1>3, <1>5, <1>7, <1>9, <2>1, <2>2, <2>4 DEF Takes, Taking
  <2>6. Restores(caller[c])'
    BY <2>2 DEF Restores, Restoring
  <2> QED
    BY <2>3, <2>5, <2>6 DEF Holds
<1> QED
  BY <1>10, <1>11

LEMMA CommitHolds == ASSUME VmInv, NEW c \in Callers, Vm!Commit(c) PROVE Holds(c)'
<1> USE DEF Vm!machine, Vm!disks, Vm!kv
<1> DEFINE r == caller[c]
           q == caller'[c]
<1>1. caller \in [Callers -> Calls] /\ r \in Calls /\ r.at = "copy"
  BY DEF VmInv, VmTypes, Vm!Commit
<1>2. r.id \in DOMAIN images /\ r.box \in DOMAIN boxes /\ boxes[r.box].files \in Files
  BY <1>1, CallFacts DEF Taking, Restoring
<1>3. /\ images' = [images EXCEPT ![r.id] = boxes[r.box].files] /\ taken' = taken
      /\ store' = store /\ counter' = counter /\ caller' = [caller EXCEPT ![c].at = "entries", ![c].left = BoxKeys]
  BY DEF Vm!Commit
<1>4. q = [r EXCEPT !.at = "entries", !.left = BoxKeys]
  BY <1>1, <1>3
<1>5. /\ q.at = "entries" /\ q.left = BoxKeys /\ q.id = r.id /\ q.entries = r.entries
      /\ q.still = r.still /\ q.calm = r.calm
  <2> HIDE DEF r, q
  <2> QED
    BY <1>1, <1>4 DEF Calls
<1>6. DOMAIN images' = DOMAIN images /\ images'[r.id] = boxes[r.box].files
  BY <1>2, <1>3
<1>7. DOMAIN boxes[r.box].files = BoxFiles
  BY <1>2 DEF Files
<1>8. r.still => boxes[r.box].files = taken[r.id].files
  BY <1>1 DEF VmInv, Takes
<1> QED
  BY <1>1, <1>2, <1>3, <1>5, <1>6, <1>7, <1>8, EntriesBegin

LEMMA ReadEntryHolds ==
    ASSUME VmInv, NEW c \in Callers, NEW k \in BoxKeys, Vm!ReadEntry(c, k) PROVE Holds(c)'
<1> USE DEF Vm!machine, Vm!disks, Vm!kv
<1> DEFINE r == caller[c]
           q == caller'[c]
           read == IF k \in DOMAIN store THEN Vm!With(r.entries, k, store[k]) ELSE r.entries
<1>1. /\ caller \in [Callers -> Calls] /\ r \in Calls /\ r.at = "entries" /\ k \in r.left
      /\ store \in Stores
  BY DEF VmInv, VmTypes, Vm!ReadEntry
<1>2. r.id \in DOMAIN images
  BY <1>1, CallFacts DEF Taking
<1>3. /\ images' = images /\ taken' = taken /\ store' = store /\ counter' = counter
      /\ q = [Vm!Step(c, k, "counter", {}) EXCEPT !.entries =
                 IF k \in DOMAIN store THEN Vm!With(@, k, store[k]) ELSE @]
  BY <1>1 DEF Vm!ReadEntry
<1>4. /\ q.at = IF r.left = {k} THEN "counter" ELSE "entries"
      /\ q.left = IF r.left = {k} THEN {} ELSE r.left \ {k}
      /\ q.id = r.id /\ q.still = r.still /\ q.calm = r.calm
      /\ q.entries = read
  <2> DEFINE e == Vm!Step(c, k, "counter", {})
  <2>1. e = [r EXCEPT !.left = IF r.left = {k} THEN {} ELSE r.left \ {k},
                      !.at   = IF r.left = {k} THEN "counter" ELSE r.at]
    BY DEF Vm!Step
  <2>2. q = [e EXCEPT !.entries = IF k \in DOMAIN store THEN Vm!With(e.entries, k, store[k]) ELSE e.entries]
    BY <1>3
  <2>3. r \in Calls
    BY <1>1
  <2> HIDE DEF r, q, e
  <2>4. /\ e \in [{"at", "box", "id", "left", "entries", "next", "still", "calm"} -> {e[x] : x \in DOMAIN e}]
        /\ e.at = IF r.left = {k} THEN "counter" ELSE r.at
        /\ e.left = IF r.left = {k} THEN {} ELSE r.left \ {k}
        /\ e.id = r.id /\ e.still = r.still /\ e.calm = r.calm /\ e.entries = r.entries
    BY <2>1, <2>3 DEF Calls
  <2> QED
    BY <1>1, <2>2, <2>4
<1>5. Place(r) /\ Takes(r)
  BY DEF VmInv
<1>6. r.left \subseteq BoxKeys
  BY <1>1, <1>5 DEF Place
<1>7. r.still => images[r.id] = taken[r.id].files
  BY <1>1, <1>5 DEF Takes
<1>8. r.calm => /\ store = taken[r.id].entries /\ counter = taken[r.id].next
                /\ r.entries = [l \in DOMAIN store \ r.left |-> store[l]]
  BY <1>1, <1>5 DEF Takes
<1>9. r.calm => read = [l \in DOMAIN store \ (r.left \ {k}) |-> store[l]]
  <2>1. ASSUME r.calm, k \in DOMAIN store
        PROVE  Vm!With(r.entries, k, store[k]) = [l \in DOMAIN store \ (r.left \ {k}) |-> store[l]]
    BY <1>1, <1>8, <2>1 DEF Vm!With
  <2>2. ASSUME r.calm, k \notin DOMAIN store
        PROVE  r.entries = [l \in DOMAIN store \ (r.left \ {k}) |-> store[l]]
    <3>1. DOMAIN store \ r.left = DOMAIN store \ (r.left \ {k})
      BY <2>2
    <3> QED
      BY <1>8, <2>2, <3>1
  <2> QED
    BY <2>1, <2>2
<1>10. [l \in DOMAIN store \ {} |-> store[l]] = store
  BY <1>1, StoreFacts
<1>11. DOMAIN images[r.id] = BoxFiles
  BY <1>1, <1>5 DEF Takes
<1> HIDE DEF r, q, read
<1>12. q.id \in DOMAIN images'
  BY <1>2, <1>3, <1>4
<1>13. q.at = "entries" => q.left \subseteq BoxKeys
  BY <1>4, <1>6
<1>14. Place(caller[c])'
  BY <1>4, <1>12, <1>13 DEF Place, Taking, Restoring, q
<1>15. q.at = "entries" /\ q.calm => q.entries = [l \in DOMAIN store' \ q.left |-> store'[l]]
  BY <1>3, <1>4, <1>9
<1>16. q.at = "counter" /\ q.calm => q.entries = store'
  <2>1. ASSUME r.left = {k} PROVE r.left \ {k} = {}
    BY <2>1
  <2> QED
    BY <1>3, <1>4, <1>9, <1>10, <2>1
<1>17. Takes(caller[c])'
  BY <1>3, <1>4, <1>7, <1>8, <1>11, <1>15, <1>16 DEF Takes, Taking, q
<1>18. Restores(caller[c])'
  BY <1>4 DEF Restores, Restoring, q
<1> QED
  BY <1>14, <1>17, <1>18 DEF Holds

LEMMA ReadCounterHolds == ASSUME VmInv, NEW c \in Callers, Vm!ReadCounter(c) PROVE Holds(c)'
<1> USE DEF Vm!machine, Vm!disks, Vm!kv
<1> DEFINE r == caller[c]
           q == caller'[c]
<1>1. /\ caller \in [Callers -> Calls] /\ r \in Calls /\ r.at = "counter"
  BY DEF VmInv, VmTypes, Vm!ReadCounter
<1>2. r.id \in DOMAIN images /\ r.id \in DOMAIN taken /\ taken[r.id] \in Taken
  BY <1>1, CallFacts DEF Taking
<1>3. /\ images' = images /\ q = [r EXCEPT !.at = "put", !.next = counter]
      /\ taken' = [taken EXCEPT ![r.id].still = r.still, ![r.id].calm = r.calm]
  BY <1>1 DEF Vm!ReadCounter
<1>4. q.at = "put" /\ q.id = r.id /\ q.entries = r.entries /\ q.next = counter
  <2> HIDE DEF r, q
  <2> QED
    BY <1>1, <1>3 DEF Calls
<1>5. /\ taken'[r.id].still = r.still /\ taken'[r.id].calm = r.calm
      /\ taken'[r.id].files = taken[r.id].files /\ taken'[r.id].entries = taken[r.id].entries
      /\ taken'[r.id].next = taken[r.id].next
  <2> DEFINE t == taken[r.id]
  <2>1. taken'[r.id] = [t EXCEPT !.still = r.still, !.calm = r.calm]
    BY <1>2, <1>3
  <2>2. t \in Taken
    BY <1>2
  <2> HIDE DEF t
  <2>3. \A x, y : LET u == [t EXCEPT !.still = x, !.calm = y]
                  IN  /\ u.still = x /\ u.calm = y /\ u.files = t.files
                      /\ u.entries = t.entries /\ u.next = t.next
    BY <2>2 DEF Taken
  <2> QED
    BY <2>1, <2>3 DEF t
<1>6. Takes(r)
  BY DEF VmInv
<1>7. /\ DOMAIN images[r.id] = BoxFiles
      /\ r.still => images[r.id] = taken[r.id].files
      /\ r.calm => store = taken[r.id].entries /\ counter = taken[r.id].next /\ r.entries = store
  BY <1>1, <1>6 DEF Takes
<1>8. Place(caller[c])'
  BY <1>2, <1>3, <1>4 DEF Place, Taking, Restoring
<1>9. Takes(caller[c])'
  BY <1>3, <1>4, <1>5, <1>7 DEF Takes, Taking, TrueImage, TrueStore
<1>10. Restores(caller[c])'
  BY <1>4 DEF Restores, Restoring
<1> QED
  BY <1>8, <1>9, <1>10 DEF Holds

LEMMA PutHolds == ASSUME VmInv, NEW c \in Callers, Vm!Put(c) PROVE Holds(c)'
<1> USE DEF Vm!machine, Vm!disks, Vm!kv
<1> DEFINE r == caller[c]
           q == caller'[c]
<1>1. /\ caller \in [Callers -> Calls] /\ r \in Calls /\ r.at = "put"
  BY DEF VmInv, VmTypes, Vm!Put
<1>2. r.id \in DOMAIN images
  BY <1>1, CallFacts DEF Taking
<1>3. images' = images /\ taken' = taken /\ q = [r EXCEPT !.at = "cache"]
  BY <1>1 DEF Vm!Put
<1>4. q.at = "cache" /\ q.id = r.id /\ q.entries = r.entries /\ q.next = r.next
  <2> HIDE DEF r, q
  <2> QED
    BY <1>1, <1>3 DEF Calls
<1>5. TrueImage(r.id) /\ TrueStore(r.id, r.entries, r.next)
  BY <1>1 DEF VmInv, Takes
<1>6. Place(caller[c])'
  BY <1>2, <1>3, <1>4 DEF Place, Taking, Restoring
<1>7. Takes(caller[c])'
  BY <1>3, <1>4, <1>5 DEF Takes, Taking, TrueImage, TrueStore
<1>8. Restores(caller[c])'
  BY <1>4 DEF Restores, Restoring
<1> QED
  BY <1>6, <1>7, <1>8 DEF Holds

\* A sandbox that has all files of its snapshot goes on to clear the store.
LEMMA ClearBegins ==
    ASSUME VmInv, NEW c \in Callers, caller[c].at \in Restoring,
           caller'[c].at = "clear", caller'[c].id = caller[c].id, caller'[c].left = BoxKeys,
           caller'[c].entries = caller[c].entries, caller'[c].next = caller[c].next,
           caller'[c].box \in DOMAIN boxes', images' = images, taken' = taken, store' = store,
           caller'[c].still /\ origin'[caller[c].id] = backend' => boxes'[caller'[c].box].files = images[caller[c].id]
    PROVE  Holds(c)'
<1>1. Restores(caller[c]) /\ store \in Stores /\ caller[c].id \in DOMAIN images
  BY CallFacts DEF VmInv, VmTypes
<1>2. DOMAIN store' \subseteq BoxKeys
  BY <1>1, StoreFacts
<1>3. TrueImage(caller[c].id) /\ TrueStore(caller[c].id, caller[c].entries, caller[c].next)
  BY <1>1 DEF Restores
<1>4. Place(caller[c])'
  BY <1>1 DEF Place, Taking, Restoring
<1>5. Takes(caller[c])'
  BY DEF Takes, Taking
<1>6. Restores(caller[c])'
  BY <1>2, <1>3 DEF Restores, TrueImage, TrueStore
<1> QED
  BY <1>4, <1>5, <1>6 DEF Holds

LEMMA RecreateHolds == ASSUME VmInv, NEW c \in Callers, Vm!Recreate(c) PROVE Holds(c)'
<1> USE DEF Vm!machine, Vm!disks, Vm!kv
<1> DEFINE r == caller[c]
           q == caller'[c]
           image == images[r.id]
           e == [status |-> "running",
                 files |-> IF backend = "local" THEN [f \in BoxFiles |-> 0] ELSE image]
           local == backend = "local"
           tree == IF local THEN Vm!Tree(r.id) ELSE {}
<1>1. /\ caller \in [Callers -> Calls] /\ r \in Calls /\ r.at = "create" /\ boxes \in Seq(Boxed)
  BY DEF VmInv, VmTypes, Vm!Recreate, Boxed
<1>2. r.id \in DOMAIN images /\ image \in Images
  BY <1>1, CallFacts DEF Restoring
<1>3. /\ images' = images /\ taken' = taken /\ store' = store /\ counter' = counter
      /\ origin' = origin /\ backend' = backend
      /\ boxes' = Append(boxes, e)
      /\ q = [r EXCEPT !.box = Len(boxes'), !.at = IF tree # {} THEN "back" ELSE "clear",
                       !.left = IF tree # {} THEN tree ELSE BoxKeys]
  BY <1>1 DEF Vm!Recreate
<1>4. /\ q.at = IF tree # {} THEN "back" ELSE "clear"
      /\ q.left = IF tree # {} THEN tree ELSE BoxKeys
      /\ q.id = r.id /\ q.entries = r.entries /\ q.next = r.next /\ q.box = Len(boxes')
  <2> HIDE DEF r, q, image, tree
  <2> QED
    BY <1>1, <1>3 DEF Calls
<1>5. Restores(r)
  BY DEF VmInv
<1>6. TrueImage(r.id) /\ TrueStore(r.id, r.entries, r.next)
  BY <1>1, <1>5 DEF Restores, Restoring
<1>7. image \in Files /\ DOMAIN image = BoxFiles
  BY <1>2, <1>6, ImageFacts DEF TrueImage
<1>8. e \in Boxed
  BY <1>7 DEF Boxed, Files
<1>9. Len(boxes') \in DOMAIN boxes' /\ boxes'[Len(boxes')] = e
  <2> HIDE DEF e
  <2>1. /\ Len(Append(boxes, e)) = Len(boxes) + 1 /\ Len(boxes) \in Nat
        /\ DOMAIN Append(boxes, e) = 1..(Len(boxes) + 1) /\ Append(boxes, e)[Len(boxes) + 1] = e
    BY <1>1, <1>8, Appended
  <2> QED
    BY <1>3, <2>1
<1>12. tree # {} => tree = BoxFiles
  BY <1>7 DEF Vm!Tree
<1>10. CASE tree # {}
  <2>1. Place(caller[c])'
    BY <1>2, <1>3, <1>4, <1>9, <1>10, <1>12 DEF Place, Taking, Restoring
  <2>2. Takes(caller[c])'
    BY <1>4, <1>10 DEF Takes, Taking
  <2>3. BoxFiles \ q.left = {}
    BY <1>4, <1>10, <1>12
  <2>4. q.at = "back" /\ q.id = r.id /\ q.entries = r.entries /\ q.next = r.next
    BY <1>4, <1>10
  <2> HIDE DEF image, e, local, tree
  <2>5. Restores(caller[c])'
    BY <1>3, <1>6, <2>3, <2>4 DEF Restores, Restoring, TrueImage, TrueStore
  <2> QED
    BY <2>1, <2>2, <2>5 DEF Holds
<1>11. CASE tree = {}
  <2>1. origin'[r.id] = backend' => boxes'[q.box].files = image
    <3>1. boxes'[q.box].files = IF local THEN [f \in BoxFiles |-> 0] ELSE image
      BY <1>4, <1>9
    <3>2. local /\ origin[r.id] = backend => BoxFiles = {}
      BY <1>7, <1>11 DEF Vm!Tree
    <3>3. BoxFiles = {} => image = [f \in BoxFiles |-> 0]
      BY <1>7 DEF Files
    <3> HIDE DEF image, local, tree
    <3> QED
      BY <1>3, <3>1, <3>2, <3>3
  <2> QED
    BY <1>1, <1>3, <1>4, <1>9, <1>11, <2>1, ClearBegins DEF Restoring
<1> QED
  BY <1>10, <1>11

LEMMA CopyBackHolds ==
    ASSUME VmInv, NEW c \in Callers, NEW f \in BoxFiles, Vm!CopyBack(c, f) PROVE Holds(c)'
<1> USE DEF Vm!machine, Vm!disks, Vm!kv
<1> DEFINE r == caller[c]
           q == caller'[c]
           image == images[r.id]
           old == boxes[r.box].files
           new == boxes'[r.box].files
<1>1. /\ caller \in [Callers -> Calls] /\ r \in Calls /\ r.at = "back" /\ f \in r.left
      /\ boxes \in Seq(Boxed)
  BY DEF VmInv, VmTypes, Vm!CopyBack, Boxed
<1>2. /\ r.id \in DOMAIN images /\ image \in Images /\ r.box \in DOMAIN boxes /\ old \in Files
  BY <1>1, CallFacts DEF Taking, Restoring
<1>3. /\ images' = images /\ taken' = taken /\ store' = store /\ counter' = counter
      /\ boxes' = [boxes EXCEPT ![r.box].files[f] = image[f]]
  BY DEF Vm!CopyBack
<1>4. /\ q.at = IF r.left = {f} THEN "clear" ELSE "back"
      /\ q.left = IF r.left = {f} THEN BoxKeys ELSE r.left \ {f}
      /\ q.box = r.box /\ q.id = r.id /\ q.entries = r.entries /\ q.next = r.next
      /\ q.still = r.still /\ q.calm = r.calm
  <2>1. DOMAIN Vm!Touched(r.box) = Callers
    BY <1>1, Disturbed
  <2>2. q = [r EXCEPT !.left = IF r.left = {f} THEN BoxKeys ELSE r.left \ {f},
                      !.at   = IF r.left = {f} THEN "clear" ELSE r.at]
    BY <2>1 DEF Vm!CopyBack, Vm!Step
  <2>3. r \in Calls
    BY <1>1
  <2> HIDE DEF r, q
  <2> QED
    BY <1>1, <2>2, <2>3 DEF Calls
<1>5. Place(r) /\ Restores(r)
  BY DEF VmInv
<1>6. TrueImage(r.id) /\ TrueStore(r.id, r.entries, r.next)
  BY <1>1, <1>5 DEF Restores, Restoring
<1>7. image \in Files /\ image[f] \in Nat
  <2>1. image \in Files
    BY <1>2, <1>6, ImageFacts DEF TrueImage
  <2> QED
    BY <2>1 DEF Files
<1>8. new = [old EXCEPT ![f] = image[f]] /\ DOMAIN boxes' = DOMAIN boxes
  <2> DEFINE b == r.box
             n == image[f]
             after == [boxes EXCEPT ![b].files[f] = n]
  <2>1. b \in DOMAIN boxes /\ n \in Nat /\ boxes' = after
    BY <1>2, <1>3, <1>7
  <2> HIDE DEF b, n
  <2>2. DOMAIN after = DOMAIN boxes
    BY <1>1, <2>1, BoxWritten
  <2>3. after[b].files = [boxes[b].files EXCEPT ![f] = n]
    <3>1. boxes[b] \in Boxed
      BY <1>1, <2>1, Positions
    <3>2. after[b] = [boxes[b] EXCEPT !.files[f] = n]
      BY <2>1
    <3> HIDE DEF after
    <3> QED
      BY <3>1, <3>2 DEF Boxed
  <2> QED
    BY <2>1, <2>2, <2>3 DEF b, n
<1>9. r.left \subseteq BoxFiles /\ (r.still => \A g \in BoxFiles \ r.left : old[g] = image[g])
  BY <1>1, <1>5 DEF Place, Restores
<1>10. r.still => \A g \in BoxFiles \ (r.left \ {f}) : new[g] = image[g]
  <2> HIDE DEF old, new, image
  <2>1. \A g \in BoxFiles : new[g] = IF g = f THEN image[f] ELSE old[g]
    BY <1>2, <1>8 DEF Files
  <2> QED
    BY <1>9, <2>1
<1>11. new \in Files
  <2> HIDE DEF old, new, image
  <2> QED
    BY <1>2, <1>7, <1>8 DEF Files
<1>12. CASE r.left = {f}
  <2>1. r.still => new = image
    <3> HIDE DEF new, image, r
    <3>1. \A g \in BoxFiles : g \notin (r.left \ {f})
      BY <1>12
    <3> QED
      BY <1>7, <1>10, <1>11, <3>1 DEF Files
  <2> QED
    BY <1>1, <1>2, <1>3, <1>4, <1>8, <1>12, <2>1, ClearBegins DEF Restoring
<1>13. CASE r.left # {f}
  <2>1. q.at = "back" /\ q.left = r.left \ {f}
    BY <1>4, <1>13
  <2>2. boxes'[q.box].files = new /\ images'[q.id] = image
    BY <1>3, <1>4
  <2> HIDE DEF r, new, image
  <2>3. Place(caller[c])'
    BY <1>2, <1>3, <1>4, <1>8, <1>9, <2>1 DEF Place, Taking, Restoring
  <2>4. Takes(caller[c])'
    BY <2>1 DEF Takes, Taking
  <2>5. image = images[q.id] /\ TrueImage(q.id) /\ TrueStore(q.id, q.entries, q.next)
    BY <1>4, <1>6 DEF image
  <2>6. Restores(caller[c])'
    BY <1>3, <1>4, <1>10, <2>1, <2>2, <2>5 DEF Restores, Restoring, TrueImage, TrueStore
  <2> QED
    BY <2>3, <2>4, <2>6 DEF Holds
<1> QED
  BY <1>12, <1>13

\* The files of a sandbox that is being restored stay while the store is.
Refilled(c) ==
    /\ caller[c].at \in {"clear", "insert", "next"}
    /\ caller'[c].box = caller[c].box /\ caller'[c].id = caller[c].id
    /\ caller'[c].entries = caller[c].entries /\ caller'[c].next = caller[c].next
    /\ caller'[c].still = caller[c].still /\ caller'[c].calm = caller[c].calm
    /\ boxes' = boxes /\ images' = images /\ taken' = taken
    /\ origin' = origin /\ backend' = backend

LEMMA RefilledHolds ==
    ASSUME VmInv, NEW c \in Callers, Refilled(c),
           caller'[c].at \in {"clear", "insert", "next", "restored"},
           caller'[c].at = "clear" => caller'[c].left \subseteq BoxKeys,
           caller'[c].at = "insert" => caller'[c].left \subseteq DOMAIN caller[c].entries,
           caller[c].calm =>
               /\ caller'[c].at = "clear" => DOMAIN store' \subseteq caller'[c].left
               /\ caller'[c].at = "insert" =>
                      store' = [k \in DOMAIN caller[c].entries \ caller'[c].left |-> caller[c].entries[k]]
               /\ caller'[c].at \in {"next", "restored"} => store' = caller[c].entries
               /\ caller'[c].at = "restored" => counter' = caller[c].next
    PROVE  Holds(c)'
<1>1. Place(caller[c]) /\ Restores(caller[c])
  BY DEF VmInv
<1>2. caller[c].id \in DOMAIN images /\ caller[c].box \in DOMAIN boxes
  BY CallFacts DEF Refilled, Taking, Restoring
<1>3. TrueImage(caller[c].id) /\ TrueStore(caller[c].id, caller[c].entries, caller[c].next)
  BY <1>1 DEF Refilled, Restores, Restoring
<1>4. caller[c].still /\ origin[caller[c].id] = backend => boxes[caller[c].box].files = images[caller[c].id]
  BY <1>1 DEF Refilled, Restores
<1>5. Place(caller[c])'
  BY <1>2 DEF Refilled, Place, Taking, Restoring
<1>6. Takes(caller[c])'
  BY DEF Takes, Taking
<1>7.  Restores(caller[c])'
  BY <1>3, <1>4 DEF Refilled, Restores, Restoring, TrueImage, TrueStore
<1> QED
  BY <1>5, <1>6, <1>7 DEF Holds

LEMMA ClearHolds ==
    ASSUME VmInv, NEW c \in Callers, NEW k \in BoxKeys, Vm!Clear(c, k) PROVE Holds(c)'
<1> USE DEF Vm!machine, Vm!disks, Vm!kv
<1> DEFINE r == caller[c]
           q == caller'[c]
           rest == DOMAIN r.entries
           then == IF rest = {} THEN "next" ELSE "insert"
<1>1. /\ r \in Calls /\ r.at = "clear" /\ k \in r.left /\ store \in Stores
      /\ store' = Vm!Without(store, k)
  BY CallFacts DEF VmInv, VmTypes, Vm!Clear
<1>2. r.entries \in Stores /\ r.left \subseteq BoxKeys
  BY <1>1 DEF Calls, VmInv, Place
<1>3. /\ r.left = {k} => q.at = then /\ q.left = rest
      /\ r.left # {k} => q.at = "clear" /\ q.left = r.left \ {k}
      /\ Refilled(c)
  <2>1. DOMAIN Vm!Stirred = Callers
    BY CallFacts, Disturbed
  <2>2. q = [r EXCEPT !.left = IF r.left = {k} THEN rest ELSE r.left \ {k},
                      !.at   = IF r.left = {k} THEN then ELSE r.at]
    BY <2>1 DEF Vm!Clear, Vm!Step
  <2> HIDE DEF r, q, then, rest
  <2>3. /\ r.left = {k} => q.at = then /\ q.left = rest
        /\ r.left # {k} => q.at = r.at /\ q.left = r.left \ {k}
        /\ q.box = r.box /\ q.id = r.id /\ q.entries = r.entries /\ q.next = r.next
        /\ q.still = r.still /\ q.calm = r.calm
    BY <1>1, <2>2 DEF Calls
  <2> QED
    BY <1>1, <2>3 DEF Refilled, Vm!Clear, r, q
<1>4. /\ DOMAIN store' = DOMAIN store \ {k} /\ store' = [l \in DOMAIN store' |-> store'[l]]
  BY <1>1 DEF Vm!Without
<1>5. r.calm => DOMAIN store \subseteq r.left
  BY <1>1 DEF VmInv, Restores
<1>6. /\ q.at \in {"clear", "insert", "next"}
      /\ q.at = "clear" => q.left = r.left \ {k}
      /\ q.at \in {"insert", "next"} => r.left = {k} /\ q.left = rest
      /\ q.at = "next" => rest = {}
  BY <1>3
<1>7. ASSUME r.left = {k}, r.calm PROVE DOMAIN store' = {} /\ store' = <<>>
  BY <1>4, <1>5, <1>7, EmptyStore
<1>8. q.at = "insert" /\ r.calm => store' = [l \in rest \ q.left |-> r.entries[l]]
  <2>1. [l \in {} |-> r.entries[l]] = <<>>
    BY EmptyStore
  <2>2. r.left = {k} /\ q.left = rest => rest \ q.left = {}
    OBVIOUS
  <2> HIDE DEF r, q, rest
  <2> QED
    BY <1>6, <1>7, <2>1, <2>2
<1>9. q.at = "next" /\ r.calm => store' = r.entries
  <2>1. rest = {} => r.entries = <<>>
    BY <1>2, StoreFacts, EmptyStore
  <2> QED
    BY <1>6, <1>7, <2>1
<1>10. q.at = "clear" => q.left \subseteq BoxKeys /\ (r.calm => DOMAIN store' \subseteq q.left)
  BY <1>2, <1>4, <1>5, <1>6
<1> QED
  BY <1>3, <1>6, <1>8, <1>9, <1>10, RefilledHolds

LEMMA InsertHolds ==
    ASSUME VmInv, NEW c \in Callers, NEW k \in BoxKeys, Vm!Insert(c, k) PROVE Holds(c)'
<1> USE DEF Vm!machine, Vm!disks, Vm!kv
<1> DEFINE r == caller[c]
           q == caller'[c]
<1>1. /\ r \in Calls /\ r.at = "insert" /\ k \in r.left /\ store \in Stores
      /\ store' = Vm!With(store, k, r.entries[k])
  BY CallFacts DEF VmInv, VmTypes, Vm!Insert
<1>2. r.entries \in Stores /\ r.left \subseteq DOMAIN r.entries
  BY <1>1 DEF Calls, VmInv, Place
<1>3. /\ r.left = {k} => q.at = "next" /\ q.left = {}
      /\ r.left # {k} => q.at = "insert" /\ q.left = r.left \ {k}
      /\ Refilled(c)
  <2>1. DOMAIN Vm!Stirred = Callers
    BY CallFacts, Disturbed
  <2>2. q = [r EXCEPT !.left = IF r.left = {k} THEN {} ELSE r.left \ {k},
                      !.at   = IF r.left = {k} THEN "next" ELSE r.at]
    BY <2>1 DEF Vm!Insert, Vm!Step
  <2> HIDE DEF r, q
  <2>3. /\ r.left = {k} => q.at = "next" /\ q.left = {}
        /\ r.left # {k} => q.at = r.at /\ q.left = r.left \ {k}
        /\ q.box = r.box /\ q.id = r.id /\ q.entries = r.entries /\ q.next = r.next
        /\ q.still = r.still /\ q.calm = r.calm
    BY <1>1, <2>2 DEF Calls
  <2> QED
    BY <1>1, <2>3 DEF Refilled, Vm!Insert, r, q
<1>4. r.calm => store = [l \in DOMAIN r.entries \ r.left |-> r.entries[l]]
  BY <1>1 DEF VmInv, Restores
<1>5. r.calm => store' = [l \in DOMAIN r.entries \ (r.left \ {k}) |-> r.entries[l]]
  BY <1>1, <1>2, <1>4 DEF Vm!With
<1>6. r.entries = [l \in DOMAIN r.entries |-> r.entries[l]]
  BY <1>2, StoreFacts
<1>7. ASSUME r.left = {k}, r.calm PROVE store' = r.entries
  <2>1. DOMAIN r.entries \ (r.left \ {k}) = DOMAIN r.entries
    BY <1>7
  <2> QED
    BY <1>5, <1>6, <1>7, <2>1
<1>8. /\ q.at \in {"insert", "next"}
      /\ q.at = "insert" => q.left = r.left \ {k}
      /\ q.at = "next" => r.left = {k}
  BY <1>3
<1> QED
  BY <1>2, <1>3, <1>5, <1>7, <1>8, RefilledHolds

LEMMA StoreCounterHolds == ASSUME VmInv, NEW c \in Callers, Vm!StoreCounter(c) PROVE Holds(c)'
<1> USE DEF Vm!machine, Vm!disks, Vm!kv
<1> DEFINE r == caller[c]
           q == caller'[c]
<1>1. r \in Calls /\ r.at = "next" /\ store' = store /\ counter' = r.next
  BY CallFacts DEF Vm!StoreCounter
<1>2. q = [r EXCEPT !.at = "restored"]
  <2>1. DOMAIN Vm!Stirred = Callers
    BY CallFacts, Disturbed
  <2> QED
    BY <2>1 DEF Vm!StoreCounter
<1>3. /\ q.at = "restored" /\ q.box = r.box /\ q.id = r.id /\ q.entries = r.entries
      /\ q.next = r.next /\ q.still = r.still /\ q.calm = r.calm
  <2> HIDE DEF r, q
  <2> QED
    BY <1>1, <1>2 DEF Calls
<1>4. Refilled(c)
  BY <1>1, <1>3 DEF Refilled, Vm!StoreCounter
<1>5. r.calm => store = r.entries
  BY <1>1 DEF VmInv, Restores
<1> QED
  BY <1>1, <1>3, <1>4, <1>5, RefilledHolds

LEMMA ActorHolds == ASSUME VmInv, NEW c \in Callers, Moves(c) PROVE Holds(c)'
<1>1. CASE Vm!Register(c) \/ Vm!Return(c) \/ Vm!Fail(c)
  <2>1. caller \in [Callers -> Calls]
    BY CallFacts
  <2>2. caller'[c].at = "idle"
    BY <1>1, <2>1, IdleFacts DEF Vm!Register, Vm!Return, Vm!Fail
  <2> QED
    BY <2>2, IdleHolds
<1> QED
  BY <1>1, SnapshotHolds, RestoreHolds, CopyFileHolds, CopyBackHolds, ReadEntryHolds,
     ClearHolds, InsertHolds, CommitHolds, ReadCounterHolds, PutHolds, RecreateHolds,
     StoreCounterHolds DEF Moves

\* Where a caller is, for those who ask whose snapshot an id is.
SamePlace(c) ==
    /\ caller'[c].id = caller[c].id
    /\ caller'[c].at \in Taking => caller[c].at \in Taking
    /\ caller'[c].at \in Restoring => caller[c].at \in Restoring
    /\ caller'[c].at = "cache" <=> caller[c].at = "cache"

LEMMA UnmovedPlace == ASSUME NEW c \in Callers, Unmoved(c) PROVE SamePlace(c)
BY DEF Unmoved, SamePlace

LEMMA TakesFacts ==
    ASSUME VmInv
    PROVE  /\ \A c \in Callers : caller[c].at \in Taking =>
                  /\ caller[c].id \notin cache
                  /\ caller[c].id \in DOMAIN manifests => caller[c].at = "cache"
           /\ \A c \in Callers : caller[c].at = "cache" => caller[c].id \in DOMAIN manifests
           /\ \A c, d \in Callers :
                  c # d /\ caller[c].at \in Taking /\ caller[d].at \in Taking \union Restoring
                  => caller[c].id # caller[d].id
           /\ \A c \in Callers : caller[c].at \in Taking \union Restoring => caller[c].id \in DOMAIN images
           /\ cache \subseteq DOMAIN manifests /\ DOMAIN manifests \subseteq DOMAIN images
<1>1. \A c \in Callers : caller[c].at \in Taking \union Restoring => caller[c].id \in DOMAIN images
  BY CallFacts
<1> QED
  BY <1>1 DEF VmInv, OneTakes, VmTypes

\* Nobody begins or registers a snapshot.
LEMMA NobodyTakes ==
    ASSUME VmInv, \A c \in Callers : caller'[c].at = "idle" \/ SamePlace(c), cache' \subseteq cache,
           DOMAIN manifests' \subseteq DOMAIN manifests,
           DOMAIN manifests \ DOMAIN manifests' \subseteq cache
    PROVE  OneTakes'
<1>1. "idle" \notin Taking \union Restoring /\ "cache" \in Taking
  BY DEF Taking, Restoring
<1>2. \A c \in Callers : caller'[c].at \in Taking \union Restoring => SamePlace(c)
  BY <1>1
<1>3. ASSUME NEW c \in Callers, caller'[c].at \in Taking
      PROVE  /\ caller'[c].id \notin cache'
             /\ caller'[c].id \in DOMAIN manifests' => caller'[c].at = "cache"
             /\ caller'[c].at = "cache" => caller'[c].id \in DOMAIN manifests'
  BY <1>2, <1>3, TakesFacts DEF SamePlace
<1>4. ASSUME NEW c \in Callers, NEW d \in Callers, c # d, caller'[c].at \in Taking,
             caller'[d].at \in Taking \union Restoring
      PROVE  caller'[c].id # caller'[d].id
  BY <1>2, <1>4, TakesFacts DEF SamePlace
<1> QED
  BY <1>1, <1>3, <1>4 DEF OneTakes

LEMMA OneTakesTurns == ASSUME VmInv, Turns PROVE OneTakes'
<1> USE DEF Vm!machine, Vm!disks, Vm!kv
<1>1. \A d \in Callers : SamePlace(d)
  BY RuntimeTurns, UnmovedPlace
<1>2. /\ cache' \subseteq cache /\ DOMAIN manifests' \subseteq DOMAIN manifests
      /\ DOMAIN manifests \ DOMAIN manifests' \subseteq cache
  <2>1. CASE manifests' = manifests /\ cache' = cache
    BY <2>1
  <2>2. ASSUME NEW id \in cache, Vm!Remove(id)
        PROVE  /\ cache' = cache \ {id} /\ DOMAIN manifests' = DOMAIN manifests \ {id}
    BY <2>2 DEF Vm!Remove, Vm!Without
  <2>3. CASE \E id \in cache : Vm!Remove(id)
    BY <2>2, <2>3
  <2> QED
    BY <2>1, <2>3 DEF Turns, Vm!Create, Vm!SetEnds, Vm!Quiet, Vm!vmVars, Vm!Kill, Vm!Pause, Vm!Resume,
          Vm!SetStatus, Vm!Write, Vm!SetBegins, Vm!Delete
<1> QED
  BY <1>1, <1>2, NobodyTakes

LEMMA OneTakesMoves == ASSUME VmInv, NEW c \in Callers, Moves(c) PROVE OneTakes'
<1> USE DEF Vm!machine, Vm!disks, Vm!kv
<1>1. \A d \in Callers : d # c => SamePlace(d)
  BY Bystanders, UnmovedPlace
<1>2. caller \in [Callers -> Calls] /\ caller[c] \in Calls /\ images \in Seq(Images)
  BY CallFacts DEF VmInv, VmTypes
<1>3. "idle" \notin Taking \union Restoring /\ "cache" \in Taking
  BY DEF Taking, Restoring
<1> DEFINE r == caller[c]
           q == caller'[c]
<1>4. \* A caller that begins, or has come to the registry
      ASSUME \A d \in Callers \ {c} : caller[d].at \in Taking => caller[d].id \notin cache' \union {q.id},
             \A d \in Callers \ {c} : caller[d].at \in Restoring /\ q.at \in Taking => caller[d].id # q.id,
             cache \subseteq cache', DOMAIN manifests \subseteq DOMAIN manifests',
             \A d \in Callers \ {c} : caller[d].at \in Taking /\ caller[d].id \in DOMAIN manifests'
                 => caller[d].id \in DOMAIN manifests,
             q.at \in Taking => /\ q.id \notin cache'
                                /\ q.at = "cache" <=> q.id \in DOMAIN manifests'
      PROVE  OneTakes'
  <2> HIDE DEF q
  <2>1. ASSUME NEW d \in Callers, d # c, caller'[d].at \in Taking
        PROVE  /\ caller'[d].id \notin cache'
               /\ caller'[d].id \in DOMAIN manifests' => caller'[d].at = "cache"
               /\ caller'[d].at = "cache" => caller'[d].id \in DOMAIN manifests'
    BY <1>1, <1>4, <2>1, TakesFacts DEF SamePlace
  <2>2. ASSUME NEW d \in Callers, NEW e \in Callers, d # e, caller'[d].at \in Taking,
               caller'[e].at \in Taking \union Restoring
        PROVE  caller'[d].id # caller'[e].id
    <3>1. CASE d # c /\ e # c
      BY <1>1, <2>2, <3>1, TakesFacts DEF SamePlace
    <3>2. CASE d = c
      BY <1>1, <1>4, <2>2, <3>2 DEF SamePlace, q
    <3>3. CASE e = c
      BY <1>1, <1>4, <2>2, <3>3 DEF SamePlace, q
    <3> QED
      BY <3>1, <3>2, <3>3
  <2> QED
    BY <1>3, <1>4, <2>1, <2>2 DEF OneTakes, q
<1>5. CASE \E b \in DOMAIN boxes : Vm!Snapshot(c, b)
  <2>1. /\ q.at = "copy" /\ q.id = Len(images) + 1 /\ cache' = cache /\ manifests' = manifests
    BY <1>2, <1>5, Appended, ImageFacts DEF Vm!Snapshot, Vm!Idle
  <2>2. q.id \notin DOMAIN images
    BY <1>2, <2>1, Positions
  <2> HIDE DEF q
  <2> QED
    BY <1>4, <2>1, <2>2, TakesFacts DEF Taking
<1>6. CASE \E id \in cache : Vm!Restore(c, id)
  <2>1. /\ q.at = "create" /\ q.id \in cache /\ cache' = cache /\ manifests' = manifests
    BY <1>2, <1>6 DEF Vm!Restore, Vm!Idle
  <2> HIDE DEF q
  <2> QED
    BY <1>4, <2>1, TakesFacts DEF Taking
<1>7. CASE Vm!Put(c)
  <2>1. /\ r.at = "put" /\ q = [r EXCEPT !.at = "cache"] /\ cache' = cache
        /\ DOMAIN manifests' = DOMAIN manifests \union {r.id}
    BY <1>2, <1>7 DEF Vm!Put, Vm!With
  <2>2. q.at = "cache" /\ q.id = r.id
    <3> HIDE DEF q, r
    <3> QED
      BY <1>2, <2>1 DEF Calls, r
  <2> HIDE DEF q
  <2> QED
    BY <1>4, <2>1, <2>2, TakesFacts DEF Taking
<1>8. CASE Vm!Register(c)
  <2>1. /\ r.at = "cache" /\ q.at = "idle" /\ cache' = cache \union {r.id}
        /\ manifests' = manifests /\ q.id = 0
    BY <1>2, <1>8, IdleFacts DEF Vm!Register
  <2>2. \A d \in Callers : caller[d].at \in Taking => caller[d].id # 0
    BY CallFacts
  <2>3. "idle" \notin Taking
    BY <1>3
  <2> HIDE DEF q
  <2> QED
    BY <1>3, <1>4, <2>1, <2>2, <2>3, TakesFacts
<1>9. ASSUME q.at = "idle" \/ SamePlace(c), cache' = cache, manifests' = manifests
      PROVE  OneTakes'
  BY <1>1, <1>9, NobodyTakes
<1>10. CASE Vm!Return(c) \/ Vm!Fail(c)
  <2>1. q.at = "idle" /\ cache' = cache /\ manifests' = manifests
    BY <1>2, <1>10, IdleFacts DEF Vm!Return, Vm!Fail
  <2> QED
    BY <1>9, <2>1
<1>11. CASE \/ \E f \in BoxFiles : Vm!CopyFile(c, f) \/ Vm!CopyBack(c, f)
            \/ \E k \in BoxKeys : Vm!ReadEntry(c, k) \/ Vm!Clear(c, k) \/ Vm!Insert(c, k)
            \/ Vm!Commit(c) \/ Vm!ReadCounter(c) \/ Vm!Recreate(c) \/ Vm!StoreCounter(c)
  <2>1. SamePlace(c)
    <3> DEFINE Goes(a) == q.id = r.id /\ q.at = a
    <3>1. DOMAIN Vm!Stirred = Callers /\ \A b : DOMAIN Vm!Touched(b) = Callers
      BY <1>2, Disturbed
    <3>2. \A a, l, e : /\ [r EXCEPT !.left = l, !.at = a].id = r.id
                       /\ [r EXCEPT !.left = l, !.at = a].at = a
                       /\ [[r EXCEPT !.left = l, !.at = a] EXCEPT !.entries = e].id = r.id
                       /\ [[r EXCEPT !.left = l, !.at = a] EXCEPT !.entries = e].at = a
                       /\ [r EXCEPT !.at = a, !.left = l].id = r.id
                       /\ [r EXCEPT !.at = a, !.left = l].at = a
                       /\ [r EXCEPT !.at = a, !.next = l].id = r.id
                       /\ [r EXCEPT !.at = a, !.next = l].at = a
                       /\ [r EXCEPT !.at = a].id = r.id /\ [r EXCEPT !.at = a].at = a
                       /\ [r EXCEPT !.box = e, !.at = a, !.left = l].id = r.id
                       /\ [r EXCEPT !.box = e, !.at = a, !.left = l].at = a
      <4>1. r \in Calls
        BY <1>2
      <4> HIDE DEF r
      <4> QED
        BY <4>1 DEF Calls
    <3>3. ASSUME NEW f \in BoxFiles, Vm!CopyFile(c, f) PROVE r.at = "copy" /\ (Goes("copy") \/ Goes("entries"))
      BY <1>2, <3>2, <3>3 DEF Vm!CopyFile, Vm!Step
    <3>4. ASSUME NEW f \in BoxFiles, Vm!CopyBack(c, f) PROVE r.at = "back" /\ (Goes("back") \/ Goes("clear"))
      BY <1>2, <3>1, <3>2, <3>4 DEF Vm!CopyBack, Vm!Step
    <3>5. ASSUME NEW k \in BoxKeys, Vm!ReadEntry(c, k)
          PROVE  r.at = "entries" /\ (Goes("entries") \/ Goes("counter"))
      BY <1>2, <3>2, <3>5 DEF Vm!ReadEntry, Vm!Step
    <3>6. ASSUME NEW k \in BoxKeys, Vm!Clear(c, k)
          PROVE  r.at = "clear" /\ (Goes("clear") \/ Goes("insert") \/ Goes("next"))
      BY <1>2, <3>1, <3>2, <3>6 DEF Vm!Clear, Vm!Step
    <3>7. ASSUME NEW k \in BoxKeys, Vm!Insert(c, k) PROVE r.at = "insert" /\ (Goes("insert") \/ Goes("next"))
      BY <1>2, <3>1, <3>2, <3>7 DEF Vm!Insert, Vm!Step
    <3>8. ASSUME Vm!Commit(c) PROVE r.at = "copy" /\ Goes("entries")
      BY <1>2, <3>2, <3>8 DEF Vm!Commit
    <3>9. ASSUME Vm!ReadCounter(c) PROVE r.at = "counter" /\ Goes("put")
      BY <1>2, <3>2, <3>9 DEF Vm!ReadCounter
    <3>10. ASSUME Vm!Recreate(c) PROVE r.at = "create" /\ (Goes("back") \/ Goes("clear"))
      <4>1. PICK a \in {"back", "clear"} : \E l, n :
               caller'[c] = [caller[c] EXCEPT !.box = n, !.at = a, !.left = l]
        BY <1>2, <3>10, RecreateEffect
      <4>2. q.id = r.id /\ q.at = a
        BY <3>2, <4>1
      <4>3. r.at = "create"
        BY <1>2, <3>10, RecreateEffect
      <4> QED
        BY <4>2, <4>3
    <3>11. ASSUME Vm!StoreCounter(c) PROVE r.at = "next" /\ Goes("restored")
      BY <1>2, <3>1, <3>2, <3>11 DEF Vm!StoreCounter
    <3> QED
      BY <1>11, <3>3, <3>4, <3>5, <3>6, <3>7, <3>8, <3>9, <3>10, <3>11
      DEF SamePlace, Taking, Restoring
  <2>2. cache' = cache /\ manifests' = manifests
    BY <1>11 DEF Vm!CopyFile, Vm!CopyBack, Vm!ReadEntry, Vm!Clear, Vm!Insert, Vm!Commit,
                 Vm!ReadCounter, Vm!Recreate, Vm!StoreCounter
  <2> QED
    BY <1>9, <2>1, <2>2
<1> QED
  BY <1>5, <1>6, <1>7, <1>8, <1>10, <1>11 DEF Moves

\* What is known stays as it is, or is forgotten.
LEMMA KnownStay ==
    ASSUME VmInv,
           \A id \in DOMAIN manifests : images'[id] = images[id] /\ taken'[id] = taken[id],
           \A id \in DOMAIN manifests' : id \in DOMAIN manifests /\ manifests'[id] = manifests[id]
    PROVE  KnownAreTrue'
<1>1. \A id \in DOMAIN manifests :
          TrueImage(id) /\ TrueStore(id, manifests[id].entries, manifests[id].next)
  BY DEF VmInv, KnownAreTrue
<1> QED
  BY <1>1 DEF KnownAreTrue, TrueImage, TrueStore

LEMMA KnownTurns == ASSUME VmInv, Turns PROVE KnownAreTrue'
<1> USE DEF Vm!machine, Vm!disks, Vm!kv
<1>1. images' = images /\ taken' = taken
  BY DEF Turns, Vm!Create, Vm!SetEnds, Vm!Quiet, Vm!vmVars, Vm!Kill, Vm!Pause, Vm!Resume,
         Vm!SetStatus, Vm!Write, Vm!SetBegins, Vm!Delete, Vm!Remove
<1>2. manifests' = manifests \/ \E id \in cache : manifests' = Vm!Without(manifests, id)
  BY DEF Turns, Vm!Create, Vm!SetEnds, Vm!Quiet, Vm!vmVars, Vm!Kill, Vm!Pause, Vm!Resume,
         Vm!SetStatus, Vm!Write, Vm!SetBegins, Vm!Delete, Vm!Remove
<1>3. \A id \in DOMAIN manifests' : id \in DOMAIN manifests /\ manifests'[id] = manifests[id]
  BY <1>2 DEF Vm!Without
<1> QED
  BY <1>1, <1>3, KnownStay

LEMMA KnownMoves == ASSUME VmInv, NEW c \in Callers, Moves(c) PROVE KnownAreTrue'
<1> USE DEF Vm!machine, Vm!disks, Vm!kv
<1> DEFINE r == caller[c]
<1>1. /\ images \in Seq(Images) /\ taken \in Seq(Taken) /\ Len(taken) = Len(images)
      /\ boxes \in Seq(Boxed) /\ store \in Stores /\ counter \in Nat
  BY DEF VmInv, VmTypes, Taken, Boxed
<1>2. /\ DOMAIN manifests \subseteq DOMAIN images /\ DOMAIN taken = DOMAIN images
      /\ r.at \in Taking \ {"cache"} => r.id \notin DOMAIN manifests
  BY <1>1, TakesFacts, Positions
<1>3. CASE \E b \in DOMAIN boxes : Vm!Snapshot(c, b)
  <2>1. PICK b \in DOMAIN boxes : Vm!Snapshot(c, b)
    BY <1>3
  <2> DEFINE t == [files |-> boxes[b].files, entries |-> store, next |-> counter,
                   still |-> TRUE, calm |-> TRUE]
  <2>2. t \in Taken
    <3>1. boxes[b] \in Boxed
      BY <1>1, Positions
    <3> QED
      BY <1>1, <3>1 DEF Taken, Boxed
  <2>3. images' = Append(images, <<>>) /\ taken' = Append(taken, t) /\ manifests' = manifests
    BY <2>1 DEF Vm!Snapshot
  <2> HIDE DEF t
  <2>4. \A id \in DOMAIN images : images'[id] = images[id]
    BY <1>1, <2>3, Appended, ImageFacts
  <2>5. \A id \in DOMAIN taken : taken'[id] = taken[id]
    BY <1>1, <2>2, <2>3, Appended
  <2> QED
    BY <1>2, <2>3, <2>4, <2>5, KnownStay
<1>4. CASE Vm!Commit(c) \/ \E f \in BoxFiles : Vm!CopyFile(c, f)
  <2>1. /\ r.at = "copy" /\ taken' = taken /\ manifests' = manifests
        /\ \E i : images' = [images EXCEPT ![r.id] = i]
    BY <1>4 DEF Vm!Commit, Vm!CopyFile
  <2>2. \A id \in DOMAIN images : id # r.id => images'[id] = images[id]
    BY <2>1
  <2> QED
    BY <1>2, <2>1, <2>2, KnownStay DEF Taking
<1>5. CASE Vm!ReadCounter(c)
  <2>1. /\ r.at = "counter" /\ images' = images /\ manifests' = manifests
        /\ taken' = [taken EXCEPT ![r.id].still = r.still, ![r.id].calm = r.calm]
    BY <1>5 DEF Vm!ReadCounter
  <2>2. \A id \in DOMAIN taken : id # r.id => taken'[id] = taken[id]
    BY <2>1
  <2> QED
    BY <1>2, <2>1, <2>2, KnownStay DEF Taking
<1>6. CASE Vm!Put(c)
  <2>1. /\ r.at = "put" /\ images' = images /\ taken' = taken
        /\ manifests' = Vm!With(manifests, r.id, [entries |-> r.entries, next |-> r.next])
    BY <1>6 DEF Vm!Put
  <2>2. /\ DOMAIN manifests' = DOMAIN manifests \union {r.id}
        /\ manifests'[r.id].entries = r.entries /\ manifests'[r.id].next = r.next
        /\ \A id \in DOMAIN manifests : id # r.id => manifests'[id] = manifests[id]
    BY <2>1 DEF Vm!With
  <2>3. TrueImage(r.id) /\ TrueStore(r.id, r.entries, r.next)
    BY <2>1 DEF VmInv, Takes
  <2>4. \A id \in DOMAIN manifests :
            TrueImage(id) /\ TrueStore(id, manifests[id].entries, manifests[id].next)
    BY DEF VmInv, KnownAreTrue
  <2> HIDE DEF r
  <2> QED
    BY <2>1, <2>2, <2>3, <2>4 DEF KnownAreTrue, TrueImage, TrueStore
<1>7. CASE \/ \E id \in cache : Vm!Restore(c, id)
           \/ \E f \in BoxFiles : Vm!CopyBack(c, f)
           \/ \E k \in BoxKeys : Vm!ReadEntry(c, k) \/ Vm!Clear(c, k) \/ Vm!Insert(c, k)
           \/ Vm!Register(c) \/ Vm!Recreate(c) \/ Vm!StoreCounter(c) \/ Vm!Return(c) \/ Vm!Fail(c)
  <2>1. images' = images /\ taken' = taken /\ manifests' = manifests
    BY <1>7 DEF Vm!Restore, Vm!CopyBack, Vm!ReadEntry, Vm!Clear, Vm!Insert, Vm!Register,
                Vm!Recreate, Vm!StoreCounter, Vm!Return, Vm!Fail
  <2> QED
    BY <2>1, KnownStay
<1> QED
  BY <1>3, <1>4, <1>5, <1>6, <1>7 DEF Moves

LEMMA CrashHolds ==
    ASSUME VmInv, Vm!Crash
    PROVE  OneTakes' /\ KnownAreTrue' /\ \A c \in Callers : Holds(c)'
<1> USE DEF Vm!machine, Vm!disks, Vm!kv
<1>1. /\ \A c \in Callers : caller'[c].at = "idle"
      /\ images' = images /\ manifests' = manifests /\ taken' = taken
  BY IdleFacts DEF Vm!Crash
<1>2. OneTakes'
  BY <1>1 DEF OneTakes, Taking
<1>3. KnownAreTrue'
  BY <1>1, KnownStay
<1> QED
  BY <1>1, <1>2, <1>3, IdleHolds

LEMMA VmInitInv == ASSUME Vm!Init PROVE VmInv
<1>1. /\ \A c \in Callers : caller[c] = Vm!Idle
      /\ manifests = <<>> /\ cache = {}
  BY DEF Vm!Init
<1>2. OneTakes /\ KnownAreTrue
  BY <1>1, IdleFacts, StoreFacts DEF OneTakes, KnownAreTrue, Taking
<1>3. ASSUME NEW c \in Callers PROVE Place(caller[c]) /\ Takes(caller[c]) /\ Restores(caller[c])
  BY <1>1, IdleFacts DEF Place, Takes, Restores, Taking, Restoring
<1> QED
  BY <1>2, <1>3, VmInitTypes DEF VmInv

LEMMA VmStepInv == ASSUME BoxAssumption, VmInv, [Vm!Next]_(Vm!vmVars) PROVE VmInv'
<1>1. CASE Vm!Next
  <2>1. VmTypes'
    BY <1>1, VmTypesStep
  <2>2. CASE Turns
    <3>1. \A d \in Callers : Holds(d)'
      BY <2>2, RuntimeTurns, UnmovedHolds
    <3> QED
      BY <2>1, <2>2, <3>1, OneTakesTurns, KnownTurns DEF VmInv, Holds
  <2>3. CASE Vm!Crash
    BY <2>1, <2>3, CrashHolds DEF VmInv, Holds
  <2>4. ASSUME NEW c \in Callers, Moves(c) PROVE VmInv'
    <3>1. \A d \in Callers : d # c => Holds(d)'
      BY <2>4, Bystanders, UnmovedHolds
    <3>2. Holds(c)'
      BY <2>4, ActorHolds
    <3> QED
      BY <2>1, <2>4, <3>1, <3>2, OneTakesMoves, KnownMoves DEF VmInv, Holds
  <2> QED
    BY <1>1, <2>2, <2>3, <2>4, VmSteps
<1>2. CASE UNCHANGED Vm!vmVars
  <2>1. /\ backend' = backend /\ boxes' = boxes /\ store' = store /\ counter' = counter
        /\ setting' = setting /\ images' = images /\ origin' = origin /\ manifests' = manifests /\ cache' = cache
        /\ caller' = caller /\ stamp' = stamp /\ taken' = taken
    BY <1>2 DEF Vm!vmVars
  <2>2. VmTypes'
    BY <2>1 DEF VmInv, VmTypes, Vm!NoSet
  <2>3. OneTakes' /\ KnownAreTrue'
    BY <2>1, NobodyTakes, KnownStay DEF SamePlace
  <2>4. \A d \in Callers : Holds(d)'
    <3>1. \A d \in Callers : Unmoved(d)
      BY <2>1, CallFacts DEF Unmoved
    <3> QED
      BY <3>1, UnmovedHolds
  <2> QED
    BY <2>2, <2>3, <2>4 DEF VmInv, Holds
<1> QED
  BY <1>1, <1>2

\* What is known is whole, and what is restored is what was taken.
LEMMA SoundSnapshots == VmInv => SnapshotsAreSound
<1> SUFFICES ASSUME VmInv PROVE SnapshotsAreSound
  OBVIOUS
<1>1. Vm!ManifestsAreWhole
  BY DEF VmInv, VmTypes, KnownAreTrue, TrueImage, Vm!ManifestsAreWhole
<1>2. Vm!RestoresAreFaithful
  <2> SUFFICES ASSUME NEW c \in Callers, caller[c].at = "restored"
               PROVE  LET t == taken[caller[c].id] IN
                      /\ origin[caller[c].id] = backend /\ t.still /\ caller[c].still
                           => boxes[caller[c].box].files = t.files
                      /\ t.calm /\ caller[c].calm => store = t.entries /\ counter = t.next
    BY DEF Vm!RestoresAreFaithful
  <2>1. Restores(caller[c])
    BY DEF VmInv
  <2> QED
    BY <2>1 DEF Restores, Restoring, TrueImage, TrueStore
<1> QED
  BY <1>1, <1>2 DEF SnapshotsAreSound, Vm!SnapshotsAreSound

\* A snapshot that is known has all its files, after a restart too; and what is restored are
\* the entries there were when it was asked for, if nobody changed them meanwhile, and the
\* files, if the process that restores it has the backend that took it
\* (snapshot.rs, backends/local.rs, backends/docker.rs, primitives/kv.rs).
THEOREM SnapshotsHold == Vm!Spec => []SnapshotsAreSound
<1>1. Vm!Init => VmInv
  BY VmInitInv
<1>2. VmInv /\ [Vm!Next]_(Vm!vmVars) => VmInv'
  BY BoxAssumption, VmStepInv
<1> QED
  BY <1>1, <1>2, SoundSnapshots, PTL DEF Vm!Spec

-------------------------------------------------------------------------------
(* A session's transcript: its parts *)

\* what a writer is at
Writes == [pc : {"idle", "chosen", "line"}, part : Log!Parts \cup {0}, entry : Log!Pieces, clean : BOOLEAN]

\* the places of all parts
Held == Log!Places(Log!Parts)

LEMMA FileTypes ==
    ASSUME Log!TypeOK
    PROVE  /\ \A n \in Log!Parts : /\ file[n] \in Seq(Log!Pieces) /\ Len(file[n]) \in Nat
                                   /\ DOMAIN file[n] = 1..Len(file[n])
                                   /\ \A k \in 1..Len(file[n]) : file[n][k] \in Log!Pieces
           /\ Log!all_part_paths \subseteq Log!Parts
           /\ Log!Parts \subseteq Nat \ {0}
<1>1. ASSUME NEW n \in Log!Parts PROVE file[n] \in Seq(Log!Pieces)
  BY DEF Log!TypeOK
<1>2. ASSUME NEW n \in Log!Parts
      PROVE  /\ Len(file[n]) \in Nat /\ DOMAIN file[n] = 1..Len(file[n])
             /\ \A k \in 1..Len(file[n]) : file[n][k] \in Log!Pieces
  BY <1>1, LenProperties, ElementOfSeq
<1>3. exists \subseteq Log!Parts
  BY DEF Log!TypeOK
<1>4. Log!Parts \subseteq Nat \ {0}
  BY SessionAssumption DEF Log!Parts
<1> QED
  BY <1>1, <1>2, <1>3, <1>4 DEF Log!all_part_paths

LEMMA HeldFacts ==
    ASSUME Log!TypeOK
    PROVE  /\ \A p \in Held : /\ p = <<p[1], p[2]>> /\ p[1] \in Log!Parts /\ p[1] \in Nat
                              /\ p[2] \in Nat \ {0} /\ p[2] <= Len(file[p[1]])
                              /\ Log!At(p) \in Log!Pieces
           /\ \A n \in Log!Parts, k \in Nat \ {0} : k <= Len(file[n]) => <<n, k>> \in Held
           /\ Log!Content = {p \in Held : p[1] \in Log!all_part_paths}
<1>1. \A p : p \in Held <=> \E n \in Log!Parts : \E k \in 1..Len(file[n]) : p = <<n, k>>
  BY FileTypes DEF Held, Log!Places
<1>2. ASSUME NEW p \in Held
      PROVE  /\ p = <<p[1], p[2]>> /\ p[1] \in Log!Parts /\ p[1] \in Nat
             /\ p[2] \in Nat \ {0} /\ p[2] <= Len(file[p[1]])
             /\ Log!At(p) \in Log!Pieces
  <2>1. PICK n \in Log!Parts : \E k \in 1..Len(file[n]) : p = <<n, k>>
    BY <1>1
  <2>2. PICK k \in 1..Len(file[n]) : p = <<n, k>>
    BY <2>1
  <2>3. file[n][k] \in Log!Pieces /\ k \in Nat \ {0} /\ k <= Len(file[n]) /\ n \in Nat
    BY FileTypes
  <2> QED
    BY <2>2, <2>3 DEF Log!At
<1>3. \A n \in Log!Parts, k \in Nat \ {0} : k <= Len(file[n]) => <<n, k>> \in Held
  BY <1>1, FileTypes
<1>4. \A p : p \in Log!Content <=> \E n \in Log!all_part_paths : \E k \in 1..Len(file[n]) : p = <<n, k>>
  BY FileTypes DEF Log!Content, Log!Places
<1>5. Log!Content = {p \in Held : p[1] \in Log!all_part_paths}
  BY <1>1, <1>4, FileTypes
<1> QED
  BY <1>2, <1>3, <1>5

\* A piece appended to a part is at a new place; nothing else moves.
LEMMA PutFacts ==
    ASSUME Log!TypeOK, NEW n \in Log!Parts, NEW x, NEW k, k = Len(file[n]) + 1, Log!Put(n, x)
    PROVE  /\ Held' = Held \union {<<n, k>>} /\ <<n, k>> \notin Held
           /\ Log!At(<<n, k>>)' = x /\ \A p \in Held : Log!At(p)' = Log!At(p)
           /\ Len(file[n])' = k /\ \A m \in Log!Parts : m # n => Len(file[m])' = Len(file[m])
           /\ exists \subseteq exists' /\ Log!all_part_paths \subseteq Log!all_part_paths'
           /\ (\A m \in 2..(n - 1) : m \in exists) => n \in Log!all_part_paths'
<1> DEFINE new == <<n, k>>
<1>1. /\ file' = [file EXCEPT ![n] = Append(file[n], x)]
      /\ exists' = exists \union {n}
  BY DEF Log!Put
<1>2. /\ \A m \in Log!Parts : m # n => file'[m] = file[m]
      /\ file'[n] = Append(file[n], x)
  BY <1>1 DEF Log!TypeOK
<1>3. /\ Len(file'[n]) = Len(file[n]) + 1 /\ DOMAIN file'[n] = 1..(Len(file[n]) + 1)
      /\ file'[n][Len(file[n]) + 1] = x
      /\ \A j \in 1..Len(file[n]) : file'[n][j] = file[n][j]
  BY <1>2, FileTypes, AppendProperties
<1>4. \A p : p \in Held <=> \E m \in Log!Parts : \E j \in 1..Len(file[m]) : p = <<m, j>>
  BY FileTypes DEF Held, Log!Places
<1>5. \A p : p \in Held' <=> \E m \in Log!Parts : \E j \in DOMAIN file'[m] : p = <<m, j>>
  BY DEF Held, Log!Places, Log!Parts
<1>6. \A m \in Log!Parts : m # n => DOMAIN file'[m] = 1..Len(file[m])
  BY <1>2, FileTypes
<1>7. Held' = Held \union {new}
  <2>1. ASSUME NEW p \in Held PROVE p \in Held'
    <3>1. PICK m \in Log!Parts : \E j \in 1..Len(file[m]) : p = <<m, j>>
      BY <1>4
    <3>2. 1..Len(file[m]) \subseteq DOMAIN file'[m]
      BY <1>3, <1>6, FileTypes
    <3> QED
      BY <1>5, <3>1, <3>2
  <2>2. new \in Held'
    BY <1>3, <1>5, FileTypes
  <2>3. ASSUME NEW p \in Held', p # new PROVE p \in Held
    <3>1. PICK m \in Log!Parts : \E j \in DOMAIN file'[m] : p = <<m, j>>
      BY <1>5
    <3>2. PICK j \in DOMAIN file'[m] : p = <<m, j>>
      BY <3>1
    <3>3. j \in 1..Len(file[m])
      BY <1>3, <1>6, <2>3, <3>2, FileTypes
    <3> QED
      BY <1>4, <3>2, <3>3
  <2> QED
    BY <2>1, <2>2, <2>3
<1>8. new \notin Held
  BY <1>4, FileTypes
<1>9. ASSUME NEW p \in Held PROVE Log!At(p)' = Log!At(p)
  <2>1. PICK m \in Log!Parts : \E j \in 1..Len(file[m]) : p = <<m, j>>
    BY <1>4
  <2>2. PICK j \in 1..Len(file[m]) : p = <<m, j>>
    BY <2>1
  <2>3. file'[m][j] = file[m][j]
    BY <1>2, <1>3
  <2> QED
    BY <2>2, <2>3 DEF Log!At
<1>10. Log!At(new)' = x
  BY <1>3 DEF Log!At
<1>11. exists \subseteq exists' /\ Log!all_part_paths \subseteq Log!all_part_paths'
  BY <1>1 DEF Log!all_part_paths, Log!Contiguous
<1>12. ASSUME \A m \in 2..(n - 1) : m \in exists PROVE n \in Log!all_part_paths'
  <2>1. \A m \in 2..n : m = n \/ m \in 2..(n - 1)
    BY FileTypes
  <2> QED
    BY <1>1, <1>12, <2>1 DEF Log!all_part_paths, Log!Contiguous
<1> QED
  BY <1>2, <1>3, <1>7, <1>8, <1>9, <1>10, <1>11, <1>12

\* The same, without the place.
LEMMA PutAdds ==
    ASSUME Log!TypeOK, NEW n \in Log!Parts, NEW x, Log!Put(n, x)
    PROVE  /\ Held \subseteq Held' /\ \A p \in Held : Log!At(p)' = Log!At(p)
           /\ \A p \in Held' : p \in Held \/ Log!At(p)' = x
<1>1. PICK k : k = Len(file[n]) + 1
  OBVIOUS
<1> QED
  BY <1>1, PutFacts

\* What is in a part that is removed is gone; nothing else moves.
LEMMA RemoveFacts ==
    ASSUME Log!TypeOK, NEW n \in Log!Parts, file' = [file EXCEPT ![n] = << >>]
    PROVE  /\ Held' = {p \in Held : p[1] # n} /\ \A p \in Held' : Log!At(p)' = Log!At(p)
           /\ \A m \in Log!Parts : m # n => Len(file[m])' = Len(file[m])
<1>1. file'[n] = << >> /\ \A m \in Log!Parts : m # n => file'[m] = file[m]
  BY DEF Log!TypeOK
<1>2. \A p : p \in Held <=> \E m \in Log!Parts : \E k \in DOMAIN file[m] : p = <<m, k>>
  BY DEF Held, Log!Places
<1>3. \A p : p \in Held' <=> \E m \in Log!Parts : \E k \in DOMAIN file'[m] : p = <<m, k>>
  BY DEF Held, Log!Places, Log!Parts
<1>4. DOMAIN file'[n] = {}
  BY <1>1
<1>5. Held' = {p \in Held : p[1] # n}
  <2>1. ASSUME NEW p \in Held' PROVE p \in Held /\ p[1] # n
    <3>1. PICK m \in Log!Parts : \E k \in DOMAIN file'[m] : p = <<m, k>>
      BY <1>3
    <3>2. m # n
      BY <1>4, <3>1
    <3> QED
      BY <1>1, <1>2, <3>1, <3>2
  <2>2. ASSUME NEW p \in Held, p[1] # n PROVE p \in Held'
    <3>1. PICK m \in Log!Parts : \E k \in DOMAIN file[m] : p = <<m, k>>
      BY <1>2
    <3>2. m # n
      BY <2>2, <3>1
    <3> QED
      BY <1>1, <1>3, <3>1, <3>2
  <2> QED
    BY <2>1, <2>2
<1>6. ASSUME NEW p \in Held' PROVE Log!At(p)' = Log!At(p)
  <2>1. p[1] \in Log!Parts /\ p[1] # n
    BY <1>5, HeldFacts
  <2> QED
    BY <1>1, <2>1 DEF Log!At
<1> QED
  BY <1>1, <1>5, <1>6

\* A part is written only behind those that are read, and next to the last.
LEMMA ChosenPath ==
    ASSUME Log!TypeOK, NEW length, Log!WritePath(length) \in Log!Parts
    PROVE  /\ \A m \in 2..(Log!WritePath(length) - 1) : m \in exists
           /\ \A n \in Log!all_part_paths : n <= Log!WritePath(length)
<1> DEFINE S == {1} \union {n \in Log!Parts : n > 1 /\ Log!Contiguous(n)}
           cur == Log!current_write_path
<1>1. MaxParts \in Nat /\ S \subseteq Nat /\ 1 \in S /\ \A n \in S : n <= MaxParts
  BY SessionAssumption DEF Log!Parts
<1>2. \E n \in S : \A m \in S : n >= m
  <2>1. PICK i \in {MaxParts - n : n \in S} : \A j \in {MaxParts - n : n \in S} : i <= j
    <3>1. {MaxParts - n : n \in S} \subseteq Nat /\ {MaxParts - n : n \in S} # {}
      BY <1>1
    <3> QED
      BY <3>1, LeastIndex
  <2>2. PICK n \in S : i = MaxParts - n
    BY <2>1
  <2>3. ASSUME NEW m \in S PROVE n >= m
    <3>1. MaxParts - n <= MaxParts - m
      BY <2>1, <2>2
    <3> QED
      BY <1>1, <3>1
  <2> QED
    BY <2>3
<1>3. cur \in S /\ \A m \in S : cur >= m
  BY <1>2 DEF Log!current_write_path, Log!Max
<1>4. Log!WritePath(length) \in {cur, cur + 1}
  BY DEF Log!WritePath
<1>5. \A m \in 2..cur : m \in exists
  BY <1>1, <1>3 DEF Log!Contiguous
<1>6. \A m \in 2..(Log!WritePath(length) - 1) : m \in exists
  BY <1>1, <1>3, <1>4, <1>5
<1>7. ASSUME NEW n \in Log!all_part_paths PROVE n <= Log!WritePath(length)
  <2>1. n \in Log!Parts /\ Log!Contiguous(n)
    BY FileTypes DEF Log!all_part_paths
  <2>2. n \in S
    BY <2>1, FileTypes
  <2> QED
    BY <1>1, <1>3, <1>4, <2>2
<1> QED
  BY <1>6, <1>7

-------------------------------------------------------------------------------

\* Type correctness, operation by operation.
LEMMA InitTypes == ASSUME Log!Init PROVE Log!TypeOK
<1>1. << >> \in Seq(SUBSET acked) /\ Len(<< >>) = 0 /\ << >> \in Seq(Log!Pieces)
  BY EmptySeq
<1>2. Log!Idle \in Writes
  BY DEF Log!Idle, Log!Pieces, Writes
<1> QED
  BY <1>1, <1>2 DEF Log!Init, Log!TypeOK, Writes

\* Writing changes the parts it is about, and what has been acknowledged only grows.
LEMMA PutTypes ==
    ASSUME Log!TypeOK, NEW n \in Log!Parts, NEW x \in Log!Pieces, Log!Put(n, x)
    PROVE  file' \in [Log!Parts -> Seq(Log!Pieces)] /\ exists' = {m \in Log!Parts : file'[m] # << >>}
<1>1. file' = [file EXCEPT ![n] = Append(file[n], x)] /\ exists' = exists \union {n}
  BY DEF Log!Put
<1>2. Append(file[n], x) \in Seq(Log!Pieces) /\ Append(file[n], x) # << >>
  BY FileTypes, AppendProperties
<1> QED
  BY <1>1, <1>2 DEF Log!TypeOK

LEMMA BeginTypes == ASSUME Log!TypeOK, NEW w \in Writers, Log!Begin(w) PROVE Log!TypeOK'
<1>1. PICK e \in Log!Entries :
          /\ Log!WritePath(Log!Bytes(e)) \in Log!Parts
          /\ writer' = [writer EXCEPT ![w] = [pc |-> "chosen", part |-> Log!WritePath(Log!Bytes(e)),
                                              entry |-> e, clean |-> deleter = {}]]
  BY DEF Log!Begin
<1>2. written' = written + 1 /\ before' = Append(before, acked)
      /\ UNCHANGED <<Log!files, deleter, acked, cuts, deletes, overlaps, doomed, gone, kept>>
  BY DEF Log!Begin
<1>3. Log!Pieces \subseteq Log!Pieces' /\ written' \in Nat
  BY <1>2 DEF Log!TypeOK, Log!Pieces, Log!Newline, Log!Fragment, Log!Splinter, Log!Remains, Log!Piece
<1>4. e \in Log!Pieces'
  <2>1. CASE e = Log!Piece("message", written + 1, 0)
    BY <1>2, <2>1 DEF Log!TypeOK, Log!Pieces, Log!Piece
  <2>2. CASE e # Log!Piece("message", written + 1, 0)
    <3>1. PICK x \in acked : x.kind = "message" /\ e = Log!Piece("tombstone", written + 1, x.n)
      BY <2>2 DEF Log!Entries
    <3>2. x.n \in 1..written
      BY <3>1 DEF Log!TypeOK, Log!Pieces, Log!Piece, Log!Newline, Log!Fragment, Log!Splinter, Log!Remains
    <3> QED
      BY <1>2, <3>1, <3>2 DEF Log!TypeOK, Log!Pieces, Log!Piece
  <2> QED
    BY <2>1, <2>2
<1>5. file' \in [Log!Parts -> Seq(Log!Pieces')]
  <2>1. ASSUME NEW n \in Log!Parts PROVE file[n] \in Seq(Log!Pieces')
    <3>1. \A k \in 1..Len(file[n]) : file[n][k] \in Log!Pieces'
      BY <1>3, FileTypes
    <3>2. file[n] = [k \in 1..Len(file[n]) |-> file[n][k]]
      BY FileTypes
    <3> QED
      BY <3>1, <3>2, FileTypes, IsASeq
  <2>2. file' = [n \in Log!Parts |-> file[n]]
    BY <1>2 DEF Log!TypeOK, Log!files
  <2> QED
    BY <2>1, <2>2
<1>6. before' \in Seq(SUBSET acked') /\ Len(before') = written'
  BY <1>2, AppendProperties DEF Log!TypeOK
<1>7. writer' \in [Writers -> [pc : {"idle", "chosen", "line"}, part : Log!Parts \cup {0},
                               entry : Log!Pieces', clean : BOOLEAN]]
  BY <1>1, <1>3, <1>4 DEF Log!TypeOK
<1>8. exists' = {n \in Log!Parts : file'[n] # << >>} /\ deleter' \subseteq Log!Parts
      /\ cuts' \in Nat /\ deletes' \in Nat /\ overlaps' \in Nat
      /\ acked' \subseteq Log!Pieces' /\ kept' \subseteq acked'
      /\ doomed' \subseteq Log!Pieces' /\ gone' \subseteq Log!Pieces'
  BY <1>2, <1>3 DEF Log!TypeOK, Log!files
<1> QED
  BY <1>3, <1>5, <1>6, <1>7, <1>8 DEF Log!TypeOK, Log!Parts

-------------------------------------------------------------------------------
(* A session's transcript: the inductive invariant *)

IsEntry(x) == x.kind \in {"message", "tombstone"}

\* An entry that is being written is nowhere before its line is, and in its part, if that is still
\* there, until its newline is; nobody else writes it.
Apiece ==
    /\ \A p, q \in Held : Log!At(p) = Log!At(q) /\ IsEntry(Log!At(p)) => p = q
    /\ \A x \in acked : IsEntry(x)
    /\ \A w \in Writers : writer[w].pc # "idle" => IsEntry(writer[w].entry) /\ writer[w].entry \notin acked
    /\ \A w \in Writers : writer[w].pc = "chosen" =>
          /\ writer[w].part # 0 /\ writer[w].entry \notin doomed \union gone
          /\ \A p \in Held : Log!At(p) # writer[w].entry
    /\ \A w \in Writers : writer[w].pc = "line" =>
          IF writer[w].part = 0 THEN \A p \in Held : Log!At(p) # writer[w].entry
          ELSE \E p \in Held : p[1] = writer[w].part /\ Log!At(p) = writer[w].entry
    /\ \A v, w \in Writers : writer[v].pc # "idle" /\ writer[w].pc # "idle" /\ v # w =>
          writer[v].entry # writer[w].entry

\* Behind an acknowledged entry something follows in its part.
Followed == \A p \in Held : Log!At(p) \in acked => p[2] < Len(file[p[1]])

\* What is kept can be read, and what is about to be will be.
Keeping ==
    /\ \A x \in kept : \E p \in Log!Content : Log!At(p) = x
    /\ deleter # {} => kept = {} /\ \A w \in Writers : ~writer[w].clean
    /\ \A w \in Writers : writer[w].clean =>
          /\ writer[w].pc = "chosen" => \A m \in 2..(writer[w].part - 1) : m \in exists
          /\ writer[w].pc = "line" => writer[w].part \in Log!all_part_paths

\* What a deletion has to remove is in the parts it has still to remove.
Removing ==
    /\ deleter # {} => \A p \in Held : Log!At(p) \in doomed /\ IsEntry(Log!At(p)) => p[1] \in deleter
    /\ \A p \in Held : Log!At(p) \in gone => ~IsEntry(Log!At(p))

\* An entry that is kept, or that will be when its newline is written.
Current(x) == x \in kept \/ \E w \in Writers : writer[w].pc = "line" /\ writer[w].clean /\ writer[w].entry = x

\* What was kept before an entry was begun stands before it.
Ordered ==
    /\ \A p, q \in Held :
          Log!At(p) \in kept /\ IsEntry(Log!At(q)) /\ Current(Log!At(q)) /\ Log!At(p) \in before[Log!At(q).n] =>
          Log!Precedes(p, q)
    /\ \A w \in Writers : writer[w].pc = "chosen" /\ writer[w].clean =>
          \A p \in Held : Log!At(p) \in kept /\ Log!At(p) \in before[writer[w].entry.n] => p[1] <= writer[w].part

\* Pieces whose newline nobody will write, and those put behind one whose newline came, or comes, later.
Stubs ==
    {p \in Held : /\ Log!At(p) # Log!Newline /\ Log!At(p) \notin acked
                  /\ \A w \in Writers : writer[w].pc = "line" => writer[w].entry # Log!At(p)}
Collisions ==
    {p \in Held : /\ p[2] > 1 /\ Log!At(p) # Log!Newline /\ Log!At(<<p[1], p[2] - 1>>) # Log!Newline
                  /\ <<p[1], p[2] - 1>> \notin Stubs}

Counted ==
    /\ IsFiniteSet(Stubs) /\ Cardinality(Stubs) <= cuts
    /\ IsFiniteSet(Collisions) /\ Cardinality(Collisions) <= overlaps
    /\ IsFiniteSet(Log!Halfway)

SessionInv == Log!TypeOK /\ Apiece /\ Followed /\ Keeping /\ Removing /\ Ordered /\ Counted

-------------------------------------------------------------------------------

\* Where a call is, and what of a writer changes.
LEMMA WriterFacts ==
    ASSUME Log!TypeOK, NEW w \in Writers
    PROVE  /\ writer[w].pc \in {"idle", "chosen", "line"} /\ writer[w].part \in Log!Parts \union {0}
           /\ writer[w].entry \in Log!Pieces /\ writer[w].clean \in BOOLEAN
           /\ Log!Idle \in Writes
           /\ Log!Newline \in Log!Pieces /\ Log!Remains \subseteq Log!Pieces
<1>1. writer[w] \in Writes
  BY DEF Log!TypeOK, Writes
<1>2. Log!Newline \in Log!Pieces /\ Log!Remains \subseteq Log!Pieces
  BY DEF Log!Pieces
<1> QED
  BY <1>1, <1>2 DEF Log!Idle, Writes

LEMMA LineTypes == ASSUME Log!TypeOK, Apiece, NEW w \in Writers, Log!Line(w) PROVE Log!TypeOK'
<1>1. /\ Log!Put(writer[w].part, writer[w].entry) /\ writer' = [writer EXCEPT ![w].pc = "line"]
      /\ overlaps' = overlaps + (IF Log!Unfinished(w) THEN 1 ELSE 0)
      /\ UNCHANGED <<deleter, written, acked, cuts, deletes, before, doomed, gone, kept>>
  BY DEF Log!Line
<1>2. writer[w].part \in Log!Parts /\ writer[w].entry \in Log!Pieces
  BY WriterFacts DEF Log!Line, Apiece
<1>3. file' \in [Log!Parts -> Seq(Log!Pieces)] /\ exists' = {m \in Log!Parts : file'[m] # << >>}
  BY <1>1, <1>2, PutTypes
<1>4. Log!Pieces' = Log!Pieces /\ overlaps' \in Nat
  BY <1>1 DEF Log!TypeOK, Log!Pieces, Log!Newline, Log!Fragment, Log!Splinter, Log!Remains, Log!Piece
<1>5. writer' \in [Writers -> Writes]
  BY <1>1 DEF Log!TypeOK, Writes
<1> QED
  BY <1>1, <1>3, <1>4, <1>5 DEF Log!TypeOK, Log!Parts, Writes

LEMMA EndTypes == ASSUME Log!TypeOK, NEW w \in Writers, Log!End(w) PROVE Log!TypeOK'
<1>1. /\ IF writer[w].part = 0 THEN UNCHANGED Log!files ELSE Log!Put(writer[w].part, Log!Newline)
      /\ writer' = [writer EXCEPT ![w] = Log!Idle]
      /\ acked' = acked \cup {writer[w].entry}
      /\ kept' = IF writer[w].clean THEN kept \cup {writer[w].entry} ELSE kept
      /\ UNCHANGED <<deleter, written, cuts, deletes, overlaps, before, doomed, gone>>
  BY DEF Log!End
<1>2. Log!Pieces' = Log!Pieces
  BY <1>1 DEF Log!Pieces, Log!Newline, Log!Fragment, Log!Splinter, Log!Remains, Log!Piece
<1>3. file' \in [Log!Parts -> Seq(Log!Pieces)] /\ exists' = {m \in Log!Parts : file'[m] # << >>}
  <2>1. CASE writer[w].part = 0
    BY <1>1, <2>1 DEF Log!TypeOK, Log!files
  <2>2. CASE writer[w].part # 0
    BY <1>1, <2>2, PutTypes, WriterFacts
  <2> QED
    BY <2>1, <2>2
<1>4. writer' \in [Writers -> Writes]
  BY <1>1, WriterFacts DEF Log!TypeOK, Writes
<1>5. acked' \subseteq Log!Pieces /\ kept' \subseteq acked'
  BY <1>1, WriterFacts DEF Log!TypeOK
<1>6. before' \in Seq(SUBSET acked')
  <2>1. before \in Seq(SUBSET acked)
    BY DEF Log!TypeOK
  <2>2. Len(before) \in Nat /\ before = [k \in 1..Len(before) |-> before[k]]
        /\ \A k \in 1..Len(before) : before[k] \in SUBSET acked
    BY <2>1, LenProperties, ElementOfSeq
  <2>3. \A k \in 1..Len(before) : before[k] \in SUBSET acked'
    BY <1>1, <2>2
  <2>4. before \in Seq(SUBSET acked')
    BY <2>2, <2>3, IsASeq
  <2> QED
    BY <1>1, <2>4
<1> QED
  BY <1>1, <1>2, <1>3, <1>4, <1>5, <1>6 DEF Log!TypeOK, Log!Parts, Writes

LEMMA CutTypes == ASSUME Log!TypeOK, Apiece, NEW w \in Writers, Log!Cut(w) PROVE Log!TypeOK'
<1>1. /\ writer' = [writer EXCEPT ![w] = Log!Idle] /\ cuts' = cuts + 1
      /\ UNCHANGED <<deleter, written, acked, deletes, before, doomed, gone, kept>>
  BY DEF Log!Cut
<1>2. Log!Pieces' = Log!Pieces
  BY <1>1 DEF Log!Pieces, Log!Newline, Log!Fragment, Log!Splinter, Log!Remains, Log!Piece
<1>3. /\ file' \in [Log!Parts -> Seq(Log!Pieces)] /\ exists' = {m \in Log!Parts : file'[m] # << >>}
      /\ overlaps' \in Nat
  <2>1. CASE writer[w].pc = "line"
    BY <2>1 DEF Log!Cut, Log!TypeOK, Log!files
  <2>2. CASE writer[w].pc = "chosen"
    <3>1. /\ \E rest \in Log!Remains : Log!Put(writer[w].part, rest)
          /\ overlaps' = overlaps + (IF Log!Unfinished(w) THEN 1 ELSE 0)
      BY <2>2 DEF Log!Cut
    <3>2. writer[w].part \in Log!Parts
      BY <2>2, WriterFacts DEF Apiece
    <3> QED
      BY <3>1, <3>2, PutTypes, WriterFacts DEF Log!TypeOK, Writes
  <2> QED
    BY <2>1, <2>2 DEF Log!Cut
<1>4. writer' \in [Writers -> Writes]
  BY <1>1, WriterFacts DEF Log!TypeOK, Writes
<1>5. cuts' \in Nat
  BY <1>1 DEF Log!TypeOK
<1> QED
  BY <1>1, <1>2, <1>3, <1>4, <1>5 DEF Log!TypeOK, Log!Parts, Writes

LEMMA DeletionTypes == ASSUME Log!TypeOK, Log!DeleteSession \/ Log!RemovePart \/ Log!DeleteStops PROVE Log!TypeOK'
<1>1. UNCHANGED <<written, acked, cuts, overlaps, before>> /\ Log!Pieces' = Log!Pieces
  BY DEF Log!DeleteSession, Log!RemovePart, Log!DeleteStops, Log!Pieces, Log!Newline, Log!Fragment, Log!Splinter, Log!Remains, Log!Piece
<1>2. CASE Log!DeleteSession
  <2>1. /\ deleter' = Log!all_part_paths /\ deletes' = deletes + 1
        /\ doomed' = {Log!At(p) : p \in Log!Content} /\ kept' = {}
        /\ writer' = [w \in Writers |-> [writer[w] EXCEPT !.clean = FALSE]]
        /\ file' = file /\ exists' = exists /\ gone' = gone
    BY <1>2 DEF Log!DeleteSession, Log!files
  <2>2. doomed' \subseteq Log!Pieces /\ deleter' \subseteq Log!Parts
    BY <2>1, HeldFacts, FileTypes
  <2>3. writer' \in [Writers -> Writes]
    BY <2>1 DEF Log!TypeOK, Writes
  <2>4. deletes' \in Nat
    BY <2>1 DEF Log!TypeOK
  <2> QED
    BY <1>1, <2>1, <2>2, <2>3, <2>4 DEF Log!TypeOK, Log!Parts, Writes
<1>3. CASE Log!RemovePart
  <2>1. PICK n \in deleter :
          /\ exists' = exists \ {n} /\ file' = [file EXCEPT ![n] = << >>]
          /\ writer' = [w \in Writers |-> IF writer[w].pc = "line" /\ writer[w].part = n
                                          THEN [writer[w] EXCEPT !.part = 0] ELSE writer[w]]
          /\ deleter' = deleter \ {n}
    BY <1>3 DEF Log!RemovePart
  <2>2. gone' = (IF deleter' = {} THEN gone \cup doomed ELSE gone)
        /\ doomed' = (IF deleter' = {} THEN {} ELSE doomed) /\ kept' = kept /\ deletes' = deletes
    BY <1>3 DEF Log!RemovePart
  <2>3. file' \in [Log!Parts -> Seq(Log!Pieces)] /\ exists' = {m \in Log!Parts : file'[m] # << >>}
    <3>1. << >> \in Seq(Log!Pieces)
      BY EmptySeq
    <3> QED
      BY <2>1, <3>1 DEF Log!TypeOK
  <2>4. writer' \in [Writers -> Writes]
    <3>1. \A w \in Writers : writer[w] \in Writes
      BY DEF Log!TypeOK, Writes
    <3>2. \A w \in Writers : [writer[w] EXCEPT !.part = 0] \in Writes
      BY <3>1 DEF Writes
    <3> QED
      BY <2>1, <3>1, <3>2
  <2>5. deleter' \subseteq Log!Parts /\ gone' \subseteq Log!Pieces /\ doomed' \subseteq Log!Pieces
    BY <2>1, <2>2 DEF Log!TypeOK
  <2> QED
    BY <1>1, <2>2, <2>3, <2>4, <2>5 DEF Log!TypeOK, Log!Parts, Writes
<1>4. CASE Log!DeleteStops
  BY <1>1, <1>4 DEF Log!DeleteStops, Log!TypeOK, Log!files, Log!Parts
<1> QED
  BY <1>2, <1>3, <1>4

-------------------------------------------------------------------------------
(* An entry is in one place. *)

\* An entry whose write begins is none of those there are.
LEMMA NewEntry ==
    ASSUME Log!TypeOK, NEW e \in Log!Entries
    PROVE  IsEntry(e) /\ e.n = written + 1 /\ e \notin Log!Pieces
<1>1. IsEntry(e) /\ e.n = written + 1
  BY DEF Log!Entries, Log!Piece, IsEntry
<1>2. \A x \in Log!Pieces : x.n # written + 1
  BY DEF Log!TypeOK, Log!Pieces, Log!Piece, Log!Newline, Log!Fragment, Log!Splinter, Log!Remains
<1> QED
  BY <1>1, <1>2

\* Parts that do not change hold what they held.
LEMMA SameFiles ==
    ASSUME UNCHANGED file
    PROVE  Held' = Held /\ (\A p : Log!At(p)' = Log!At(p)) /\ \A n : Len(file[n])' = Len(file[n])
BY DEF Held, Log!Places, Log!At, Log!Parts

LEMMA PlainPieces ==
    /\ ~IsEntry(Log!Newline)
    /\ \A rest \in Log!Remains : ~IsEntry(rest) /\ rest # Log!Newline
    /\ \A x : IsEntry(x) => x # Log!Newline /\ x \notin Log!Remains
BY DEF IsEntry, Log!Newline, Log!Fragment, Log!Splinter, Log!Remains, Log!Piece

\* What a writer becomes.
LEMMA WriterChanges ==
    ASSUME Log!TypeOK, NEW w \in Writers, NEW r, writer' = [writer EXCEPT ![w] = r]
    PROVE  writer'[w] = r /\ \A v \in Writers : v # w => writer'[v] = writer[v]
BY DEF Log!TypeOK

\* What each operation changes, field by field.
LEMMA BeginFacts ==
    ASSUME Log!TypeOK, NEW w \in Writers, Log!Begin(w)
    PROVE  /\ \E e \in Log!Entries : /\ e \notin Log!Pieces /\ IsEntry(e) /\ e.n = written + 1
                                     /\ writer'[w].pc = "chosen" /\ writer'[w].entry = e
                                     /\ writer'[w].part \in Log!Parts /\ writer'[w].part # 0
                                     /\ writer'[w].clean = (deleter = {})
                                     /\ \A m \in 2..(writer'[w].part - 1) : m \in exists
                                     /\ \A n \in Log!all_part_paths : n <= writer'[w].part
           /\ \A v \in Writers : v # w => writer'[v] = writer[v]
           /\ writer[w].pc = "idle" /\ written' = written + 1 /\ before' = Append(before, acked)
           /\ file' = file /\ exists' = exists
           /\ UNCHANGED <<deleter, acked, cuts, deletes, overlaps, doomed, gone, kept>>
<1>1. PICK e \in Log!Entries :
          /\ Log!WritePath(Log!Bytes(e)) \in Log!Parts
          /\ writer' = [writer EXCEPT ![w] = [pc |-> "chosen", part |-> Log!WritePath(Log!Bytes(e)),
                                              entry |-> e, clean |-> deleter = {}]]
  BY DEF Log!Begin
<1>2. writer'[w] = [pc |-> "chosen", part |-> Log!WritePath(Log!Bytes(e)), entry |-> e, clean |-> deleter = {}]
      /\ \A v \in Writers : v # w => writer'[v] = writer[v]
  BY <1>1, WriterChanges
<1>3. writer'[w].pc = "chosen" /\ writer'[w].part = Log!WritePath(Log!Bytes(e)) /\ writer'[w].entry = e
      /\ writer'[w].clean = (deleter = {})
  BY <1>2
<1>4. writer'[w].part \in Log!Parts /\ writer'[w].part # 0
  BY <1>1, <1>3, FileTypes
<1>5. /\ \A m \in 2..(writer'[w].part - 1) : m \in exists
      /\ \A n \in Log!all_part_paths : n <= writer'[w].part
  BY <1>1, <1>3, ChosenPath
<1> QED
  BY <1>2, <1>3, <1>4, <1>5, NewEntry DEF Log!Begin, Log!files

LEMMA BeginApiece == ASSUME Log!TypeOK, Apiece, NEW w \in Writers, Log!Begin(w) PROVE Apiece'
<1>1. PICK e \in Log!Entries : /\ e \notin Log!Pieces /\ IsEntry(e)
                               /\ writer'[w].pc = "chosen" /\ writer'[w].entry = e /\ writer'[w].part # 0
  BY BeginFacts
<1>2. /\ \A v \in Writers : v # w => writer'[v] = writer[v]
      /\ file' = file /\ acked' = acked /\ doomed' = doomed /\ gone' = gone
  BY BeginFacts
<1>3. Held' = Held /\ \A p : Log!At(p)' = Log!At(p)
  BY <1>2, SameFiles
<1>4. e \notin acked /\ e \notin doomed \union gone /\ (\A p \in Held : Log!At(p) # e)
      /\ \A v \in Writers : writer[v].entry # e
  BY <1>1, HeldFacts, WriterFacts DEF Log!TypeOK
<1> QED
  BY <1>1, <1>2, <1>3, <1>4 DEF Apiece

LEMMA LineFacts ==
    ASSUME Log!TypeOK, Apiece, NEW w \in Writers, Log!Line(w)
    PROVE  /\ Log!Put(writer[w].part, writer[w].entry) /\ writer[w].part \in Log!Parts
           /\ writer'[w].pc = "line" /\ writer'[w].entry = writer[w].entry
           /\ writer'[w].part = writer[w].part /\ writer'[w].clean = writer[w].clean
           /\ \A v \in Writers : v # w => writer'[v] = writer[v]
           /\ overlaps' = overlaps + (IF Log!Unfinished(w) THEN 1 ELSE 0) /\ writer[w].pc = "chosen"
           /\ UNCHANGED <<deleter, written, acked, cuts, deletes, before, doomed, gone, kept>>
<1>1. /\ Log!Put(writer[w].part, writer[w].entry) /\ writer' = [writer EXCEPT ![w].pc = "line"]
      /\ overlaps' = overlaps + (IF Log!Unfinished(w) THEN 1 ELSE 0) /\ writer[w].pc = "chosen"
      /\ UNCHANGED <<deleter, written, acked, cuts, deletes, before, doomed, gone, kept>>
  BY DEF Log!Line
<1>2. writer[w].part \in Log!Parts
  BY <1>1, WriterFacts DEF Apiece
<1>3. writer[w] \in Writes
      /\ writer'[w] = [writer[w] EXCEPT !.pc = "line"]
      /\ \A v \in Writers : v # w => writer'[v] = writer[v]
  BY <1>1 DEF Log!TypeOK, Writes
<1>4. writer'[w].pc = "line" /\ writer'[w].entry = writer[w].entry
      /\ writer'[w].part = writer[w].part /\ writer'[w].clean = writer[w].clean
  BY <1>3
<1> QED
  BY <1>1, <1>2, <1>3, <1>4

LEMMA LineApiece == ASSUME Log!TypeOK, Apiece, NEW w \in Writers, Log!Line(w) PROVE Apiece'
<1>1. PICK n, e, k : n = writer[w].part /\ e = writer[w].entry /\ k = Len(file[n]) + 1
  OBVIOUS
<1>2. /\ writer'[w].pc = "line" /\ writer'[w].entry = e /\ writer'[w].part = n /\ n \in Log!Parts /\ n # 0
      /\ \A v \in Writers : v # w => writer'[v] = writer[v]
      /\ acked' = acked /\ doomed' = doomed /\ gone' = gone
      /\ Log!Put(n, e) /\ writer[w].pc = "chosen"
  BY <1>1, LineFacts DEF Apiece
<1>3. /\ Held' = Held \union {<<n, k>>} /\ <<n, k>> \notin Held
      /\ Log!At(<<n, k>>)' = e /\ \A p \in Held : Log!At(p)' = Log!At(p)
  BY <1>1, <1>2, PutFacts
<1>4. IsEntry(e) /\ e \notin acked /\ \A p \in Held : Log!At(p) # e
  BY <1>1, <1>2 DEF Apiece
<1>5. \A v \in Writers : v # w /\ writer[v].pc # "idle" => writer[v].entry # e
  BY <1>1, <1>2 DEF Apiece
<1>6. \A p, q \in Held' : Log!At(p)' = Log!At(q)' /\ IsEntry(Log!At(p)') => p = q
  BY <1>3, <1>4 DEF Apiece
<1>7. \A v \in Writers : writer'[v].pc # "idle" => IsEntry(writer'[v].entry) /\ writer'[v].entry \notin acked'
  BY <1>2, <1>4 DEF Apiece
<1>8. \A v \in Writers : writer'[v].pc = "chosen" =>
          /\ writer'[v].part # 0 /\ writer'[v].entry \notin doomed' \union gone'
          /\ \A p \in Held' : Log!At(p)' # writer'[v].entry
  BY <1>2, <1>3, <1>5 DEF Apiece
<1>9. ASSUME NEW v \in Writers, writer'[v].pc = "line"
      PROVE  IF writer'[v].part = 0 THEN \A p \in Held' : Log!At(p)' # writer'[v].entry
             ELSE \E p \in Held' : p[1] = writer'[v].part /\ Log!At(p)' = writer'[v].entry
  <2>1. CASE v = w
    <3>1. <<n, k>>[1] = n
      OBVIOUS
    <3> QED
      BY <1>2, <1>3, <2>1, <3>1
  <2>2. CASE v # w
    BY <1>2, <1>3, <1>5, <1>9, <2>2 DEF Apiece
  <2> QED
    BY <2>1, <2>2
<1>10. \A u, v \in Writers : writer'[u].pc # "idle" /\ writer'[v].pc # "idle" /\ u # v =>
          writer'[u].entry # writer'[v].entry
  BY <1>2, <1>5 DEF Apiece
<1>11. \A x \in acked' : IsEntry(x)
  BY <1>2 DEF Apiece
<1> QED
  BY <1>6, <1>7, <1>8, <1>9, <1>10, <1>11 DEF Apiece, IsEntry

LEMMA EndFacts ==
    ASSUME Log!TypeOK, NEW w \in Writers, Log!End(w)
    PROVE  /\ writer[w].pc = "line" /\ writer'[w].pc = "idle" /\ ~writer'[w].clean
           /\ \A v \in Writers : v # w => writer'[v] = writer[v]
           /\ writer[w].part = 0 => file' = file /\ exists' = exists
           /\ writer[w].part # 0 => Log!Put(writer[w].part, Log!Newline) /\ writer[w].part \in Log!Parts
           /\ acked' = acked \cup {writer[w].entry}
           /\ kept' = IF writer[w].clean THEN kept \cup {writer[w].entry} ELSE kept
           /\ UNCHANGED <<deleter, written, cuts, deletes, overlaps, before, doomed, gone>>
<1>1. writer' = [writer EXCEPT ![w] = Log!Idle]
  BY DEF Log!End
<1>2. writer'[w] = Log!Idle /\ \A v \in Writers : v # w => writer'[v] = writer[v]
  BY <1>1, WriterChanges
<1>3. writer'[w].pc = "idle" /\ ~writer'[w].clean
  BY <1>2 DEF Log!Idle
<1> QED
  BY <1>2, <1>3, WriterFacts DEF Log!End, Log!files

LEMMA EndApiece == ASSUME Log!TypeOK, Apiece, NEW w \in Writers, Log!End(w) PROVE Apiece'
<1>1. PICK n, e, k : n = writer[w].part /\ e = writer[w].entry /\ k = Len(file[n]) + 1
  OBVIOUS
<1>2. /\ writer[w].pc = "line" /\ writer'[w].pc = "idle"
      /\ \A v \in Writers : v # w => writer'[v] = writer[v]
      /\ acked' = acked \cup {e} /\ doomed' = doomed /\ gone' = gone
  BY <1>1, EndFacts
<1>3. IsEntry(e) /\ \A v \in Writers : v # w /\ writer[v].pc # "idle" => writer[v].entry # e
  BY <1>1, <1>2 DEF Apiece
<1>4. /\ Held \subseteq Held' /\ \A p \in Held : Log!At(p)' = Log!At(p)
      /\ \A p \in Held' : p \in Held \/ Log!At(p)' = Log!Newline
  <2>1. CASE n = 0
    BY <1>1, <2>1, EndFacts, SameFiles
  <2>2. CASE n # 0
    <3>1. Log!Put(n, Log!Newline) /\ n \in Log!Parts
      BY <1>1, <2>2, EndFacts
    <3> QED
      BY <1>1, <3>1, PutFacts
  <2> QED
    BY <2>1, <2>2
<1>5. \A p, q \in Held' : Log!At(p)' = Log!At(q)' /\ IsEntry(Log!At(p)') => p = q
  BY <1>4, PlainPieces DEF Apiece
<1>6. \A v \in Writers : writer'[v].pc # "idle" => IsEntry(writer'[v].entry) /\ writer'[v].entry \notin acked'
  BY <1>2, <1>3 DEF Apiece
<1>7. \A v \in Writers : writer'[v].pc = "chosen" =>
          /\ writer'[v].part # 0 /\ writer'[v].entry \notin doomed' \union gone'
          /\ \A p \in Held' : Log!At(p)' # writer'[v].entry
  BY <1>2, <1>4, PlainPieces DEF Apiece
<1>8. \A v \in Writers : writer'[v].pc = "line" =>
          IF writer'[v].part = 0 THEN \A p \in Held' : Log!At(p)' # writer'[v].entry
          ELSE \E p \in Held' : p[1] = writer'[v].part /\ Log!At(p)' = writer'[v].entry
  <2>1. \A v \in Writers : writer[v].pc = "line" => IsEntry(writer[v].entry)
    BY DEF Apiece
  <2> QED
    BY <1>2, <1>4, <2>1, PlainPieces DEF Apiece
<1>9. \A u, v \in Writers : writer'[u].pc # "idle" /\ writer'[v].pc # "idle" /\ u # v =>
          writer'[u].entry # writer'[v].entry
  BY <1>2 DEF Apiece
<1>10. \A x \in acked' : IsEntry(x)
  BY <1>2, <1>3 DEF Apiece
<1> QED
  BY <1>5, <1>6, <1>7, <1>8, <1>9, <1>10 DEF Apiece, IsEntry

LEMMA CutFacts ==
    ASSUME Log!TypeOK, Apiece, NEW w \in Writers, Log!Cut(w)
    PROVE  /\ writer'[w].pc = "idle" /\ ~writer'[w].clean
           /\ \A v \in Writers : v # w => writer'[v] = writer[v]
           /\ \/ /\ writer[w].pc = "line" /\ file' = file /\ exists' = exists /\ overlaps' = overlaps
              \/ /\ writer[w].pc = "chosen" /\ writer[w].part \in Log!Parts
                 /\ \E rest \in Log!Remains : Log!Put(writer[w].part, rest)
                 /\ overlaps' = overlaps + (IF Log!Unfinished(w) THEN 1 ELSE 0)
           /\ cuts' = cuts + 1
           /\ UNCHANGED <<deleter, written, acked, deletes, before, doomed, gone, kept>>
<1>1. writer' = [writer EXCEPT ![w] = Log!Idle]
  BY DEF Log!Cut
<1>2. writer'[w] = Log!Idle /\ \A v \in Writers : v # w => writer'[v] = writer[v]
  BY <1>1, WriterChanges
<1>3. writer'[w].pc = "idle" /\ ~writer'[w].clean
  BY <1>2 DEF Log!Idle
<1>4. writer[w].pc = "chosen" => writer[w].part \in Log!Parts
  BY WriterFacts DEF Apiece
<1> QED
  BY <1>2, <1>3, <1>4 DEF Log!Cut, Log!files

LEMMA CutApiece == ASSUME Log!TypeOK, Apiece, NEW w \in Writers, Log!Cut(w) PROVE Apiece'
<1>1. /\ writer'[w].pc = "idle" /\ \A v \in Writers : v # w => writer'[v] = writer[v]
      /\ acked' = acked /\ doomed' = doomed /\ gone' = gone
  BY CutFacts
<1>2. /\ Held \subseteq Held' /\ \A p \in Held : Log!At(p)' = Log!At(p)
      /\ \A p \in Held' : p \in Held \/ Log!At(p)' \in Log!Remains
  <2>1. CASE file' = file
    BY <2>1, SameFiles
  <2>2. CASE file' # file
    <3>1. PICK n : n = writer[w].part
      OBVIOUS
    <3>2. n \in Log!Parts /\ \E rest \in Log!Remains : Log!Put(n, rest)
      BY <2>2, <3>1, CutFacts
    <3> QED
      BY <3>2, PutAdds
  <2> QED
    BY <2>1, <2>2
<1>3. \A p, q \in Held' : Log!At(p)' = Log!At(q)' /\ IsEntry(Log!At(p)') => p = q
  BY <1>2, PlainPieces DEF Apiece
<1>4. \A v \in Writers : writer'[v].pc # "idle" => IsEntry(writer'[v].entry) /\ writer'[v].entry \notin acked'
  BY <1>1 DEF Apiece
<1>5. \A v \in Writers : writer[v].pc # "idle" => IsEntry(writer[v].entry)
  BY DEF Apiece
<1>6. \A v \in Writers : writer'[v].pc = "chosen" =>
          /\ writer'[v].part # 0 /\ writer'[v].entry \notin doomed' \union gone'
          /\ \A p \in Held' : Log!At(p)' # writer'[v].entry
  BY <1>1, <1>2, <1>5, PlainPieces DEF Apiece
<1>7. \A v \in Writers : writer'[v].pc = "line" =>
          IF writer'[v].part = 0 THEN \A p \in Held' : Log!At(p)' # writer'[v].entry
          ELSE \E p \in Held' : p[1] = writer'[v].part /\ Log!At(p)' = writer'[v].entry
  BY <1>1, <1>2, <1>5, PlainPieces DEF Apiece
<1>8. \A u, v \in Writers : writer'[u].pc # "idle" /\ writer'[v].pc # "idle" /\ u # v =>
          writer'[u].entry # writer'[v].entry
  BY <1>1 DEF Apiece
<1>9. \A x \in acked' : IsEntry(x)
  BY <1>1 DEF Apiece
<1> QED
  BY <1>3, <1>4, <1>6, <1>7, <1>8, <1>9 DEF Apiece, IsEntry

LEMMA DeleteFacts ==
    ASSUME Log!TypeOK, Log!DeleteSession
    PROVE  /\ deleter = {} /\ deleter' = Log!all_part_paths
           /\ doomed' = {Log!At(p) : p \in Log!Content} /\ kept' = {}
           /\ \A w \in Writers : /\ writer'[w].pc = writer[w].pc /\ writer'[w].entry = writer[w].entry
                                 /\ writer'[w].part = writer[w].part /\ ~writer'[w].clean
           /\ file' = file /\ exists' = exists
           /\ UNCHANGED <<written, acked, cuts, overlaps, before, gone>>
<1>1. \A w \in Writers : writer'[w] = [writer[w] EXCEPT !.clean = FALSE]
                         /\ writer[w] \in Writes
  BY DEF Log!TypeOK, Log!DeleteSession, Writes
<1> QED
  BY <1>1 DEF Log!DeleteSession, Log!files, Writes

LEMMA RemovalFacts ==
    ASSUME Log!TypeOK, Log!RemovePart
    PROVE  /\ \E n \in deleter :
                /\ n \in Log!Parts /\ n \in Nat /\ n # 0
                /\ exists' = exists \ {n} /\ file' = [file EXCEPT ![n] = << >>]
                /\ \A w \in Writers :
                      /\ writer'[w].pc = writer[w].pc /\ writer'[w].entry = writer[w].entry
                      /\ writer'[w].clean = writer[w].clean
                      /\ writer'[w].part = IF writer[w].pc = "line" /\ writer[w].part = n THEN 0 ELSE writer[w].part
                /\ deleter' = deleter \ {n}
           /\ gone' = (IF deleter' = {} THEN gone \cup doomed ELSE gone)
           /\ doomed' = (IF deleter' = {} THEN {} ELSE doomed)
           /\ UNCHANGED <<written, acked, cuts, deletes, overlaps, before, kept>>
<1>1. PICK n \in deleter :
          /\ exists' = exists \ {n} /\ file' = [file EXCEPT ![n] = << >>]
          /\ writer' = [w \in Writers |-> IF writer[w].pc = "line" /\ writer[w].part = n
                                          THEN [writer[w] EXCEPT !.part = 0] ELSE writer[w]]
          /\ deleter' = deleter \ {n}
  BY DEF Log!RemovePart
<1>2. n \in Log!Parts /\ n \in Nat /\ n # 0
  BY FileTypes DEF Log!TypeOK
<1>3. ASSUME NEW w \in Writers
      PROVE  /\ writer'[w].pc = writer[w].pc /\ writer'[w].entry = writer[w].entry
             /\ writer'[w].clean = writer[w].clean
             /\ writer'[w].part = IF writer[w].pc = "line" /\ writer[w].part = n THEN 0 ELSE writer[w].part
  <2>1. writer[w] \in Writes
    BY DEF Log!TypeOK, Writes
  <2>2. writer'[w] = IF writer[w].pc = "line" /\ writer[w].part = n
                     THEN [writer[w] EXCEPT !.part = 0] ELSE writer[w]
    BY <1>1
  <2> QED
    BY <2>1, <2>2
<1> QED
  BY <1>1, <1>2, <1>3 DEF Log!RemovePart

LEMMA DeletionApiece ==
    ASSUME Log!TypeOK, Apiece, Log!DeleteSession \/ Log!RemovePart \/ Log!DeleteStops
    PROVE  Apiece'
<1>1. CASE Log!DeleteSession
  <2>1. /\ doomed' = {Log!At(p) : p \in Log!Content}
        /\ \A w \in Writers : /\ writer'[w].pc = writer[w].pc /\ writer'[w].entry = writer[w].entry
                              /\ writer'[w].part = writer[w].part
        /\ Held' = Held /\ (\A p : Log!At(p)' = Log!At(p)) /\ acked' = acked /\ gone' = gone
    BY <1>1, DeleteFacts, SameFiles
  <2>2. \A x \in doomed' : \E p \in Held : Log!At(p) = x
    BY <2>1, HeldFacts
  <2>3. \A v \in Writers : writer'[v].pc = "chosen" =>
            /\ writer'[v].part # 0 /\ writer'[v].entry \notin doomed' \union gone'
            /\ \A p \in Held' : Log!At(p)' # writer'[v].entry
    BY <2>1, <2>2 DEF Apiece
  <2>4. \A v \in Writers : writer'[v].pc # "idle" => IsEntry(writer'[v].entry) /\ writer'[v].entry \notin acked'
    BY <2>1 DEF Apiece
  <2>5. \A v \in Writers : writer'[v].pc = "line" =>
            IF writer'[v].part = 0 THEN \A p \in Held' : Log!At(p)' # writer'[v].entry
            ELSE \E p \in Held' : p[1] = writer'[v].part /\ Log!At(p)' = writer'[v].entry
    BY <2>1 DEF Apiece
  <2>6. \A u, v \in Writers : writer'[u].pc # "idle" /\ writer'[v].pc # "idle" /\ u # v =>
            writer'[u].entry # writer'[v].entry
    BY <2>1 DEF Apiece
  <2>7. /\ \A p, q \in Held' : Log!At(p)' = Log!At(q)' /\ IsEntry(Log!At(p)') => p = q
        /\ \A x \in acked' : IsEntry(x)
    BY <2>1 DEF Apiece
  <2> QED
    BY <2>3, <2>4, <2>5, <2>6, <2>7 DEF Apiece, IsEntry
<1>2. CASE Log!RemovePart
  <2>1. PICK n \in deleter :
          /\ n \in Log!Parts /\ n \in Nat /\ n # 0
          /\ exists' = exists \ {n} /\ file' = [file EXCEPT ![n] = << >>]
          /\ \A w \in Writers :
                /\ writer'[w].pc = writer[w].pc /\ writer'[w].entry = writer[w].entry
                /\ writer'[w].clean = writer[w].clean
                /\ writer'[w].part = IF writer[w].pc = "line" /\ writer[w].part = n THEN 0 ELSE writer[w].part
    BY <1>2, RemovalFacts
  <2>2. Held' = {p \in Held : p[1] # n} /\ \A p \in Held' : Log!At(p)' = Log!At(p)
    BY <2>1, RemoveFacts
  <2>3. acked' = acked /\ doomed' \union gone' \subseteq doomed \union gone
    BY <1>2, RemovalFacts
  <2>4. \A p, q \in Held' : Log!At(p)' = Log!At(q)' /\ IsEntry(Log!At(p)') => p = q
    BY <2>2 DEF Apiece
  <2>5. \A v \in Writers : writer'[v].pc # "idle" => IsEntry(writer'[v].entry) /\ writer'[v].entry \notin acked'
    BY <2>1, <2>3 DEF Apiece
  <2>6. \A v \in Writers : writer'[v].pc = "chosen" =>
            /\ writer'[v].part # 0 /\ writer'[v].entry \notin doomed' \union gone'
            /\ \A p \in Held' : Log!At(p)' # writer'[v].entry
    BY <2>1, <2>2, <2>3 DEF Apiece
  <2>7. ASSUME NEW v \in Writers, writer'[v].pc = "line"
        PROVE  IF writer'[v].part = 0 THEN \A p \in Held' : Log!At(p)' # writer'[v].entry
               ELSE \E p \in Held' : p[1] = writer'[v].part /\ Log!At(p)' = writer'[v].entry
    <3>1. CASE writer[v].part = 0
      BY <2>1, <2>2, <2>7, <3>1 DEF Apiece
    <3>2. CASE writer[v].part # 0
      <4>1. PICK p \in Held : p[1] = writer[v].part /\ Log!At(p) = writer[v].entry
        BY <2>1, <2>7, <3>2 DEF Apiece
      <4>2. \A q \in Held : Log!At(q) = writer[v].entry => q = p
        BY <2>1, <2>7, <4>1 DEF Apiece
      <4> QED
        BY <2>1, <2>2, <2>7, <3>2, <4>1, <4>2
    <3> QED
      BY <3>1, <3>2
  <2>8. \A u, v \in Writers : writer'[u].pc # "idle" /\ writer'[v].pc # "idle" /\ u # v =>
            writer'[u].entry # writer'[v].entry
    BY <2>1 DEF Apiece
  <2>9. \A x \in acked' : IsEntry(x)
    BY <2>3 DEF Apiece
  <2> QED
    BY <2>4, <2>5, <2>6, <2>7, <2>8, <2>9 DEF Apiece, IsEntry
<1>3. CASE Log!DeleteStops
  <2>1. /\ Held' = Held /\ (\A p : Log!At(p)' = Log!At(p))
        /\ writer' = writer /\ acked' = acked /\ gone' = gone /\ doomed' = {}
    BY <1>3, SameFiles DEF Log!DeleteStops, Log!files
  <2> QED
    BY <2>1 DEF Apiece, IsEntry
<1> QED
  BY <1>1, <1>2, <1>3

-------------------------------------------------------------------------------
(* Something follows what was acknowledged. *)

LEMMA SteadyFollowed ==
    ASSUME Log!TypeOK, Followed, UNCHANGED file, UNCHANGED acked
    PROVE  Followed'
<1>1. Held' = Held /\ (\A p : Log!At(p)' = Log!At(p)) /\ \A n : Len(file[n])' = Len(file[n])
  BY SameFiles
<1> QED
  BY <1>1 DEF Followed

LEMMA PutFollowed ==
    ASSUME Log!TypeOK, Followed, NEW n \in Log!Parts, NEW x, Log!Put(n, x),
           NEW A, acked' = acked \union A, x \notin acked',
           \A p \in Held : Log!At(p) \in A => p[1] = n
    PROVE  Followed'
<1>1. PICK k : k = Len(file[n]) + 1
  OBVIOUS
<1>2. /\ Held' = Held \union {<<n, k>>} /\ Log!At(<<n, k>>)' = x /\ \A p \in Held : Log!At(p)' = Log!At(p)
      /\ Len(file[n])' = k /\ \A m \in Log!Parts : m # n => Len(file[m])' = Len(file[m])
  BY <1>1, PutFacts
<1>3. ASSUME NEW p \in Held', Log!At(p)' \in acked' PROVE p[2] < Len(file[p[1]])'
  <2>1. p \in Held
    BY <1>2, <1>3
  <2>2. p[1] \in Log!Parts /\ p[2] \in Nat /\ p[2] <= Len(file[p[1]]) /\ Log!At(p) \in acked \union A
    BY <1>2, <1>3, <2>1, HeldFacts
  <2>3. CASE p[1] = n
    BY <1>1, <1>2, <2>2, <2>3, FileTypes
  <2>4. CASE p[1] # n
    BY <1>2, <2>1, <2>2, <2>4 DEF Followed
  <2> QED
    BY <2>3, <2>4
<1> QED
  BY <1>3 DEF Followed

LEMMA WriteFollowed ==
    ASSUME Log!TypeOK, Apiece, Followed, NEW w \in Writers, Log!Begin(w) \/ Log!Line(w) \/ Log!End(w) \/ Log!Cut(w)
    PROVE  Followed'
<1>1. CASE Log!Begin(w)
  BY <1>1, BeginFacts, SteadyFollowed
<1>2. CASE Log!Line(w)
  <2>1. Log!Put(writer[w].part, writer[w].entry) /\ writer[w].part \in Log!Parts
        /\ acked' = acked /\ writer[w].entry \notin acked'
    BY <1>2, LineFacts DEF Apiece
  <2>2. PICK A : A = {}
    OBVIOUS
  <2>3. acked' = acked \union A /\ \A p \in Held : Log!At(p) \in A => p[1] = writer[w].part
    BY <2>1, <2>2
  <2> QED
    BY <2>1, <2>3, PutFollowed
<1>3. CASE Log!End(w)
  <2>1. PICK e : e = writer[w].entry
    OBVIOUS
  <2>2. acked' = acked \union {e} /\ IsEntry(e) /\ writer[w].pc = "line" /\ writer[w].part \in Log!Parts \union {0}
    BY <1>3, <2>1, EndFacts, WriterFacts DEF Apiece
  <2>3. CASE writer[w].part = 0
    <3>1. Held' = Held /\ (\A p : Log!At(p)' = Log!At(p)) /\ \A n : Len(file[n])' = Len(file[n])
      BY <1>3, <2>3, EndFacts, SameFiles
    <3>2. \A p \in Held : Log!At(p) # e
      BY <2>1, <2>2, <2>3 DEF Apiece
    <3> QED
      BY <2>2, <3>1, <3>2 DEF Followed
  <2>4. CASE writer[w].part # 0
    <3>1. Log!Put(writer[w].part, Log!Newline) /\ writer[w].part \in Log!Parts
      BY <1>3, <2>4, EndFacts
    <3>2. \A p \in Held : Log!At(p) \in {e} => p[1] = writer[w].part
      BY <2>1, <2>2, <2>4 DEF Apiece
    <3>3. Log!Newline \notin acked'
      BY <2>2, PlainPieces DEF Apiece
    <3> QED
      BY <2>2, <3>1, <3>2, <3>3, PutFollowed
  <2> QED
    BY <2>3, <2>4
<1>4. CASE Log!Cut(w)
  <2>1. CASE file' = file
    BY <1>4, <2>1, CutFacts, SteadyFollowed
  <2>2. CASE file' # file
    <3>1. writer[w].part \in Log!Parts /\ acked' = acked
      BY <1>4, <2>2, CutFacts
    <3> PICK rest \in Log!Remains : Log!Put(writer[w].part, rest)
      BY <1>4, <2>2, CutFacts
    <3>2. rest \notin acked'
      BY <3>1, PlainPieces DEF Apiece
    <3>3. PICK A : A = {}
      OBVIOUS
    <3>4. acked' = acked \union A /\ \A p \in Held : Log!At(p) \in A => p[1] = writer[w].part
      BY <3>1, <3>3
    <3> QED
      BY <3>1, <3>2, <3>4, PutFollowed
  <2> QED
    BY <2>1, <2>2
<1> QED
  BY <1>1, <1>2, <1>3, <1>4

LEMMA DeletionFollowed ==
    ASSUME Log!TypeOK, Followed, Log!DeleteSession \/ Log!RemovePart \/ Log!DeleteStops
    PROVE  Followed'
<1>1. CASE Log!DeleteSession
  BY <1>1, DeleteFacts, SteadyFollowed
<1>2. CASE Log!RemovePart
  <2>1. PICK n \in Log!Parts : file' = [file EXCEPT ![n] = << >>]
    BY <1>2, RemovalFacts
  <2>2. /\ Held' = {p \in Held : p[1] # n} /\ \A p \in Held' : Log!At(p)' = Log!At(p)
        /\ \A m \in Log!Parts : m # n => Len(file[m])' = Len(file[m])
    BY <2>1, RemoveFacts
  <2>3. acked' = acked
    BY <1>2, RemovalFacts
  <2> QED
    BY <2>2, <2>3, HeldFacts DEF Followed
<1>3. CASE Log!DeleteStops
  BY <1>3, SteadyFollowed DEF Log!DeleteStops, Log!files
<1> QED
  BY <1>1, <1>2, <1>3

-------------------------------------------------------------------------------
(* What is kept is in the parts that are read. *)

LEMMA SameParts ==
    ASSUME UNCHANGED file, UNCHANGED exists
    PROVE  Log!Content' = Log!Content /\ Log!all_part_paths' = Log!all_part_paths
BY DEF Log!Content, Log!Places, Log!all_part_paths, Log!Contiguous

\* Writing takes nothing out of them.
LEMMA PutContent ==
    ASSUME Log!TypeOK, NEW n \in Log!Parts, NEW x, Log!Put(n, x)
    PROVE  Held \subseteq Held' /\ Log!Content \subseteq Log!Content' /\ \A p \in Held : Log!At(p)' = Log!At(p)
<1>1. PICK k : k = Len(file[n]) + 1
  OBVIOUS
<1>2. /\ Held' = Held \union {<<n, k>>} /\ \A p \in Held : Log!At(p)' = Log!At(p)
      /\ Log!all_part_paths \subseteq Log!all_part_paths'
  BY <1>1, PutFacts
<1>3. ASSUME NEW p \in Log!Content PROVE p \in Log!Content'
  <2>1. PICK m \in Log!all_part_paths : \E j \in DOMAIN file[m] : p = <<m, j>>
    BY <1>3 DEF Log!Content, Log!Places
  <2>2. m \in Log!Parts /\ m \in Log!all_part_paths' /\ p \in Held
    BY <1>2, <2>1, FileTypes, HeldFacts, <1>3
  <2>3. \E i \in Log!Parts : \E j \in DOMAIN file'[i] : p = <<i, j>>
    BY <1>2, <2>2 DEF Held, Log!Places, Log!Parts
  <2>4. \E j \in DOMAIN file'[m] : p = <<m, j>>
    BY <2>1, <2>3
  <2> QED
    BY <2>2, <2>4 DEF Log!Content, Log!Places
<1> QED
  BY <1>2, <1>3

LEMMA BeginKeeping == ASSUME Log!TypeOK, Keeping, NEW w \in Writers, Log!Begin(w) PROVE Keeping'
<1>1. /\ writer'[w].pc = "chosen" /\ writer'[w].clean = (deleter = {})
      /\ \A m \in 2..(writer'[w].part - 1) : m \in exists
  BY BeginFacts
<1>2. /\ \A v \in Writers : v # w => writer'[v] = writer[v]
      /\ exists' = exists /\ kept' = kept /\ deleter' = deleter
      /\ Log!Content' = Log!Content /\ Log!all_part_paths' = Log!all_part_paths /\ \A p : Log!At(p)' = Log!At(p)
  BY BeginFacts, SameParts, SameFiles
<1> QED
  BY <1>1, <1>2 DEF Keeping

LEMMA LineKeeping == ASSUME Log!TypeOK, Apiece, Keeping, NEW w \in Writers, Log!Line(w) PROVE Keeping'
<1>1. PICK n, e, k : n = writer[w].part /\ e = writer[w].entry /\ k = Len(file[n]) + 1
  OBVIOUS
<1>2. /\ writer'[w].pc = "line" /\ writer'[w].part = n /\ n \in Log!Parts
      /\ writer'[w].clean = writer[w].clean /\ writer[w].pc = "chosen" /\ Log!Put(n, e)
      /\ \A v \in Writers : v # w => writer'[v] = writer[v]
      /\ deleter' = deleter /\ kept' = kept
  BY <1>1, LineFacts
<1>3. /\ exists \subseteq exists' /\ Log!all_part_paths \subseteq Log!all_part_paths'
      /\ (\A m \in 2..(n - 1) : m \in exists) => n \in Log!all_part_paths'
  BY <1>1, <1>2, PutFacts
<1>4. Log!Content \subseteq Log!Content' /\ \A p \in Log!Content : Log!At(p)' = Log!At(p)
  BY <1>2, PutContent, HeldFacts
<1>5. \A x \in kept' : \E p \in Log!Content' : Log!At(p)' = x
  BY <1>2, <1>4 DEF Keeping
<1>6. deleter' # {} => kept' = {} /\ \A v \in Writers : ~writer'[v].clean
  BY <1>2 DEF Keeping
<1>7. \A v \in Writers : writer'[v].clean =>
          /\ writer'[v].pc = "chosen" => \A m \in 2..(writer'[v].part - 1) : m \in exists'
          /\ writer'[v].pc = "line" => writer'[v].part \in Log!all_part_paths'
  BY <1>1, <1>2, <1>3 DEF Keeping
<1> QED
  BY <1>5, <1>6, <1>7 DEF Keeping

LEMMA EndKeeping == ASSUME Log!TypeOK, Apiece, Keeping, NEW w \in Writers, Log!End(w) PROVE Keeping'
<1>1. PICK n, e : n = writer[w].part /\ e = writer[w].entry
  OBVIOUS
<1>2. /\ writer[w].pc = "line" /\ writer'[w].pc = "idle" /\ ~writer'[w].clean
      /\ \A v \in Writers : v # w => writer'[v] = writer[v]
      /\ kept' = (IF writer[w].clean THEN kept \cup {e} ELSE kept)
      /\ deleter' = deleter
  BY <1>1, EndFacts
<1>3. /\ exists \subseteq exists' /\ Log!all_part_paths \subseteq Log!all_part_paths'
      /\ Log!Content \subseteq Log!Content' /\ \A p \in Log!Content : Log!At(p)' = Log!At(p)
  <2>1. CASE n = 0
    BY <1>1, <2>1, EndFacts, SameParts, SameFiles
  <2>2. CASE n # 0
    <3>1. Log!Put(n, Log!Newline) /\ n \in Log!Parts
      BY <1>1, <2>2, EndFacts
    <3>2. PICK k : k = Len(file[n]) + 1
      OBVIOUS
    <3> QED
      BY <3>1, <3>2, PutFacts, PutContent, HeldFacts
  <2> QED
    BY <2>1, <2>2
<1>4. ASSUME writer[w].clean PROVE \E p \in Log!Content : Log!At(p) = e
  <2>1. n \in Log!all_part_paths /\ n # 0
    BY <1>1, <1>2, <1>4, FileTypes DEF Keeping
  <2>2. \E p \in Held : p[1] = n /\ Log!At(p) = e
    BY <1>1, <1>2, <2>1 DEF Apiece
  <2> QED
    BY <2>1, <2>2, HeldFacts
<1>5. \A x \in kept' : \E p \in Log!Content' : Log!At(p)' = x
  BY <1>2, <1>3, <1>4 DEF Keeping
<1>6. deleter' # {} => kept' = {} /\ \A v \in Writers : ~writer'[v].clean
  BY <1>2 DEF Keeping
<1>7. \A v \in Writers : writer'[v].clean =>
          /\ writer'[v].pc = "chosen" => \A m \in 2..(writer'[v].part - 1) : m \in exists'
          /\ writer'[v].pc = "line" => writer'[v].part \in Log!all_part_paths'
  BY <1>2, <1>3 DEF Keeping
<1> QED
  BY <1>5, <1>6, <1>7 DEF Keeping

LEMMA CutKeeping == ASSUME Log!TypeOK, Apiece, Keeping, NEW w \in Writers, Log!Cut(w) PROVE Keeping'
<1>1. /\ writer'[w].pc = "idle" /\ ~writer'[w].clean
      /\ \A v \in Writers : v # w => writer'[v] = writer[v]
      /\ kept' = kept /\ deleter' = deleter
  BY CutFacts
<1>2. /\ exists \subseteq exists' /\ Log!all_part_paths \subseteq Log!all_part_paths'
      /\ Log!Content \subseteq Log!Content' /\ \A p \in Log!Content : Log!At(p)' = Log!At(p)
  <2>1. CASE writer[w].pc = "line"
    BY <2>1, CutFacts, SameParts, SameFiles
  <2>2. CASE writer[w].pc # "line"
    <3>1. PICK n, k : n = writer[w].part /\ k = Len(file[n]) + 1
      OBVIOUS
    <3>2. n \in Log!Parts /\ \E rest \in Log!Remains : Log!Put(n, rest)
      BY <2>2, <3>1, CutFacts
    <3> QED
      BY <3>1, <3>2, PutFacts, PutContent, HeldFacts
  <2> QED
    BY <2>1, <2>2
<1>3. \A x \in kept' : \E p \in Log!Content' : Log!At(p)' = x
  BY <1>1, <1>2 DEF Keeping
<1>4. deleter' # {} => kept' = {} /\ \A v \in Writers : ~writer'[v].clean
  BY <1>1 DEF Keeping
<1>5. \A v \in Writers : writer'[v].clean =>
          /\ writer'[v].pc = "chosen" => \A m \in 2..(writer'[v].part - 1) : m \in exists'
          /\ writer'[v].pc = "line" => writer'[v].part \in Log!all_part_paths'
  BY <1>1, <1>2 DEF Keeping
<1> QED
  BY <1>3, <1>4, <1>5 DEF Keeping

LEMMA DeletionKeeping ==
    ASSUME Log!TypeOK, Keeping, Log!DeleteSession \/ Log!RemovePart \/ Log!DeleteStops
    PROVE  Keeping'
<1>1. CASE Log!DeleteSession
  BY <1>1, DeleteFacts DEF Keeping
<1>2. CASE Log!RemovePart
  <2>1. deleter # {} /\ kept' = kept /\ \A v \in Writers : writer'[v].clean = writer[v].clean
    BY <1>2, RemovalFacts
  <2> QED
    BY <2>1 DEF Keeping
<1>3. CASE Log!DeleteStops
  <2>1. /\ deleter' = {} /\ writer' = writer /\ kept' = kept /\ exists' = exists
        /\ Log!Content' = Log!Content /\ Log!all_part_paths' = Log!all_part_paths /\ \A p : Log!At(p)' = Log!At(p)
    BY <1>3, SameFiles, SameParts DEF Log!DeleteStops, Log!files
  <2> QED
    BY <2>1 DEF Keeping
<1> QED
  BY <1>1, <1>2, <1>3

-------------------------------------------------------------------------------
(* What is deleted is removed. *)

LEMMA SteadyRemoving ==
    ASSUME Removing, UNCHANGED <<file, deleter, doomed, gone>>
    PROVE  Removing'
<1>1. Held' = Held /\ (\A p : Log!At(p)' = Log!At(p)) /\ deleter' = deleter /\ doomed' = doomed /\ gone' = gone
  BY SameFiles
<1> QED
  BY <1>1 DEF Removing, IsEntry

LEMMA PutRemoving ==
    ASSUME Log!TypeOK, Removing, NEW n \in Log!Parts, NEW x, Log!Put(n, x),
           IsEntry(x) => x \notin doomed \union gone,
           deleter' = deleter, doomed' = doomed, gone' = gone
    PROVE  Removing'
<1>1. PICK k : k = Len(file[n]) + 1
  OBVIOUS
<1>2. Held' = Held \union {<<n, k>>} /\ Log!At(<<n, k>>)' = x /\ \A p \in Held : Log!At(p)' = Log!At(p)
  BY <1>1, PutFacts
<1>3. \A p \in Held' : IsEntry(Log!At(p)') /\ Log!At(p)' \in doomed \union gone => p \in Held
  BY <1>2
<1>4. \A p \in Held' : Log!At(p)' \in gone' => ~IsEntry(Log!At(p)')
  BY <1>2, <1>3 DEF Removing
<1>5. deleter' # {} => \A p \in Held' : Log!At(p)' \in doomed' /\ IsEntry(Log!At(p)') => p[1] \in deleter'
  BY <1>2, <1>3 DEF Removing
<1> QED
  BY <1>4, <1>5 DEF Removing, IsEntry

LEMMA WriteRemoving ==
    ASSUME Log!TypeOK, Apiece, Removing, NEW w \in Writers, Log!Begin(w) \/ Log!Line(w) \/ Log!End(w) \/ Log!Cut(w)
    PROVE  Removing'
<1>1. deleter' = deleter /\ doomed' = doomed /\ gone' = gone
  BY BeginFacts, LineFacts, EndFacts, CutFacts
<1>2. CASE file' = file
  BY <1>1, <1>2, SteadyRemoving
<1>3. CASE file' # file
  <2>1. PICK n : n = writer[w].part
    OBVIOUS
  <2>2. PICK x : n \in Log!Parts /\ Log!Put(n, x) /\ (IsEntry(x) => x \notin doomed \union gone)
    <3>1. CASE Log!Begin(w)
      BY <1>3, <3>1, BeginFacts
    <3>2. CASE Log!Line(w)
      BY <2>1, <3>2, LineFacts DEF Apiece
    <3>3. CASE Log!End(w)
      BY <1>3, <2>1, <3>3, EndFacts, PlainPieces
    <3>4. CASE Log!Cut(w)
      BY <1>3, <2>1, <3>4, CutFacts, PlainPieces
    <3> QED
      BY <3>1, <3>2, <3>3, <3>4
  <2> QED
    BY <1>1, <2>2, PutRemoving
<1> QED
  BY <1>2, <1>3

LEMMA DeletionRemoving ==
    ASSUME Log!TypeOK, Apiece, Removing, Log!DeleteSession \/ Log!RemovePart \/ Log!DeleteStops
    PROVE  Removing'
<1>1. CASE Log!DeleteSession
  <2>1. /\ deleter' = Log!all_part_paths /\ doomed' = {Log!At(p) : p \in Log!Content} /\ gone' = gone
        /\ Held' = Held /\ \A p : Log!At(p)' = Log!At(p)
    BY <1>1, DeleteFacts, SameFiles
  <2>2. ASSUME NEW p \in Held, Log!At(p) \in doomed', IsEntry(Log!At(p)) PROVE p[1] \in Log!all_part_paths
    <3>1. PICK q \in Log!Content : Log!At(q) = Log!At(p)
      BY <2>1, <2>2
    <3>2. q = p
      BY <2>2, <3>1, HeldFacts DEF Apiece
    <3> QED
      BY <3>1, <3>2, HeldFacts
  <2> QED
    BY <2>1, <2>2 DEF Removing, IsEntry
<1>2. CASE Log!RemovePart
  <2>1. PICK n \in deleter : /\ n \in Log!Parts /\ file' = [file EXCEPT ![n] = << >>]
                             /\ deleter' = deleter \ {n}
    BY <1>2, RemovalFacts
  <2>2. /\ gone' = (IF deleter' = {} THEN gone \cup doomed ELSE gone)
        /\ doomed' = (IF deleter' = {} THEN {} ELSE doomed)
    BY <1>2, RemovalFacts
  <2>3. Held' = {p \in Held : p[1] # n} /\ \A p \in Held' : Log!At(p)' = Log!At(p)
    BY <2>1, RemoveFacts
  <2>4. \A p \in Held' : Log!At(p) \in doomed /\ IsEntry(Log!At(p)) => p[1] \in deleter'
    BY <2>1, <2>3 DEF Removing
  <2> QED
    BY <2>2, <2>3, <2>4 DEF Removing, IsEntry
<1>3. CASE Log!DeleteStops
  <2>1. Held' = Held /\ (\A p : Log!At(p)' = Log!At(p)) /\ gone' = gone /\ deleter' = {}
    BY <1>3, SameFiles DEF Log!DeleteStops, Log!files
  <2> QED
    BY <2>1 DEF Removing, IsEntry
<1> QED
  BY <1>1, <1>2, <1>3

-------------------------------------------------------------------------------
(* What is kept stands in the order it was begun in. *)

\* Only what had been acknowledged stands before an entry.
LEMMA BeforeFacts ==
    ASSUME Log!TypeOK
    PROVE  \A x \in Log!Pieces : IsEntry(x) => x.n \in 1..written /\ before[x.n] \subseteq acked
<1>1. \A x \in Log!Pieces : IsEntry(x) => x.n \in 1..written
  BY DEF Log!Pieces, Log!Piece, Log!Newline, Log!Fragment, Log!Splinter, Log!Remains, IsEntry
<1>2. \A k \in 1..written : before[k] \in SUBSET acked
  BY ElementOfSeq DEF Log!TypeOK
<1> QED
  BY <1>1, <1>2

LEMMA BeginOrdered ==
    ASSUME Log!TypeOK, Apiece, Keeping, Ordered, NEW w \in Writers, Log!Begin(w)
    PROVE  Ordered'
<1>1. /\ writer'[w].pc = "chosen" /\ writer[w].pc = "idle"
      /\ \A m \in Log!all_part_paths : m <= writer'[w].part
      /\ \A v \in Writers : v # w => writer'[v] = writer[v]
      /\ before' = Append(before, acked) /\ kept' = kept
  BY BeginFacts
<1>2. Held' = Held /\ \A p : Log!At(p)' = Log!At(p)
  BY BeginFacts, SameFiles
<1>3. \A k \in 1..written : before'[k] = before[k]
  BY <1>1, AppendProperties DEF Log!TypeOK
<1>4. \A x \in Log!Pieces : IsEntry(x) => before'[x.n] = before[x.n]
  BY <1>3, BeforeFacts
<1>5. \A p, q \in Held' :
        /\ Log!At(p)' \in kept' /\ IsEntry(Log!At(q)') /\ Log!At(p)' \in before'[Log!At(q)'.n]
        /\ \/ Log!At(q)' \in kept'
           \/ \E v \in Writers : writer'[v].pc = "line" /\ writer'[v].clean /\ writer'[v].entry = Log!At(q)'
        => Log!Precedes(p, q)
  <2> SUFFICES ASSUME NEW p \in Held, NEW q \in Held,
                      Log!At(p) \in kept, IsEntry(Log!At(q)), Log!At(p) \in before'[Log!At(q).n],
                      \/ Log!At(q) \in kept
                      \/ \E v \in Writers : writer'[v].pc = "line" /\ writer'[v].clean /\ writer'[v].entry = Log!At(q)
               PROVE  Log!Precedes(p, q)
    BY <1>1, <1>2
  <2>1. Log!At(p) \in before[Log!At(q).n]
    BY <1>4, HeldFacts
  <2>2. Current(Log!At(q))
    BY <1>1 DEF Current
  <2> QED
    BY <2>1, <2>2 DEF Ordered
<1>6. ASSUME NEW v \in Writers, writer'[v].pc = "chosen", writer'[v].clean,
             NEW p \in Held, Log!At(p) \in kept, Log!At(p) \in before'[writer'[v].entry.n]
      PROVE  p[1] <= writer'[v].part
  <2>1. CASE v = w
    <3>1. IsEntry(Log!At(p))
      BY <1>6 DEF Apiece, Log!TypeOK
    <3>2. PICK q \in Log!Content : Log!At(q) = Log!At(p)
      BY <1>6 DEF Keeping
    <3>3. q = p
      BY <3>1, <3>2, HeldFacts DEF Apiece
    <3> QED
      BY <1>1, <2>1, <3>2, <3>3, HeldFacts
  <2>2. CASE v # w
    <3>1. writer'[v] = writer[v] /\ IsEntry(writer[v].entry) /\ writer[v].entry \in Log!Pieces
      BY <1>1, <1>6, <2>2, WriterFacts DEF Apiece
    <3>2. Log!At(p) \in before[writer[v].entry.n]
      BY <1>4, <1>6, <3>1
    <3> QED
      BY <1>6, <3>1, <3>2 DEF Ordered
  <2> QED
    BY <2>1, <2>2
<1> QED
  BY <1>1, <1>2, <1>5, <1>6 DEF Ordered, IsEntry, Current, Log!Precedes

LEMMA LineOrdered ==
    ASSUME Log!TypeOK, Apiece, Ordered, NEW w \in Writers, Log!Line(w)
    PROVE  Ordered'
<1>1. PICK n, e, k : n = writer[w].part /\ e = writer[w].entry /\ k = Len(file[n]) + 1
  OBVIOUS
<1>2. /\ writer'[w].pc = "line" /\ writer'[w].entry = e /\ writer'[w].clean = writer[w].clean
      /\ n \in Log!Parts /\ writer[w].pc = "chosen" /\ Log!Put(n, e)
      /\ \A v \in Writers : v # w => writer'[v] = writer[v]
      /\ before' = before /\ kept' = kept
  BY <1>1, LineFacts
<1>3. /\ Held' = Held \union {<<n, k>>} /\ Log!At(<<n, k>>)' = e /\ \A p \in Held : Log!At(p)' = Log!At(p)
  BY <1>1, <1>2, PutFacts
<1>4. /\ IsEntry(e) /\ e \notin acked /\ e \notin kept /\ \A p \in Held : Log!At(p) # e
      /\ \A v \in Writers : v # w /\ writer[v].pc # "idle" => writer[v].entry # e
  BY <1>1, <1>2 DEF Apiece, Log!TypeOK
<1>5. \A p \in Held' : Log!At(p)' \in kept' => p \in Held /\ Log!At(p) \in kept
  BY <1>2, <1>3, <1>4
<1>6. \A p, q \in Held' :
        /\ Log!At(p)' \in kept' /\ IsEntry(Log!At(q)') /\ Log!At(p)' \in before'[Log!At(q)'.n]
        /\ \/ Log!At(q)' \in kept'
           \/ \E v \in Writers : writer'[v].pc = "line" /\ writer'[v].clean /\ writer'[v].entry = Log!At(q)'
        => Log!Precedes(p, q)
  <2> SUFFICES ASSUME NEW p \in Held', NEW q \in Held',
                      Log!At(p)' \in kept', IsEntry(Log!At(q)'), Log!At(p)' \in before'[Log!At(q)'.n],
                      \/ Log!At(q)' \in kept'
                      \/ \E v \in Writers : writer'[v].pc = "line" /\ writer'[v].clean /\ writer'[v].entry = Log!At(q)'
               PROVE  Log!Precedes(p, q)
    OBVIOUS
  <2>1. p \in Held /\ Log!At(p) \in kept /\ Log!At(p)' = Log!At(p)
    BY <1>3, <1>5
  <2>2. CASE q \in Held
    <3>1. Log!At(q)' = Log!At(q) /\ Current(Log!At(q))
      BY <1>2, <1>3, <1>4, <2>2 DEF Current
    <3> QED
      BY <1>2, <2>1, <2>2, <3>1 DEF Ordered
  <2>3. CASE q = <<n, k>>
    <3>1. Log!At(q)' = e
      BY <1>3, <2>3
    <3>2. writer[w].clean
      BY <1>2, <1>4, <3>1
    <3>3. p[1] <= n
      BY <1>1, <1>2, <2>1, <3>1, <3>2 DEF Ordered
    <3>4. /\ p[1] \in Nat /\ p[2] \in Nat /\ p[2] <= Len(file[p[1]])
          /\ n \in Nat /\ Len(file[n]) \in Nat /\ q[1] = n /\ q[2] = k
      BY <1>2, <2>1, <2>3, HeldFacts, FileTypes
    <3> QED
      BY <1>1, <3>3, <3>4 DEF Log!Precedes
  <2> QED
    BY <1>3, <2>2, <2>3
<1>7. ASSUME NEW v \in Writers, writer'[v].pc = "chosen", writer'[v].clean,
             NEW p \in Held', Log!At(p)' \in kept', Log!At(p)' \in before'[writer'[v].entry.n]
      PROVE  p[1] <= writer'[v].part
  <2>1. writer'[v] = writer[v]
    BY <1>2, <1>7
  <2>2. p \in Held /\ Log!At(p) \in kept /\ Log!At(p) \in before[writer[v].entry.n]
    BY <1>2, <1>3, <1>5, <1>7, <2>1
  <2> QED
    BY <1>7, <2>1, <2>2 DEF Ordered
<1> QED
  BY <1>6, <1>7 DEF Ordered, IsEntry, Current, Log!Precedes

\* A writer that stops, or ends, writes no entry.
LEMMA DoneOrdered ==
    ASSUME Log!TypeOK, Apiece, Ordered, NEW w \in Writers, NEW e, e \notin acked,
           writer'[w].pc = "idle", \A v \in Writers : v # w => writer'[v] = writer[v],
           before' = before, kept \subseteq kept',
           \A x \in kept' : \/ x \in kept
                            \/ (x = e /\ writer[w].pc = "line" /\ writer[w].clean /\ writer[w].entry = e),
           \A p \in Held : Log!At(p)' = Log!At(p), \A p \in Held' : p \in Held \/ ~IsEntry(Log!At(p)'), IsEntry(e)
    PROVE  Ordered'
<1>1. \A x \in Log!Pieces : IsEntry(x) => e \notin before[x.n]
  BY BeforeFacts
<1>2. \A x \in kept' : IsEntry(x)
  BY DEF Apiece, Log!TypeOK
<1>3. \A p \in Held' : Log!At(p)' \in kept' => p \in Held /\ Log!At(p)' = Log!At(p)
  BY <1>2
<1>4. \A p, q \in Held' :
        /\ Log!At(p)' \in kept' /\ IsEntry(Log!At(q)') /\ Log!At(p)' \in before'[Log!At(q)'.n]
        /\ \/ Log!At(q)' \in kept'
           \/ \E v \in Writers : writer'[v].pc = "line" /\ writer'[v].clean /\ writer'[v].entry = Log!At(q)'
        => Log!Precedes(p, q)
  <2> SUFFICES ASSUME NEW p \in Held', NEW q \in Held',
                      Log!At(p)' \in kept', IsEntry(Log!At(q)'), Log!At(p)' \in before'[Log!At(q)'.n],
                      \/ Log!At(q)' \in kept'
                      \/ \E v \in Writers : writer'[v].pc = "line" /\ writer'[v].clean /\ writer'[v].entry = Log!At(q)'
               PROVE  Log!Precedes(p, q)
    OBVIOUS
  <2>1. p \in Held /\ q \in Held /\ Log!At(p)' = Log!At(p) /\ Log!At(q)' = Log!At(q)
    BY <1>3
  <2>2. Log!At(p) \in kept
    BY <1>1, <2>1, HeldFacts
  <2>3. Current(Log!At(q))
    BY <2>1 DEF Current
  <2> QED
    BY <2>1, <2>2, <2>3 DEF Ordered
<1>5. ASSUME NEW v \in Writers, writer'[v].pc = "chosen", writer'[v].clean,
             NEW p \in Held', Log!At(p)' \in kept', Log!At(p)' \in before'[writer'[v].entry.n]
      PROVE  p[1] <= writer'[v].part
  <2>1. writer'[v] = writer[v] /\ IsEntry(writer[v].entry) /\ writer[v].entry \in Log!Pieces
    BY <1>5, WriterFacts DEF Apiece
  <2>2. p \in Held /\ Log!At(p)' = Log!At(p) /\ Log!At(p) \in kept
    BY <1>1, <1>3, <1>5, <2>1
  <2> QED
    BY <1>5, <2>1, <2>2 DEF Ordered
<1> QED
  BY <1>4, <1>5 DEF Ordered, IsEntry, Current, Log!Precedes

LEMMA EndOrdered ==
    ASSUME Log!TypeOK, Apiece, Ordered, NEW w \in Writers, Log!End(w)
    PROVE  Ordered'
<1>1. PICK n, e, k : n = writer[w].part /\ e = writer[w].entry /\ k = Len(file[n]) + 1
  OBVIOUS
<1>2. /\ writer[w].pc = "line" /\ writer'[w].pc = "idle"
      /\ \A v \in Writers : v # w => writer'[v] = writer[v]
      /\ kept' = (IF writer[w].clean THEN kept \cup {e} ELSE kept)
      /\ before' = before
  BY <1>1, EndFacts
<1>3. IsEntry(e) /\ e \notin acked
  BY <1>1, <1>2 DEF Apiece
<1>4. (\A p \in Held : Log!At(p)' = Log!At(p)) /\ \A p \in Held' : p \in Held \/ ~IsEntry(Log!At(p)')
  <2>1. CASE n = 0
    BY <1>1, <2>1, EndFacts, SameFiles
  <2>2. CASE n # 0
    <3>1. Log!Put(n, Log!Newline) /\ n \in Log!Parts
      BY <1>1, <2>2, EndFacts
    <3>2. /\ \A p \in Held : Log!At(p)' = Log!At(p)
          /\ \A p \in Held' : p \in Held \/ Log!At(p)' = Log!Newline
      BY <3>1, PutAdds
    <3> QED
      BY <3>2, PlainPieces DEF IsEntry
  <2> QED
    BY <2>1, <2>2
<1>5. kept \subseteq kept'
      /\ \A x \in kept' : \/ x \in kept
                          \/ (x = e /\ writer[w].pc = "line" /\ writer[w].clean /\ writer[w].entry = e)
  BY <1>1, <1>2
<1> QED
  BY <1>2, <1>3, <1>4, <1>5, DoneOrdered

LEMMA CutOrdered ==
    ASSUME Log!TypeOK, Apiece, Ordered, NEW w \in Writers, Log!Cut(w)
    PROVE  Ordered'
<1>1. PICK n, e, k : n = writer[w].part /\ e = writer[w].entry /\ k = Len(file[n]) + 1
  OBVIOUS
<1>2. /\ writer[w].pc # "idle" /\ writer'[w].pc = "idle"
      /\ \A v \in Writers : v # w => writer'[v] = writer[v]
      /\ kept' = kept /\ before' = before
  BY CutFacts
<1>3. IsEntry(e) /\ e \notin acked
  BY <1>1, <1>2 DEF Apiece
<1>4. (\A p \in Held : Log!At(p)' = Log!At(p)) /\ \A p \in Held' : p \in Held \/ ~IsEntry(Log!At(p)')
  <2>1. CASE writer[w].pc = "line"
    BY <2>1, CutFacts, SameFiles
  <2>2. CASE writer[w].pc # "line"
    <3> PICK rest \in Log!Remains : n \in Log!Parts /\ Log!Put(n, rest)
      BY <1>1, <2>2, CutFacts
    <3>1. /\ \A p \in Held : Log!At(p)' = Log!At(p)
          /\ \A p \in Held' : p \in Held \/ Log!At(p)' = rest
      BY PutAdds
    <3> QED
      BY <3>1, PlainPieces DEF IsEntry
  <2> QED
    BY <2>1, <2>2
<1> QED
  BY <1>2, <1>3, <1>4, DoneOrdered

LEMMA DeletionOrdered ==
    ASSUME Log!TypeOK, Keeping, Ordered, Log!DeleteSession \/ Log!RemovePart \/ Log!DeleteStops
    PROVE  Ordered'
<1>1. CASE kept' = {}
  BY <1>1 DEF Ordered
<1>2. CASE kept' # {}
  <2>1. Log!DeleteStops
    BY <1>2, DeleteFacts, RemovalFacts DEF Keeping
  <2>2. /\ Held' = Held /\ (\A p : Log!At(p)' = Log!At(p)) /\ kept' = kept /\ writer' = writer /\ before' = before
    BY <2>1, SameFiles DEF Log!DeleteStops, Log!files
  <2> QED
    BY <2>2 DEF Ordered, IsEntry, Current, Log!Precedes
<1> QED
  BY <1>1, <1>2

-------------------------------------------------------------------------------
(* Cut writes and overlaps account for what runs together. *)

LEMMA OneMore ==
    ASSUME NEW S, NEW T, NEW x, IsFiniteSet(S), T \subseteq S \union {x}, NEW b \in Nat, Cardinality(S) <= b
    PROVE  IsFiniteSet(T) /\ Cardinality(T) <= b + 1
<1>1. IsFiniteSet(S \union {x}) /\ Cardinality(S \union {x}) \in {Cardinality(S), Cardinality(S) + 1}
  BY FS_AddElement
<1>2. IsFiniteSet(T) /\ Cardinality(T) <= Cardinality(S \union {x})
  BY <1>1, FS_Subset
<1>3. Cardinality(S) \in Nat /\ Cardinality(T) \in Nat
  BY <1>2, FS_CardinalityType
<1> QED
  BY <1>1, <1>2, <1>3

LEMMA NoMore ==
    ASSUME NEW S, NEW T, IsFiniteSet(S), T \subseteq S, NEW b \in Nat, Cardinality(S) <= b
    PROVE  IsFiniteSet(T) /\ Cardinality(T) <= b
<1>1. IsFiniteSet(T) /\ Cardinality(T) <= Cardinality(S)
  BY FS_Subset
<1>2. Cardinality(S) \in Nat /\ Cardinality(T) \in Nat
  BY <1>1, FS_CardinalityType
<1> QED
  BY <1>1, <1>2

\* What stands before a piece in its part.
LEMMA LeftFacts ==
    ASSUME Log!TypeOK, NEW p \in Held, p[2] > 1
    PROVE  <<p[1], p[2] - 1>> \in Held
<1>1. p[1] \in Log!Parts /\ p[2] \in Nat /\ p[2] <= Len(file[p[1]]) /\ Len(file[p[1]]) \in Nat
  BY HeldFacts, FileTypes
<1>2. p[2] - 1 \in Nat \ {0} /\ p[2] - 1 <= Len(file[p[1]])
  BY <1>1
<1> QED
  BY <1>1, <1>2, HeldFacts

\* A piece runs into a line only when the line is another writer's and unfinished.
LEMMA PutCollisions ==
    ASSUME Log!TypeOK, Followed, NEW w \in Writers, writer[w].pc = "chosen",
           NEW n \in Log!Parts, NEW x, NEW k, k = Len(file[n]) + 1, Log!Put(n, x), Stubs \subseteq Stubs'
    PROVE  Collisions' \subseteq Collisions \union {<<n, k>>}
           /\ (~Log!Unfinished(w) => Collisions' \subseteq Collisions)
<1>1. Held' = Held \union {<<n, k>>} /\ Log!At(<<n, k>>)' = x /\ \A p \in Held : Log!At(p)' = Log!At(p)
  BY PutFacts
<1>2. ASSUME NEW p \in Collisions', p # <<n, k>> PROVE p \in Collisions
  <2>1. p \in Held' /\ p[2] > 1 /\ Log!At(p)' # Log!Newline /\ Log!At(<<p[1], p[2] - 1>>)' # Log!Newline
        /\ <<p[1], p[2] - 1>> \notin Stubs'
    BY <1>2 DEF Collisions
  <2>2. p \in Held
    BY <1>1, <1>2, <2>1
  <2>3. <<p[1], p[2] - 1>> \in Held
    BY <2>1, <2>2, LeftFacts
  <2>4. Log!At(p) # Log!Newline /\ Log!At(<<p[1], p[2] - 1>>) # Log!Newline
    BY <1>1, <2>1, <2>2, <2>3
  <2> QED
    BY <2>1, <2>2, <2>4 DEF Collisions
<1>3. ASSUME <<n, k>> \in Collisions' PROVE Log!Unfinished(w)
  <2>1. PICK q : q = <<n, k - 1>>
    OBVIOUS
  <2>2. k > 1 /\ Log!At(q)' # Log!Newline /\ q \notin Stubs'
    BY <1>3, <2>1 DEF Collisions
  <2>3. k - 1 \in Nat \ {0} /\ k - 1 <= Len(file[n]) /\ k - 1 = Len(file[n])
    BY <2>2, FileTypes
  <2>4. q \in Held
    BY <2>1, <2>3, HeldFacts
  <2>5. Log!At(q) # Log!Newline /\ q \notin Stubs
    BY <1>1, <2>2, <2>4
  <2>6. Log!At(q) \notin acked
    BY <2>1, <2>3, <2>4 DEF Followed
  <2>7. \E v \in Writers : writer[v].pc = "line" /\ writer[v].entry = Log!At(q)
    BY <2>4, <2>5, <2>6 DEF Stubs
  <2> QED
    BY <2>7 DEF Log!Unfinished
<1> QED
  BY <1>2, <1>3

LEMMA SteadyCounted ==
    ASSUME Log!TypeOK, Counted, UNCHANGED <<file, acked, cuts, overlaps>>,
           \A v \in Writers : writer'[v].pc = "line" <=> writer[v].pc = "line",
           \A v \in Writers : writer[v].pc = "line" => writer'[v].entry = writer[v].entry
    PROVE  Counted'
<1>1. Held' = Held /\ (\A p : Log!At(p)' = Log!At(p)) /\ acked' = acked /\ cuts' = cuts /\ overlaps' = overlaps
  BY SameFiles
<1>2. Stubs' = Stubs
  BY <1>1 DEF Stubs
<1>3. Collisions' = Collisions
  BY <1>1, <1>2 DEF Collisions
<1>4. Log!Halfway' = Log!Halfway
  BY DEF Log!Halfway
<1> QED
  BY <1>1, <1>2, <1>3, <1>4 DEF Counted

LEMMA LineCounted ==
    ASSUME Log!TypeOK, Apiece, Followed, Counted, NEW w \in Writers, Log!Line(w)
    PROVE  Counted'
<1>1. PICK n, e, k : n = writer[w].part /\ e = writer[w].entry /\ k = Len(file[n]) + 1
  OBVIOUS
<1>2. /\ writer'[w].pc = "line" /\ writer'[w].entry = e
      /\ n \in Log!Parts /\ writer[w].pc = "chosen" /\ Log!Put(n, e)
      /\ \A v \in Writers : v # w => writer'[v] = writer[v]
      /\ overlaps' = overlaps + (IF Log!Unfinished(w) THEN 1 ELSE 0)
      /\ acked' = acked /\ cuts' = cuts
  BY <1>1, LineFacts
<1>3. /\ Held' = Held \union {<<n, k>>} /\ Log!At(<<n, k>>)' = e /\ \A p \in Held : Log!At(p)' = Log!At(p)
  BY <1>1, <1>2, PutFacts
<1>4. \A p \in Held : Log!At(p) # e
  BY <1>1, <1>2 DEF Apiece
<1>5. Stubs' = Stubs
  <2>1. ASSUME NEW p \in Stubs' PROVE p \in Stubs
    <3>1. p \in Held' /\ Log!At(p)' # Log!Newline /\ Log!At(p)' \notin acked'
          /\ \A v \in Writers : writer'[v].pc = "line" => writer'[v].entry # Log!At(p)'
      BY <2>1 DEF Stubs
    <3>2. p \in Held
      BY <1>2, <1>3, <3>1
    <3> QED
      BY <1>2, <1>3, <3>1, <3>2 DEF Stubs
  <2>2. ASSUME NEW p \in Stubs PROVE p \in Stubs'
    <3>1. p \in Held /\ Log!At(p) # Log!Newline /\ Log!At(p) \notin acked
          /\ \A v \in Writers : writer[v].pc = "line" => writer[v].entry # Log!At(p)
      BY <2>2 DEF Stubs
    <3>2. \A v \in Writers : writer'[v].pc = "line" => writer'[v].entry # Log!At(p)
      BY <1>2, <1>4, <3>1
    <3> QED
      BY <1>2, <1>3, <3>1, <3>2 DEF Stubs
  <2> QED
    BY <2>1, <2>2
<1>6. Collisions' \subseteq Collisions \union {<<n, k>>} /\ (~Log!Unfinished(w) => Collisions' \subseteq Collisions)
  BY <1>1, <1>2, <1>5, PutCollisions
<1>7. IsFiniteSet(Collisions') /\ Cardinality(Collisions') <= overlaps'
  <2>1. overlaps \in Nat /\ IsFiniteSet(Collisions) /\ Cardinality(Collisions) <= overlaps
    BY DEF Counted, Log!TypeOK
  <2>2. CASE Log!Unfinished(w)
    BY <1>2, <1>6, <2>1, <2>2, OneMore
  <2>3. CASE ~Log!Unfinished(w)
    BY <1>2, <1>6, <2>1, <2>3, NoMore
  <2> QED
    BY <2>2, <2>3
<1>8. IsFiniteSet(Log!Halfway')
  <2>1. Log!Halfway' = Log!Halfway \union {w}
    BY <1>2 DEF Log!Halfway
  <2> QED
    BY <2>1, FS_AddElement DEF Counted
<1> QED
  BY <1>2, <1>5, <1>7, <1>8 DEF Counted

LEMMA EndCounted ==
    ASSUME Log!TypeOK, Apiece, Counted, NEW w \in Writers, Log!End(w)
    PROVE  Counted'
<1>1. PICK n, e, k : n = writer[w].part /\ e = writer[w].entry /\ k = Len(file[n]) + 1
  OBVIOUS
<1>2. /\ writer[w].pc = "line" /\ writer'[w].pc = "idle"
      /\ \A v \in Writers : v # w => writer'[v] = writer[v]
      /\ acked' = acked \union {e} /\ cuts' = cuts /\ overlaps' = overlaps
  BY <1>1, EndFacts
<1>3. /\ Held \subseteq Held' /\ \A p \in Held : Log!At(p)' = Log!At(p)
      /\ \A p \in Held' : p \in Held \/ Log!At(p)' = Log!Newline
  <2>1. CASE n = 0
    BY <1>1, <2>1, EndFacts, SameFiles
  <2>2. CASE n # 0
    <3>1. Log!Put(n, Log!Newline) /\ n \in Log!Parts
      BY <1>1, <2>2, EndFacts
    <3> QED
      BY <3>1, PutAdds
  <2> QED
    BY <2>1, <2>2
<1>4. \A x : /\ x \notin acked' /\ (\A v \in Writers : writer'[v].pc = "line" => writer'[v].entry # x)
             <=> x \notin acked /\ \A v \in Writers : writer[v].pc = "line" => writer[v].entry # x
  BY <1>1, <1>2
<1>5. Stubs' = Stubs
  <2>1. ASSUME NEW p \in Stubs' PROVE p \in Stubs
    <3>1. p \in Held' /\ Log!At(p)' # Log!Newline /\ Log!At(p)' \notin acked'
          /\ \A v \in Writers : writer'[v].pc = "line" => writer'[v].entry # Log!At(p)'
      BY <2>1 DEF Stubs
    <3>2. p \in Held /\ Log!At(p)' = Log!At(p)
      BY <1>3, <3>1
    <3> QED
      BY <1>4, <3>1, <3>2 DEF Stubs
  <2>2. ASSUME NEW p \in Stubs PROVE p \in Stubs'
    <3>1. p \in Held /\ Log!At(p) # Log!Newline /\ Log!At(p) \notin acked
          /\ \A v \in Writers : writer[v].pc = "line" => writer[v].entry # Log!At(p)
      BY <2>2 DEF Stubs
    <3>2. p \in Held' /\ Log!At(p)' = Log!At(p)
      BY <1>3, <3>1
    <3> QED
      BY <1>4, <3>1, <3>2 DEF Stubs
  <2> QED
    BY <2>1, <2>2
<1>6. Collisions' \subseteq Collisions
  <2> SUFFICES ASSUME NEW p \in Collisions' PROVE p \in Collisions
    OBVIOUS
  <2>1. p \in Held' /\ p[2] > 1 /\ Log!At(p)' # Log!Newline /\ Log!At(<<p[1], p[2] - 1>>)' # Log!Newline
        /\ <<p[1], p[2] - 1>> \notin Stubs'
    BY DEF Collisions
  <2>2. p \in Held
    BY <1>3, <2>1
  <2>3. <<p[1], p[2] - 1>> \in Held
    BY <2>1, <2>2, LeftFacts
  <2>4. Log!At(p) # Log!Newline /\ Log!At(<<p[1], p[2] - 1>>) # Log!Newline
    BY <1>3, <2>1, <2>2, <2>3
  <2> QED
    BY <1>5, <2>1, <2>2, <2>4 DEF Collisions
<1>7. IsFiniteSet(Collisions') /\ Cardinality(Collisions') <= overlaps'
  BY <1>2, <1>6, NoMore DEF Counted, Log!TypeOK
<1>8. IsFiniteSet(Log!Halfway')
  <2>1. Log!Halfway' \subseteq Log!Halfway
    BY <1>2 DEF Log!Halfway
  <2> QED
    BY <2>1, FS_Subset DEF Counted
<1> QED
  BY <1>2, <1>5, <1>7, <1>8 DEF Counted

LEMMA CutCounted ==
    ASSUME Log!TypeOK, Apiece, Followed, Counted, NEW w \in Writers, Log!Cut(w)
    PROVE  Counted'
<1>1. PICK n, e, k : n = writer[w].part /\ e = writer[w].entry /\ k = Len(file[n]) + 1
  OBVIOUS
<1>2. /\ writer'[w].pc = "idle" /\ \A v \in Writers : v # w => writer'[v] = writer[v]
      /\ acked' = acked /\ cuts' = cuts + 1
  BY CutFacts
<1>3. IsFiniteSet(Log!Halfway')
  <2>1. Log!Halfway' \subseteq Log!Halfway
    BY <1>2 DEF Log!Halfway
  <2> QED
    BY <2>1, FS_Subset DEF Counted
<1>4. cuts \in Nat /\ overlaps \in Nat /\ IsFiniteSet(Stubs) /\ Cardinality(Stubs) <= cuts
      /\ IsFiniteSet(Collisions) /\ Cardinality(Collisions) <= overlaps
  BY DEF Counted, Log!TypeOK
<1>5. CASE writer[w].pc = "line"
  <2>1. overlaps' = overlaps /\ Held' = Held /\ \A p : Log!At(p)' = Log!At(p)
    BY <1>5, CutFacts, SameFiles
  <2>2. Stubs \subseteq Stubs'
    BY <1>2, <2>1 DEF Stubs
  <2>3. \A p \in Stubs' : p \in Stubs \/ (p \in Held /\ Log!At(p) = e)
    BY <1>1, <1>2, <2>1 DEF Stubs
  <2>4. PICK q : Stubs' \subseteq Stubs \union {q}
    <3>1. \A p, q \in Held : Log!At(p) = e /\ Log!At(q) = e => p = q
      BY <1>1, <1>5 DEF Apiece
    <3>2. CASE \E q \in Held : Log!At(q) = e
      BY <2>3, <3>1, <3>2
    <3>3. CASE ~\E q \in Held : Log!At(q) = e
      BY <2>3, <3>3
    <3> QED
      BY <3>2, <3>3
  <2>5. IsFiniteSet(Stubs') /\ Cardinality(Stubs') <= cuts'
    BY <1>2, <1>4, <2>4, OneMore
  <2>6. Collisions' \subseteq Collisions
    BY <2>1, <2>2 DEF Collisions
  <2>7. IsFiniteSet(Collisions') /\ Cardinality(Collisions') <= overlaps'
    BY <1>4, <2>1, <2>6, NoMore
  <2> QED
    BY <1>3, <2>5, <2>7 DEF Counted
<1>6. CASE writer[w].pc # "line"
  <2> PICK rest \in Log!Remains : Log!Put(n, rest)
    BY <1>1, <1>6, CutFacts
  <2>1. /\ n \in Log!Parts /\ writer[w].pc = "chosen"
        /\ overlaps' = overlaps + (IF Log!Unfinished(w) THEN 1 ELSE 0)
    BY <1>1, <1>6, CutFacts
  <2>2. /\ Held' = Held \union {<<n, k>>} /\ \A p \in Held : Log!At(p)' = Log!At(p)
    BY <1>1, <2>1, PutFacts
  <2>3. \A v \in Writers : writer'[v].pc = "line" <=> writer[v].pc = "line"
    BY <1>2, <2>1
  <2>4. \A v \in Writers : writer[v].pc = "line" => writer'[v].entry = writer[v].entry
    BY <1>2, <2>1
  <2>5. Stubs \subseteq Stubs'
    <3> SUFFICES ASSUME NEW p \in Stubs PROVE p \in Stubs'
      OBVIOUS
    <3>1. p \in Held /\ Log!At(p) # Log!Newline /\ Log!At(p) \notin acked
          /\ \A v \in Writers : writer[v].pc = "line" => writer[v].entry # Log!At(p)
      BY DEF Stubs
    <3> QED
      BY <1>2, <2>2, <2>3, <2>4, <3>1 DEF Stubs
  <2>6. Stubs' \subseteq Stubs \union {<<n, k>>}
    <3> SUFFICES ASSUME NEW p \in Stubs', p # <<n, k>> PROVE p \in Stubs
      OBVIOUS
    <3>1. p \in Held' /\ Log!At(p)' # Log!Newline /\ Log!At(p)' \notin acked'
          /\ \A v \in Writers : writer'[v].pc = "line" => writer'[v].entry # Log!At(p)'
      BY DEF Stubs
    <3> QED
      BY <1>2, <2>2, <2>3, <2>4, <3>1 DEF Stubs
  <2>7. IsFiniteSet(Stubs') /\ Cardinality(Stubs') <= cuts'
    BY <1>2, <1>4, <2>6, OneMore
  <2>8. Collisions' \subseteq Collisions \union {<<n, k>>} /\ (~Log!Unfinished(w) => Collisions' \subseteq Collisions)
    BY <1>1, <2>1, <2>5, PutCollisions
  <2>9. IsFiniteSet(Collisions') /\ Cardinality(Collisions') <= overlaps'
    <3>1. CASE Log!Unfinished(w)
      BY <1>4, <2>1, <2>8, <3>1, OneMore
    <3>2. CASE ~Log!Unfinished(w)
      BY <1>4, <2>1, <2>8, <3>2, NoMore
    <3> QED
      BY <3>1, <3>2
  <2> QED
    BY <1>3, <2>7, <2>9 DEF Counted
<1> QED
  BY <1>5, <1>6

LEMMA DeletionCounted ==
    ASSUME Log!TypeOK, Counted, Log!DeleteSession \/ Log!RemovePart \/ Log!DeleteStops
    PROVE  Counted'
<1>1. CASE Log!DeleteSession
  BY <1>1, DeleteFacts, SteadyCounted
<1>2. CASE Log!RemovePart
  <2>1. PICK n \in deleter :
          /\ n \in Log!Parts /\ file' = [file EXCEPT ![n] = << >>]
          /\ \A v \in Writers : writer'[v].pc = writer[v].pc /\ writer'[v].entry = writer[v].entry
    BY <1>2, RemovalFacts
  <2>2. acked' = acked /\ cuts' = cuts /\ overlaps' = overlaps
    BY <1>2, RemovalFacts
  <2>3. Held' = {p \in Held : p[1] # n} /\ \A p \in Held' : Log!At(p)' = Log!At(p)
    BY <2>1, RemoveFacts
  <2>4. \A p \in Held' : p \in Stubs <=> p \in Stubs'
    BY <2>1, <2>2, <2>3 DEF Stubs
  <2>5. Stubs' \subseteq Stubs
    BY <2>4 DEF Stubs
  <2>6. Collisions' \subseteq Collisions
    <3> SUFFICES ASSUME NEW p \in Collisions' PROVE p \in Collisions
      OBVIOUS
    <3>1. PICK q : q = <<p[1], p[2] - 1>>
      OBVIOUS
    <3>2. p \in Held' /\ p[2] > 1 /\ Log!At(p)' # Log!Newline /\ Log!At(q)' # Log!Newline /\ q \notin Stubs'
      BY <3>1 DEF Collisions
    <3>3. q \in Held' /\ p \in Held
      <4>1. p \in Held /\ p[1] # n
        BY <2>3, <3>2
      <4>2. q \in Held /\ q[1] = p[1]
        BY <3>1, <3>2, <4>1, LeftFacts
      <4> QED
        BY <2>3, <4>1, <4>2
    <3>4. Log!At(p) # Log!Newline /\ Log!At(q) # Log!Newline /\ q \notin Stubs
      BY <2>3, <2>4, <3>2, <3>3
    <3> QED
      BY <3>1, <3>2, <3>3, <3>4 DEF Collisions
  <2>7. Log!Halfway' = Log!Halfway
    BY <2>1 DEF Log!Halfway
  <2> QED
    BY <2>2, <2>5, <2>6, <2>7, NoMore DEF Counted, Log!TypeOK
<1>3. CASE Log!DeleteStops
  BY <1>3, SteadyCounted DEF Log!DeleteStops, Log!files
<1> QED
  BY <1>1, <1>2, <1>3

LEMMA BeginCounted == ASSUME Log!TypeOK, Counted, NEW w \in Writers, Log!Begin(w) PROVE Counted'
<1>1. \A v \in Writers : writer'[v].pc = "line" <=> writer[v].pc = "line"
  BY BeginFacts
<1>2. \A v \in Writers : writer[v].pc = "line" => writer'[v].entry = writer[v].entry
  BY BeginFacts
<1> QED
  BY <1>1, <1>2, BeginFacts, SteadyCounted

-------------------------------------------------------------------------------

\* The invariant holds at first and after every step.
LEMMA InitSession == ASSUME Log!Init PROVE SessionInv
<1>1. Log!TypeOK
  BY InitTypes
<1>2. Held = {} /\ \A w \in Writers : writer[w].pc = "idle" /\ ~writer[w].clean
  BY DEF Log!Init, Held, Log!Places, Log!Idle
<1>3. acked = {} /\ kept = {} /\ deleter = {} /\ cuts = 0 /\ overlaps = 0
  BY DEF Log!Init
<1>4. Apiece /\ Followed /\ Keeping /\ Removing /\ Ordered
  BY <1>2, <1>3 DEF Apiece, Followed, Keeping, Removing, Ordered
<1>5. Stubs = {} /\ Collisions = {} /\ Log!Halfway = {}
  BY <1>2 DEF Stubs, Collisions, Log!Halfway
<1>6. Counted
  BY <1>3, <1>5, FS_EmptySet DEF Counted
<1> QED
  BY <1>1, <1>4, <1>6 DEF SessionInv

LEMMA StepSession == ASSUME SessionInv, [Log!Next]_(Log!sessionVars) PROVE SessionInv'
<1> USE DEF SessionInv
<1>1. CASE UNCHANGED Log!sessionVars
  <2>1. UNCHANGED <<file, exists, writer, deleter, written, acked, cuts, deletes, overlaps, before,
                    doomed, gone, kept>>
    BY <1>1 DEF Log!sessionVars, Log!files, Log!ghosts
  <2>2. Log!TypeOK' /\ Apiece' /\ Followed'
    BY <2>1 DEF Log!TypeOK, Log!Pieces, Log!Parts, Apiece, Followed, Held, IsEntry, Log!Places, Log!At
  <2>3. Keeping' /\ Removing'
    BY <2>1 DEF Keeping, Removing, Held, IsEntry, Log!Content, Log!Places, Log!At, Log!all_part_paths,
                Log!Contiguous, Log!Parts
  <2>4. Ordered'
    BY <2>1 DEF Ordered, Held, Current, IsEntry, Log!Places, Log!At, Log!Precedes, Log!Parts
  <2>5. Counted'
    BY <2>1, SteadyCounted
  <2> QED
    BY <2>2, <2>3, <2>4, <2>5
<1>2. ASSUME NEW w \in Writers, Log!Begin(w) \/ Log!Line(w) \/ Log!End(w) \/ Log!Cut(w) PROVE SessionInv'
  <2>1. Log!TypeOK'
    BY <1>2, BeginTypes, LineTypes, EndTypes, CutTypes
  <2>2. Apiece'
    BY <1>2, BeginApiece, LineApiece, EndApiece, CutApiece
  <2>3. Keeping'
    BY <1>2, BeginKeeping, LineKeeping, EndKeeping, CutKeeping
  <2>4. Ordered'
    BY <1>2, BeginOrdered, LineOrdered, EndOrdered, CutOrdered
  <2>5. Counted'
    BY <1>2, BeginCounted, LineCounted, EndCounted, CutCounted
  <2> QED
    BY <1>2, <2>1, <2>2, <2>3, <2>4, <2>5, WriteFollowed, WriteRemoving
<1>3. ASSUME Log!DeleteSession \/ Log!RemovePart \/ Log!DeleteStops PROVE SessionInv'
  BY <1>3, DeletionTypes, DeletionApiece, DeletionFollowed, DeletionKeeping, DeletionRemoving, DeletionOrdered,
     DeletionCounted
<1> QED
  BY <1>1, <1>2, <1>3 DEF Log!Next, Log!Over

-------------------------------------------------------------------------------
(* What is not read back ran together with something. *)

LEMMA ImageBound ==
    ASSUME NEW S, IsFiniteSet(S), NEW f, f = [x \in S |-> f[x]]
    PROVE  IsFiniteSet({f[x] : x \in S}) /\ Cardinality({f[x] : x \in S}) <= Cardinality(S)
<1>1. f \in Surjection(S, {f[x] : x \in S})
  BY DEF Surjection
<1> QED
  BY <1>1, FS_Surjection

LEMMA UnionBound ==
    ASSUME NEW S, NEW T, IsFiniteSet(S), IsFiniteSet(T)
    PROVE  IsFiniteSet(S \union T) /\ Cardinality(S \union T) <= Cardinality(S) + Cardinality(T)
<1>1. IsFiniteSet(S \intersect T)
  BY FS_Subset
<1>2. IsFiniteSet(S \union T)
      /\ Cardinality(S \union T) = Cardinality(S) + Cardinality(T) - Cardinality(S \intersect T)
  BY FS_Union
<1>3. Cardinality(S \intersect T) \in Nat /\ Cardinality(S) \in Nat /\ Cardinality(T) \in Nat
  BY <1>1, FS_CardinalityType
<1> QED
  BY <1>2, <1>3

\* What may follow a piece: in its part, or first in the next one.
After(p) == IF p[2] = Len(file[p[1]]) THEN <<p[1] + 1, 1>> ELSE <<p[1], p[2] + 1>>
PlaceOf(w) == CHOOSE p \in Held : Log!At(p) = writer[w].entry

\* What is kept is an acknowledged entry in a part that is read.
LEMMA KeptPlace ==
    ASSUME SessionInv, NEW e \in kept
    PROVE  /\ IsEntry(e) /\ e # Log!Newline /\ e \in acked
           /\ \E p \in Log!Content : Log!At(p) = e
           /\ \A p \in Log!Content : p \in Held
<1>1. e \in acked /\ IsEntry(e)
  BY DEF SessionInv, Log!TypeOK, Apiece
<1> QED
  BY <1>1, PlainPieces, HeldFacts DEF SessionInv, Keeping

\* An entry that is not read ran into a stub, into another line or into one not yet ended.
LEMMA LostNeighbours ==
    ASSUME SessionInv, Log!Readable, NEW e \in Log!Lost
    PROVE  \/ \E q \in Stubs : e = Log!At(After(q))
           \/ \E q \in Collisions : e = Log!At(q)
           \/ \E q \in Collisions : e = Log!At(<<q[1], q[2] - 1>>)
           \/ \E w \in Log!Halfway : e = Log!At(After(PlaceOf(w)))
<1>1. e \in kept /\ IsEntry(e) /\ e # Log!Newline /\ e \in acked /\ Log!TypeOK
  BY KeptPlace DEF Log!Lost, SessionInv
<1>2. PICK p \in Log!Content : Log!At(p) = e
  BY <1>1, KeptPlace
<1>3. PICK q \in Log!Content : (Log!Adjoins(p, q) \/ Log!Adjoins(q, p)) /\ Log!At(q) # Log!Newline
  BY <1>1, <1>2 DEF Log!Lost, Log!Legible, Log!OwnLines, IsEntry
<1>4. p \in Held /\ q \in Held
  BY <1>1, <1>2, <1>3, KeptPlace
<1>5. /\ p = <<p[1], p[2]>> /\ p[1] \in Nat /\ p[2] \in Nat \ {0}
      /\ q = <<q[1], q[2]>> /\ q[1] \in Nat /\ q[2] \in Nat \ {0}
      /\ p[2] < Len(file[p[1]]) /\ Len(file[p[1]]) \in Nat /\ Len(file[q[1]]) \in Nat
  BY <1>1, <1>2, <1>4, HeldFacts, FileTypes DEF SessionInv, Followed
<1>6. p \notin Stubs
  BY <1>1, <1>2 DEF Stubs
<1>7. CASE Log!Adjoins(p, q)
  <2>1. q = <<p[1], p[2] + 1>>
    BY <1>5, <1>7 DEF Log!Adjoins
  <2>2. q[2] > 1 /\ <<q[1], q[2] - 1>> = p
    BY <1>5, <2>1
  <2>3. q \in Collisions
    BY <1>1, <1>2, <1>3, <1>4, <1>6, <2>2 DEF Collisions
  <2> QED
    BY <1>2, <2>2, <2>3
<1>8. CASE p = <<q[1], q[2] + 1>>
  <2>1. p[2] > 1 /\ <<p[1], p[2] - 1>> = q /\ q[2] # Len(file[q[1]])
    BY <1>5, <1>8
  <2>2. CASE q \in Stubs
    BY <1>2, <1>8, <2>1, <2>2 DEF After
  <2>3. CASE q \notin Stubs
    BY <1>1, <1>2, <1>3, <1>4, <2>1, <2>3 DEF Collisions
  <2> QED
    BY <2>2, <2>3
<1>9. CASE q[2] = Len(file[q[1]]) /\ p = <<q[1] + 1, 1>>
  <2>1. After(q) = p
    BY <1>9 DEF After
  <2>2. Log!At(q) \notin acked
    BY <1>4, <1>5, <1>9 DEF SessionInv, Followed
  <2>3. CASE q \in Stubs
    BY <1>2, <2>1, <2>3
  <2>4. CASE q \notin Stubs
    <3>1. PICK w \in Writers : writer[w].pc = "line" /\ writer[w].entry = Log!At(q)
      BY <1>3, <1>4, <2>2, <2>4 DEF Stubs
    <3>2. IsEntry(writer[w].entry)
      BY <3>1 DEF SessionInv, Apiece
    <3>3. \A x \in Held : Log!At(x) = writer[w].entry => x = q
      BY <1>4, <3>1, <3>2 DEF SessionInv, Apiece
    <3>4. PlaceOf(w) = q
      BY <1>4, <3>1, <3>3 DEF PlaceOf
    <3> QED
      BY <1>2, <2>1, <3>1, <3>4 DEF Log!Halfway
  <2> QED
    BY <2>3, <2>4
<1> QED
  BY <1>3, <1>7, <1>8, <1>9 DEF Log!Adjoins

\* An overlap costs two entries at most, a cut write one, and so does a newline still to come.
LEMMA LostBound ==
    ASSUME SessionInv, Log!Readable
    PROVE  IsFiniteSet(Log!Lost) /\ Cardinality(Log!Lost) <= cuts + 2 * overlaps + Cardinality(Log!Halfway)
<1> DEFINE A == [q \in Stubs |-> Log!At(After(q))]
           B == [q \in Collisions |-> Log!At(q)]
           C == [q \in Collisions |-> Log!At(<<q[1], q[2] - 1>>)]
           D == [w \in Log!Halfway |-> Log!At(After(PlaceOf(w)))]
           a == {A[q] : q \in Stubs}
           b == {B[q] : q \in Collisions}
           c == {C[q] : q \in Collisions}
           d == {D[w] : w \in Log!Halfway}
<1>1. /\ IsFiniteSet(Stubs) /\ IsFiniteSet(Collisions) /\ IsFiniteSet(Log!Halfway)
      /\ Cardinality(Stubs) <= cuts /\ Cardinality(Collisions) <= overlaps
      /\ Cardinality(Stubs) \in Nat /\ Cardinality(Collisions) \in Nat /\ Cardinality(Log!Halfway) \in Nat
      /\ cuts \in Nat /\ overlaps \in Nat
  BY FS_CardinalityType DEF SessionInv, Counted, Log!TypeOK
<1>2. \A e \in Log!Lost : e \in a \/ e \in b \/ e \in c \/ e \in d
  BY LostNeighbours
<1>3. IsFiniteSet(a) /\ Cardinality(a) <= Cardinality(Stubs)
  <2>1. A = [q \in Stubs |-> A[q]]
    OBVIOUS
  <2> HIDE DEF A
  <2> QED
    BY <1>1, <2>1, ImageBound
<1>4. IsFiniteSet(b) /\ Cardinality(b) <= Cardinality(Collisions)
  <2>1. B = [q \in Collisions |-> B[q]]
    OBVIOUS
  <2> HIDE DEF B
  <2> QED
    BY <1>1, <2>1, ImageBound
<1>5. IsFiniteSet(c) /\ Cardinality(c) <= Cardinality(Collisions)
  <2>1. C = [q \in Collisions |-> C[q]]
    OBVIOUS
  <2> HIDE DEF C
  <2> QED
    BY <1>1, <2>1, ImageBound
<1>6. IsFiniteSet(d) /\ Cardinality(d) <= Cardinality(Log!Halfway)
  <2>1. D = [w \in Log!Halfway |-> D[w]]
    OBVIOUS
  <2> HIDE DEF D
  <2> QED
    BY <1>1, <2>1, ImageBound
<1> HIDE DEF a, b, c, d
<1>7. Cardinality(a) \in Nat /\ Cardinality(b) \in Nat /\ Cardinality(c) \in Nat /\ Cardinality(d) \in Nat
  BY <1>3, <1>4, <1>5, <1>6, FS_CardinalityType
<1>8. IsFiniteSet(a \union b) /\ Cardinality(a \union b) <= Cardinality(a) + Cardinality(b)
  BY <1>3, <1>4, UnionBound
<1>9. IsFiniteSet(c \union d) /\ Cardinality(c \union d) <= Cardinality(c) + Cardinality(d)
  BY <1>5, <1>6, UnionBound
<1>10. /\ IsFiniteSet((a \union b) \union (c \union d))
       /\ Cardinality((a \union b) \union (c \union d)) <= Cardinality(a \union b) + Cardinality(c \union d)
  BY <1>8, <1>9, UnionBound
<1>11. Log!Lost \subseteq (a \union b) \union (c \union d)
  BY <1>2
<1>12. IsFiniteSet(Log!Lost) /\ Cardinality(Log!Lost) <= Cardinality((a \union b) \union (c \union d))
  BY <1>10, <1>11, FS_Subset
<1>13. Cardinality(Log!Lost) \in Nat /\ Cardinality((a \union b) \union (c \union d)) \in Nat
  BY <1>10, <1>12, FS_CardinalityType
<1>14. Cardinality(a \union b) \in Nat /\ Cardinality(c \union d) \in Nat
  BY <1>8, <1>9, FS_CardinalityType
<1>15. Cardinality(Log!Lost) <= cuts + 2 * overlaps + Cardinality(Log!Halfway)
  BY <1>1, <1>3, <1>4, <1>5, <1>6, <1>7, <1>8, <1>9, <1>10, <1>12, <1>13, <1>14
<1> QED
  BY <1>12, <1>15

\* What is lost is bounded, the rest is in order, and what is gone stays gone.
LEMMA SoundTranscripts == ASSUME SessionInv PROVE TranscriptsAreTrue
<1>1. Log!TypeOK
  BY DEF SessionInv
<1>2. \A p \in Log!Legible : p \in Log!Content /\ p \in Held /\ IsEntry(Log!At(p))
  BY <1>1, HeldFacts DEF Log!Legible, Log!OwnLines, IsEntry
<1>3. Log!InOrder
  <2> SUFFICES ASSUME NEW p \in Log!Legible, NEW q \in Log!Legible,
                      Log!At(p) \in kept, Log!At(q) \in kept, Log!At(p) \in before[Log!At(q).n]
               PROVE  Log!Precedes(p, q)
    BY DEF Log!InOrder
  <2> QED
    BY <1>2 DEF SessionInv, Ordered, Current
<1>4. ASSUME cuts = 0, overlaps = 0, Log!Halfway = {}, NEW t \in kept, t.kind = "tombstone", NEW p \in Log!Loaded
      PROVE  Log!At(p).n # t.of
  <2>1. Cardinality(Log!Halfway) = 0 /\ Log!Readable
    BY <1>4, FS_EmptySet DEF Log!Loaded, Log!Legible
  <2>2. Cardinality(Log!Lost) <= 0 /\ IsFiniteSet(Log!Lost)
    BY <1>4, <2>1, LostBound
  <2>3. Log!Lost = {}
    <3>1. Cardinality(Log!Lost) \in Nat
      BY <2>2, FS_CardinalityType
    <3> QED
      BY <2>2, <3>1, FS_EmptySet
  <2>4. PICK q \in Log!Legible : Log!At(q) = t
    BY <1>4, <2>3 DEF Log!Lost
  <2>5. t.of \in Log!Tombstoned
    BY <1>4, <2>4 DEF Log!Tombstoned
  <2> QED
    BY <2>5 DEF Log!Loaded
<1>5. \A p \in Log!Legible : Log!At(p) \notin gone
  BY <1>2 DEF SessionInv, Removing
<1>6. \A S : Log!Cardinality(S) = Cardinality(S)
  BY DEF Log!Cardinality, Cardinality
<1>7. Log!AckedAreRead
  BY <1>3, <1>6, LostBound DEF Log!AckedAreRead, Log!LostAreFew
<1>8. Log!DeletedStaysDeleted
  BY <1>4, <1>5 DEF Log!DeletedStaysDeleted
<1> QED
  BY <1>7, <1>8
  DEF TranscriptsAreTrue, Log!TranscriptsAreTrue

\* As long as no write was cut inside a character, every entry that was acknowledged is read back
\* but for lines that ran together where a write was cut or two overlapped, two entries an overlap at
\* most. Whatever was cut, and wherever, what is read back is in the order it was begun in, and
\* nothing of it was deleted: by however many writers and in however many parts
\* (session_storage.rs, sessions.rs).
THEOREM TranscriptsHold == Log!Spec => []TranscriptsAreTrue
<1>1. Log!Spec => []SessionInv
  BY InitSession, StepSession, PTL DEF Log!Spec
<1> QED
  BY <1>1, SoundTranscripts, PTL
=============================================================================
