----------------------------- MODULE MCKvStore -----------------------------
(***************************************************************************)
(* The store with one caller and with callers that interleave: what only   *)
(* one caller is promised is checked of the first.  The threads may be     *)
(* exchanged; the keys may not, NoOp names one of them.                    *)
(***************************************************************************)
EXTENDS KvStore, TLC

ASSUME CallersAssumption == IsFiniteSet(Threads)

VARIABLE callers    \* the threads that call; never changes

Alone == Cardinality(callers) = 1

\* bounds of the interleaved store, which has many more states
SharedVersions == 2
SharedCrashes  == 1
Small == Alone \/ (seq <= SharedVersions /\ crashes <= SharedCrashes)

MCInit == Init /\ callers \in {Threads} \union {{t} : t \in Threads}
MCNext ==
    /\ UNCHANGED callers
    /\ \/ Next /\ Small' /\ \A t \in Threads \ callers : pc'[t] = "idle"
       \/ ~Alone /\ seq = SharedVersions /\ UNCHANGED vars
MCSpec == MCInit /\ [][MCNext]_<<vars, callers>>

Symmetry == Permutations(Threads)

(***************************************************************************)
(* With one caller the journal of persist is whole at every instant and up *)
(* to date whenever the last call has returned.                            *)
(***************************************************************************)
LoneJournalHolds == Alone => JournalHolds

(***************************************************************************)
(* With one caller the journalled store implements the durable map: what   *)
(* persist has renamed is what open finds.                                 *)
(***************************************************************************)
LoneMap  == IF Alone THEN map ELSE EmptySnapshot.entries
LoneDisk == IF Alone THEN journal.snap.entries ELSE EmptySnapshot.entries
LonePromise == INSTANCE DurableMap WITH live <- LoneMap, disk <- LoneDisk
LoneImplements == LonePromise!Spec
=============================================================================
