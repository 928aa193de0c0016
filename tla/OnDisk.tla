-------------------------------- MODULE OnDisk --------------------------------
(***************************************************************************)
(* What a crash leaves behind, in three components that share nothing: the *)
(* parts of a session's transcript, the self-improvement loop with its     *)
(* registry of tools, and sandboxes with their snapshots.                  *)
(***************************************************************************)
EXTENDS Integers, Sequences, FiniteSets

CONSTANTS
    Writers, MessageSize, MaxSize, MaxParts,                 \* of the session
    MaxEntries, MaxCuts, MaxDeletes,
    Samples, MaxRounds, Proposals, MaxSolves, MaxTrouble,    \* of the loop
    BoxFiles, BoxKeys, Callers,                              \* of the sandboxes
    MaxBoxes, MaxSnaps, MaxStamps, MaxStopped, MaxDeaths

ASSUME SessionAssumption ==
    /\ MessageSize \in Nat \ {0} /\ MaxSize \in Nat \ {0} /\ MaxParts \in Nat \ {0}
    /\ MaxEntries \in Nat /\ MaxCuts \in Nat /\ MaxDeletes \in Nat

\* An orchestrator makes an attempt at least.
ASSUME SolveAssumption ==
    /\ Samples \in Nat \ {0} /\ MaxRounds \in Nat /\ Proposals \in Nat
    /\ MaxSolves \in Nat /\ MaxTrouble \in Nat

\* A sandbox has files, and a store keys: what is empty is copied in no step.
ASSUME BoxAssumption ==
    /\ BoxFiles # {} /\ BoxKeys # {}
    /\ MaxBoxes \in Nat /\ MaxSnaps \in Nat /\ MaxStamps \in Nat
    /\ MaxStopped \in Nat /\ MaxDeaths \in Nat

VARIABLES
    file, exists, writer, deleter, written, acked, cuts, deletes,
    overlaps, before, doomed, gone, kept,
    step, task, available, attempt, round, workdir, sandboxes, winner,
    entries, disk, hints, trouble, passed, announced,
    backend, boxes, store, counter, setting, images, origin, manifests, cache,
    caller, stamp, deaths, taken

sessionVars == <<file, exists, writer, deleter, written, acked, cuts, deletes,
                 overlaps, before, doomed, gone, kept>>
solveVars == <<step, task, available, attempt, round, workdir, sandboxes, winner,
               entries, disk, hints, trouble, passed, announced>>
boxVars   == <<backend, boxes, store, counter, setting, images, origin, manifests, cache,
               caller, stamp, deaths, taken>>

Log    == INSTANCE SessionFiles
Solver == INSTANCE Orchestrator WITH boxes <- sandboxes
Vm     == INSTANCE Snapshots
          WITH Files <- BoxFiles, Keys <- BoxKeys, crashes <- deaths, MaxCrashes <- MaxDeaths

(***************************************************************************)
(* A session that can be read is loaded with every entry that was          *)
(* acknowledged, in order, but for lines that ran together where a write   *)
(* was cut or two overlapped, and with none that was deleted.  It cannot   *)
(* be read while it holds a write that was cut inside a character.         *)
(***************************************************************************)
TranscriptsAreTrue == Log!TranscriptsAreTrue

(***************************************************************************)
(* Of a task's proposals only one that passed reaches the working          *)
(* directory and the registry, and a tool that solve returned is found     *)
(* again after every crash, unless its line was glued to one cut off, or   *)
(* one was cut off inside a character and the registry does not open.      *)
(***************************************************************************)
RecoveryIsSound == Solver!RecoveryIsSound

(***************************************************************************)
(* A snapshot that is known has all its files, after a restart too; and    *)
(* what is restored are the files and entries there were when the snapshot *)
(* was asked for, if nobody changed them while they were copied and the    *)
(* files are restored by the backend that saved them.                      *)
(***************************************************************************)
SnapshotsAreSound == Vm!SnapshotsAreSound
===============================================================================
