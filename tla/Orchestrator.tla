----------------------------- MODULE Orchestrator -----------------------------
(* The self-improvement loop (cersei-agentrl): Orchestrator::solve with the       *)
(* runner that works on directories (runner.rs), the registry of tools on disk    *)
(* (registry/mod.rs) and the hint left in memory (memory_bridge.rs, the session   *)
(* files of cersei-memory/src/lib.rs).                                            *)
(*                                                                               *)
(* A directory is the set of marks of those who worked in it: an attempt of the   *)
(* general agent, or a proposal in its sandbox. The tool made of a proposal has   *)
(* its mark for an id. Agents, verifiers and file systems may fail anywhere, and  *)
(* the process may die and be started again, which opens the registry.           *)
EXTENDS Integers, Sequences, FiniteSets

CONSTANTS Samples,      \* num_samples
          MaxRounds,    \* max_rl_rounds
          Proposals,    \* num_proposals
          MaxSolves,    \* bound: tasks
          MaxTrouble    \* bound: crashes, failed writes and copies

VARIABLES
    step,       \* where solve is; "closed" when the registry did not open
    task,       \* how many tasks were begun
    available,  \* the tools found for this one
    attempt, round,
    workdir,    \* the canonical working directory
    boxes,      \* the round's sandboxes
    winner,     \* the proposal that is promoted and registered
    entries,    \* ToolRegistry.entries: [id -> success_count]
    disk,       \* entries.jsonl
    hints,      \* the ids the stored session names
    trouble,    \* how many failures so far
    passed,     \* ghost: proposals that passed their verifier
    announced   \* ghost: tools that solve returned

registry == <<entries, disk>>
ghosts   == <<passed, announced>>
vars     == <<step, task, available, attempt, round, workdir, boxes, winner,
              registry, hints, trouble, ghosts>>

Newline  == <<"newline">>
Fragment == <<"fragment">>
Splinter == <<"splinter">>        \* a fragment that ends inside a character
Remains  == {Fragment, Splinter}
NoOne    == <<0, 0, 0>>
Mark(r, i)      == <<task, r, i>>
FromProposal(m) == m[2] > 0       \* attempts count as round 0

(* ToolRegistry::open: what a line of its own says is loaded, and a line that cannot
   be read is skipped; but a file that is no text fails read_to_string, and open. *)
Readable(file) == \A k \in DOMAIN file : file[k] # Splinter
OwnLines(file) == {file[k] : k \in {k \in DOMAIN file :
                     /\ file[k] \notin {Newline} \cup Remains
                     /\ k > 1 => file[k - 1] = Newline
                     /\ k < Len(file) => file[k + 1] = Newline}}
Loaded(file) == IF Readable(file) THEN OwnLines(file) ELSE {}

Init ==
    /\ step = "idle" /\ task = 0 /\ available = {} /\ attempt = 0 /\ round = 0
    /\ workdir = {} /\ boxes = <<>> /\ winner = NoOne
    /\ entries = <<>> /\ disk = <<>> /\ hints = {} /\ trouble = 0
    /\ passed = {} /\ announced = {}

local == <<available, attempt, round, boxes, winner>>

\* solve is over and what it held is dropped
Dropped ==
    /\ available' = {} /\ attempt' = 0 /\ round' = 0
    /\ boxes' = <<>> /\ winner' = NoOne
Returns == step' = "idle" /\ Dropped

Fails == trouble < MaxTrouble /\ trouble' = trouble + 1

-------------------------------------------------------------------------------
(* The general agent *)

Solve ==
    /\ step = "idle" /\ task < MaxSolves
    /\ step' = "general" /\ task' = task + 1 /\ attempt' = 1 /\ round' = 0
    /\ available' \in SUBSET DOMAIN entries
    /\ UNCHANGED <<boxes, winner, workdir, registry, hints, trouble, ghosts>>

\* an agent adds files and removes some
Worked(dir, mark) == {(dir \ gone) \cup {mark} : gone \in {{}} \cup {{m} : m \in dir}}

\* each attempt works on what the one before left
Tries == workdir' \in Worked(workdir, Mark(0, attempt))

\* solved directly, or by a tool that was at hand
AttemptPasses ==
    /\ step = "general" /\ Tries /\ Returns
    /\ \/ UNCHANGED entries
       \/ \E t \in available : entries' = [entries EXCEPT ![t] = @ + 1]    \* record_success
    /\ UNCHANGED <<task, disk, hints, trouble, ghosts>>

AttemptFails ==
    /\ step = "general" /\ Tries
    /\ IF attempt < Samples THEN attempt' = attempt + 1 /\ UNCHANGED step
                            ELSE step' = "plan" /\ UNCHANGED attempt
    /\ UNCHANGED <<task, available, round, boxes, winner, registry, hints, trouble, ghosts>>

-------------------------------------------------------------------------------
(* Proposals, each in a copy of the working directory *)

\* Mutant: the sandbox is the working directory itself.
PlanInPlace ==
    /\ step = "plan" /\ round < MaxRounds
    /\ step' = "proposals" /\ round' = round + 1
    /\ \E n \in 1..Proposals : boxes' = [i \in 1..n |-> [dir |-> workdir, at |-> "works"]]
    /\ workdir' = workdir \cup {Mark(round + 1, 1)}
    /\ UNCHANGED <<task, available, attempt, winner, registry, hints, trouble, ghosts>>

Plan ==
    /\ step = "plan" /\ round < MaxRounds
    /\ step' = "proposals" /\ round' = round + 1
    /\ \E n \in 1..Proposals : boxes' = [i \in 1..n |-> [dir |-> workdir, at |-> "works"]]
    /\ UNCHANGED <<task, available, attempt, workdir, winner, registry, hints, trouble, ghosts>>

\* no proposal, or all rounds without a winner
GiveUp ==
    /\ step = "plan" /\ (round = MaxRounds \/ Proposals = 0) /\ Returns
    /\ UNCHANGED <<task, workdir, registry, hints, trouble, ghosts>>

\* the sandbox cannot be made, or the agent cannot be built
BoxFails(i) ==
    /\ step = "proposals" /\ boxes[i].at = "works" /\ Fails
    /\ boxes' = [boxes EXCEPT ![i].at = "failed"]
    /\ UNCHANGED <<step, task, available, attempt, round, workdir, winner, registry, hints, ghosts>>

\* the agent has done its work, and the verifier judges the sandbox
Verified(i, verdict) ==
    /\ step = "proposals" /\ boxes[i].at = "works"
    /\ \E dir \in Worked(boxes[i].dir, Mark(round, i)) :
         boxes' = [boxes EXCEPT ![i] = [dir |-> dir, at |-> verdict]]
    /\ passed' = IF verdict = "passed" THEN passed \cup {Mark(round, i)} ELSE passed
    /\ UNCHANGED <<step, task, available, attempt, round, workdir, winner, registry, hints, trouble, announced>>

Ended == \A i \in DOMAIN boxes : boxes[i].at # "works"

\* Mutant: the first one to come to an end wins.
FirstToEnd == CHOOSE i \in DOMAIN boxes : boxes[i].at # "works"

\* the first in the planner's order that passed
Winner == CHOOSE i \in DOMAIN boxes : /\ boxes[i].at = "passed"
                                      /\ \A j \in 1..(i - 1) : boxes[j].at # "passed"

Select ==
    /\ step = "proposals" /\ Ended
    /\ IF \E i \in DOMAIN boxes : boxes[i].at = "passed"
       THEN step' = "promote" /\ winner' = Mark(round, Winner) /\ UNCHANGED boxes
       ELSE step' = "plan" /\ boxes' = <<>> /\ UNCHANGED winner
    /\ UNCHANGED <<task, available, attempt, round, workdir, registry, hints, trouble, ghosts>>

-------------------------------------------------------------------------------
(* The winner: promote, register, remember *)

\* copy_dir copies over what is there, and where it stops half-way
Copied   == workdir \cup boxes[winner[3]].dir
HalfWay  == {workdir \cup (boxes[winner[3]].dir \ {m}) : m \in boxes[winner[3]].dir}

\* an error of the copy is ignored
Promote ==
    /\ step = "promote" /\ step' = "write"
    /\ \/ workdir' = Copied /\ UNCHANGED trouble
       \/ Fails /\ workdir' \in HalfWay
    /\ UNCHANGED <<task, local, registry, hints, ghosts>>

\* writeln! writes the line and the newline one after the other
WriteLine ==
    /\ step = "write" /\ step' = "end line" /\ disk' = Append(disk, winner)
    /\ UNCHANGED <<task, local, workdir, entries, hints, trouble, ghosts>>
EndLine ==
    /\ step = "end line" /\ step' = "insert" /\ disk' = Append(disk, Newline)
    /\ UNCHANGED <<task, local, workdir, entries, hints, trouble, ghosts>>

\* what may be left of a line when its write fails or the process dies
CutOff == {disk} \cup (IF step = "write" THEN {Append(disk, rest) : rest \in Remains} ELSE {})

\* Mutant: what cannot be written is kept in memory only.
WriteFailsUnnoticed ==
    /\ step \in {"write", "end line"} /\ Fails /\ step' = "insert" /\ disk' \in CutOff
    /\ UNCHANGED <<task, local, workdir, entries, hints, ghosts>>

\* solve returns the error, although the winner is promoted
WriteFails ==
    /\ step \in {"write", "end line"} /\ Fails /\ Returns /\ disk' \in CutOff
    /\ UNCHANGED <<task, workdir, entries, hints, ghosts>>

Insert ==
    /\ step = "insert" /\ step' = "remember"
    /\ entries' = [t \in DOMAIN entries \cup {winner} |-> IF t = winner THEN 0 ELSE entries[t]]
    /\ UNCHANGED <<task, local, workdir, disk, hints, trouble, ghosts>>

\* Memory::store replaces the session; an error is ignored
Remember ==
    /\ step = "remember" /\ Returns
    /\ \/ hints' = {winner} /\ UNCHANGED trouble
       \/ Fails /\ hints' \in {hints, {}}
    /\ announced' = announced \cup {winner}
    /\ UNCHANGED <<task, workdir, registry, passed>>

(* The process dies, in the middle of a file perhaps, and the next one opens the
   registry; where that fails there is no orchestrator. *)
Crash ==
    /\ step # "closed" /\ Fails /\ Dropped
    /\ disk' \in CutOff /\ entries' = [t \in Loaded(disk') |-> 0]
    /\ step' = IF Readable(disk') THEN "idle" ELSE "closed"
    /\ \/ UNCHANGED workdir
       \/ step = "general" /\ Tries
       \/ step = "promote" /\ workdir' \in HalfWay
    /\ \/ UNCHANGED hints
       \/ step = "remember" /\ hints' = {}
    /\ UNCHANGED <<task, ghosts>>

Quiet == (step = "closed" \/ (step = "idle" /\ task = MaxSolves)) /\ UNCHANGED vars

Next ==
    \/ Solve \/ AttemptPasses \/ AttemptFails \/ Plan \/ GiveUp \/ Select
    \/ \E i \in DOMAIN boxes : BoxFails(i) \/ \E v \in {"passed", "failed"} : Verified(i, v)
    \/ Promote \/ WriteLine \/ EndLine \/ WriteFails \/ Insert \/ Remember \/ Crash \/ Quiet

Spec == Init /\ [][Next]_vars

-------------------------------------------------------------------------------
Marks == (1..MaxSolves) \X Nat \X (Nat \ {0})

TypeOK ==
    /\ step \in {"closed", "idle", "general", "plan", "proposals", "promote", "write", "end line",
                "insert", "remember"}
    /\ task \in 0..MaxSolves /\ available \subseteq Marks
    /\ attempt \in 0..Samples /\ round \in 0..MaxRounds
    /\ workdir \subseteq Marks /\ winner \in Marks \cup {NoOne}
    /\ boxes \in Seq([dir : SUBSET Marks, at : {"works", "passed", "failed"}])
    /\ DOMAIN entries \subseteq Marks /\ (\A t \in DOMAIN entries : entries[t] \in Nat)
    /\ disk \in Seq(Marks \cup {Newline} \cup Remains) /\ hints \subseteq Marks
    /\ trouble \in 0..MaxTrouble /\ passed \subseteq Marks /\ announced \subseteq Marks

\* Only proposals that passed get into the working directory or the registry, one for a
\* task, however many passed; the sandboxes of the others leave nothing behind.
OnlyWinners ==
    LET kept == {m \in workdir : FromProposal(m)} \cup DOMAIN entries \cup Loaded(disk) IN
    /\ kept \subseteq passed
    /\ \A m, n \in kept : m[1] = n[1] => m = n

\* A tool that solve returned is at hand as long as there is a registry, and loaded again
\* by every later process, but for a line that was written behind one a failure cut off.
\* A line that was cut off inside a character keeps the registry from opening again.
Glued(t) == \E k \in DOMAIN disk :
                k > 1 /\ disk[k] = t /\ disk[k - 1] # Newline /\ disk[k - 1] \notin announced
ToolsAreKept ==
    \A t \in announced :
        \/ Glued(t)
        \/ /\ step # "closed" => t \in DOMAIN entries
           /\ Readable(disk) => t \in Loaded(disk)

(* Of a task's proposals only one that passed is promoted and registered, and what was
   registered stays. *)
RecoveryIsSound == OnlyWinners /\ ToolsAreKept

(* "Bridges solved problems into the GeneralAgent's memory so future runs recall them"
   (memory_bridge.rs:1). It fails: the hint replaces the session with those before. *)
HintsAreKept == trouble = 0 => announced \subseteq hints \cup (IF step = "remember" THEN {winner} ELSE {})

(* The verifier's verdict on the sandbox is true of the working directory. It fails: a
   file the proposal removed is still there. *)
PromotedIsVerified ==
    trouble = 0 /\ step = "write" => workdir = boxes[winner[3]].dir

(* "Bump the success counter for a tool (persisted lazily on next register)"
   (registry/mod.rs:162). It fails: register writes only the new entry. *)
SuccessesAreKept == [][\A t \in DOMAIN entries : t \in DOMAIN entries' => entries'[t] >= entries[t]]_vars
===============================================================================
