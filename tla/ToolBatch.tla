----------------------------- MODULE ToolBatch -----------------------------
(***************************************************************************)
(* What happens to files while the calls of one response run in parallel:  *)
(* the read-before-edit guard, permissions and hooks, and the tools that   *)
(* read and write files (crates/cersei-agent/src/runner.rs, the ToolUse    *)
(* arm; crates/cersei-tools/src/file_*.rs, apply_patch.rs).                *)
(*                                                                         *)
(* join_all polls the calls of a batch in one task: they interleave at     *)
(* their awaits, the permission check, the hooks and every file operation. *)
(* A text is the set of marks of the calls whose contribution it holds; a  *)
(* file that does not exist holds none.  MultiEdit and NotebookEdit read   *)
(* and write once like Edit; an unknown tool ends like OpenFails.          *)
(***************************************************************************)
EXTENDS Integers, Sequences

CONSTANTS
    Names,         \* paths as a model spells them
    Files,
    Resolves,      \* resolve_path: the file the guard takes a name for
    Opens,         \* the file a tool opens under a name
    Tools,         \* the tools the model uses
    BatchSize,     \* bound: calls of one response
    MaxBatches, MaxRuns,  \* bounds
    MaxSurprises   \* bound: foreign writes and redirected calls

ASSUME BatchAssumption ==
    /\ Resolves \in [Names -> Files] /\ Opens \in [Names -> Files]
    /\ Tools \subseteq {"Read", "Write", "Edit", "ApplyPatch"}
    /\ BatchSize \in Nat /\ MaxBatches \in Nat /\ MaxRuns \in Nat
    /\ MaxSurprises \in Nat

VARIABLES
    pc,          \* "idle", "thinking" (the model's turn), "running" (a batch)
    disk,        \* the text of every file
    files_read,  \* the guard's set, fresh for every run
    calls,       \* the batch
    start,       \* the disk when the batch was dispatched
    seen,        \* <<run, file>>: a call of that run read or wrote the file
    nextMark, batches, runs, outside,
    rewrites     \* calls whose input a hook replaced

vars == <<pc, disk, files_read, calls, start, seen, nextMark, batches, runs, outside,
          rewrites>>
bounds == <<batches, runs, outside>>

Text == SUBSET Nat
Missing == {}

\* only a patch names several files
Requests == {r \in [tool : Tools, names : SUBSET Names] :
                \/ r.tool = "ApplyPatch" /\ r.names # {}
                \/ \E n \in Names : r.names = {n}}

\* barred: refused, denied or blocked; files: what the call works on; todo: what
\* is left of it; at: the file in hand; buffer: what was read from it
Call == [tool : Tools, names : SUBSET Names, barred : BOOLEAN,
         files : SUBSET Files, todo : SUBSET Files, at : SUBSET Files,
         step : {"gate", "open", "store", "done"}, buffer : Text, mark : Nat, ok : BOOLEAN]

Init ==
    /\ pc = "idle" /\ disk \in [Files -> {Missing, {0}}] /\ files_read = {}
    /\ calls = << >> /\ start = disk /\ seen = {}
    /\ nextMark = 1 /\ batches = 0 /\ runs = 0 /\ outside = 0 /\ rewrites = 0

\* ApplyPatch joins its targets with the working directory; the others open a
\* relative path where the process runs
Opened(tool, names) ==
    IF tool = "ApplyPatch" THEN {Resolves[n] : n \in names} ELSE {Opens[n] : n \in names}

Writes(tool) == tool # "Read"

-----------------------------------------------------------------------------
(* Runs and batches *)

\* files_read is a local of run_agent_streaming
StartRun ==
    /\ pc = "idle" /\ runs < MaxRuns
    /\ pc' = "thinking" /\ runs' = runs + 1 /\ files_read' = {}
    /\ UNCHANGED <<disk, calls, start, seen, nextMark, batches, outside, rewrites>>

EndRun ==
    /\ pc = "thinking"
    /\ pc' = "idle"
    /\ UNCHANGED <<disk, files_read, calls, start, seen, nextMark, bounds, rewrites>>

\* read_before_edit_block
Refuses(r) ==
    /\ Writes(r.tool)
    /\ \E n \in r.names : Resolves[n] \notin files_read /\ disk[Resolves[n]] # Missing

Prepared(r, mark, refused, step) ==
    LET files == Opened(r.tool, r.names) IN
    [tool |-> r.tool, names |-> r.names, barred |-> refused, files |-> files,
     todo |-> files, at |-> {}, step |-> step, buffer |-> {}, mark |-> mark, ok |-> FALSE]

\* Mutants: a refused call runs all the same (the guard used to look at its
\* result); one known target of a patch lets all of them through.
RefusedButRun(r, mark) == Prepared(r, mark, Refuses(r), "gate")

OneKnownTargetWillDo(r, mark) ==
    LET refused == Refuses(r) /\ \A n \in r.names : Resolves[n] \notin files_read
    IN Prepared(r, mark, refused, IF refused THEN "done" ELSE "gate")

\* a refused call is answered with an error and never runs
Admit(r, mark) == Prepared(r, mark, Refuses(r), IF Refuses(r) THEN "done" ELSE "gate")

\* refusals_for_batch decides for every call before any of them runs
Dispatch(batch) ==
    /\ pc = "thinking" /\ batches < MaxBatches
    /\ pc' = "running" /\ batches' = batches + 1 /\ start' = disk
    /\ calls' = [i \in DOMAIN batch |-> Admit(batch[i], nextMark + i)]
    /\ nextMark' = nextMark + Len(batch)
    /\ UNCHANGED <<disk, files_read, seen, runs, outside, rewrites>>

\* Mutant of the bookkeeping: only reads count.
OnlyReadsCount(c) == c.ok /\ ~Writes(c.tool)

\* a successful write counts as much as a read
Counts(c) == c.ok

\* the results are worked off in one go: the files named (not those a hook made
\* of them) are recorded
Record ==
    /\ pc = "running" /\ \A i \in DOMAIN calls : calls[i].step = "done"
    /\ pc' = "thinking"
    /\ files_read' = files_read \union
         UNION {{Resolves[n] : n \in calls[i].names} :
                    i \in {j \in DOMAIN calls : Counts(calls[j])}}
    /\ seen' = seen \union
         UNION {{runs} \X calls[i].files : i \in {j \in DOMAIN calls : calls[j].ok}}
    /\ calls' = << >>
    /\ UNCHANGED <<disk, start, nextMark, bounds, rewrites>>

-----------------------------------------------------------------------------
(* One call: permission, hooks, files *)

Step(i, from) == pc = "running" /\ i \in DOMAIN calls /\ calls[i].step = from

Becomes(i, call) ==
    /\ calls' = [calls EXCEPT ![i] = call]
    /\ UNCHANGED <<pc, files_read, start, seen, nextMark, bounds>>

Goes(i, call) == Becomes(i, call) /\ UNCHANGED rewrites

Done(i, ok) == [calls[i] EXCEPT !.step = "done", !.ok = ok, !.at = {}, !.buffer = {}]

\* the permission policy denies, or a hook blocks
Bar(i) ==
    /\ Step(i, "gate") /\ Goes(i, [Done(i, FALSE) EXCEPT !.barred = TRUE])
    /\ UNCHANGED disk

Pass(i) == Step(i, "gate") /\ Goes(i, [calls[i] EXCEPT !.step = "open"]) /\ UNCHANGED disk

\* ModifyInput: the tool runs on another input than the guard looked at
Rewrite(i, name) ==
    /\ Step(i, "gate") /\ outside + rewrites < MaxSurprises
    /\ rewrites' = rewrites + 1
    /\ LET files == Opened(calls[i].tool, {name}) IN
         Becomes(i, [calls[i] EXCEPT !.step = "open", !.files = files, !.todo = files])
    /\ UNCHANGED disk

\* a file that is missing, an old_string that does not match, an I/O error
OpenFails(i) == Step(i, "open") /\ Goes(i, Done(i, FALSE)) /\ UNCHANGED disk

Read(i) ==
    /\ Step(i, "open") /\ calls[i].tool = "Read"
    /\ \A f \in calls[i].todo : disk[f] # Missing
    /\ Goes(i, Done(i, TRUE))
    /\ UNCHANGED disk

\* what the new text is made from: Write from nothing, Edit from a file that is
\* there, ApplyPatch from either, one target after the other
Load(i, f) ==
    /\ Step(i, "open") /\ Writes(calls[i].tool) /\ f \in calls[i].todo
    /\ calls[i].tool = "Edit" => disk[f] # Missing
    /\ Goes(i, [calls[i] EXCEPT !.step = "store", !.at = {f},
                   !.buffer = IF calls[i].tool = "Write" THEN {} ELSE disk[f]])
    /\ UNCHANGED disk

NewText(c) == c.buffer \union {c.mark}

\* Mutant: the call reports success after its first file.
StoreFirst(i) ==
    /\ Step(i, "store")
    /\ disk' = [f \in Files |-> IF f \in calls[i].at THEN NewText(calls[i]) ELSE disk[f]]
    /\ Goes(i, Done(i, TRUE))

Store(i) ==
    /\ Step(i, "store")
    /\ disk' = [f \in Files |-> IF f \in calls[i].at THEN NewText(calls[i]) ELSE disk[f]]
    /\ LET left == calls[i].todo \ calls[i].at IN
         Goes(i, IF left = {} THEN Done(i, TRUE)
                 ELSE [calls[i] EXCEPT !.step = "open", !.todo = left, !.at = {}])

\* fs::write truncates first: a failing one may leave part of the new text
StoreFails(i) ==
    /\ Step(i, "store") /\ Goes(i, Done(i, FALSE))
    /\ \/ UNCHANGED disk
       \/ disk' = [f \in Files |-> IF f \in calls[i].at THEN {calls[i].mark} ELSE disk[f]]

\* Bash, a watcher, a person: someone who asks no guard
Outside(f) ==
    /\ outside + rewrites < MaxSurprises
    /\ outside' = outside + 1 /\ nextMark' = nextMark + 1
    /\ disk' = [disk EXCEPT ![f] = {nextMark + 1}]
    /\ UNCHANGED <<pc, files_read, calls, start, seen, batches, runs, rewrites>>

-----------------------------------------------------------------------------
Rest == pc = "idle" /\ runs = MaxRuns /\ UNCHANGED vars

CallStep(i) ==
    \/ Bar(i) \/ Pass(i) \/ OpenFails(i) \/ Read(i) \/ Store(i) \/ StoreFails(i)
    \/ \E n \in Names : Rewrite(i, n)
    \/ \E f \in Files : Load(i, f)

Next ==
    \/ StartRun \/ EndRun \/ Record \/ Rest
    \/ \E n \in 1..BatchSize : \E batch \in [1..n -> Requests] : Dispatch(batch)
    \/ \E i \in DOMAIN calls : CallStep(i)
    \/ \E f \in Files : Outside(f)

Spec == Init /\ [][Next]_vars

-----------------------------------------------------------------------------
TypeOK ==
    /\ pc \in {"idle", "thinking", "running"}
    /\ disk \in [Files -> Text] /\ start \in [Files -> Text]
    /\ files_read \subseteq Files /\ seen \subseteq Nat \X Files
    /\ calls \in Seq(Call)
    /\ \A i \in DOMAIN calls : /\ calls[i].at \subseteq calls[i].todo
                               /\ calls[i].todo \subseteq calls[i].files
    /\ nextMark \in Nat /\ batches \in Nat /\ runs \in Nat /\ outside \in Nat /\ rewrites \in Nat

\* "Nothing was written": a call that was refused, denied or blocked leaves no
\* trace on any file, so disk and conversation agree about it (F-11).
BarredCallsLeaveNoTrace ==
    \A i \in DOMAIN calls : calls[i].barred =>
        \A f \in Files : calls[i].mark \notin disk[f]

\* an earlier batch of this run read or wrote the file, successfully
Met(f) == <<runs, f>> \in seen

\* "Refuse a blind overwrite: writing a file that exists but was never read." As
\* long as no hook redirects a call, a file that existed when a batch was
\* dispatched is only written by it when an earlier batch of the run read or wrote it:
\* neither a read in the same batch nor a failed one will do.
NoBlindOverwrite ==
    [][\A f \in Files :
         pc = "running" /\ outside' = outside /\ rewrites = 0
            /\ disk'[f] # disk[f] /\ start[f] # Missing
            => Met(f)]_vars

\* The guard never stands in the way of a run that read or wrote every file the
\* call is about: a model may always revise what it has itself created.
RefusalsJustified ==
    [][pc = "thinking" /\ pc' = "running" /\ rewrites = 0 =>
         \A i \in DOMAIN calls' : calls'[i].barred =>
            \E f \in calls'[i].files : <<runs, f>> \notin seen]_vars

AllDone == pc = "running" /\ \A i \in DOMAIN calls : calls[i].step = "done"

\* When nobody else touches its files, a call that reports success has its text
\* in every one of them when the batch ends, and what it does not replace is
\* still there.
LoneCallsLand ==
    AllDone /\ outside = 0 =>
        \A i \in DOMAIN calls :
            /\ calls[i].ok /\ Writes(calls[i].tool)
            /\ \A j \in DOMAIN calls \ {i} :
                 Writes(calls[j].tool) => calls[j].files \cap calls[i].files = {}
            => \A f \in calls[i].files :
                 disk[f] = {calls[i].mark} \union
                             (IF calls[i].tool = "Write" THEN {} ELSE start[f])

(* What comments and messages say, and the code does not do *)

\* "The file {} has been updated."
ReportedEditsAreThere ==
    AllDone /\ outside = 0 /\ (\A i \in DOMAIN calls : calls[i].tool = "Edit" /\ calls[i].ok) =>
        \A i \in DOMAIN calls : \A f \in calls[i].files : calls[i].mark \in disk[f]
=============================================================================
