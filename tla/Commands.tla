-------------------------------- MODULE Commands --------------------------------
(* Commands run for an agent: by the Bash tool in the working directory of its     *)
(* session (cersei-tools/src/bash.rs, with exec of tool_primitives/process.rs), in *)
(* a sandbox (run of backends/local.rs and envd; docker.rs has a kind of its own), *)
(* and the two that hand out lines as they come (exec_streaming, and stream of a   *)
(* sandbox).                                                                       *)
(*                                                                                 *)
(* A command is the environment: a shell that writes lines to two pipes, changes   *)
(* directory, and may leave a process behind that keeps the pipes open.            *)
EXTENDS Naturals, Sequences, FiniteSets

CONSTANTS Jobs, Plans,  \* the calls that are made in one session, and of which kinds
          Dirs,       \* directories that may go away; the agent's own does not
          MaxLines,   \* bound: lines a command writes, for each kind and pipe
          Capacity    \* of a stream's channel (256 and 64 in the code)

Kinds  == {"bash", "run", "docker", "stream", "exec_streaming", "no_call"}
Pipes  == {"out", "err"}
Base   == "working_dir"
None   == "none"

(* What is written: a line of the shell or of the process it left, which may be the
   name of a directory, bash.rs's sentinel, which nobody else prints, or the directory
   that pwd prints. *)
Line(by, d) == [what |-> "line", by |-> by, dir |-> d]
Sentinel    == [what |-> "sentinel", by |-> "shell", dir |-> None]
Pwd(d)      == [what |-> "pwd", by |-> "shell", dir |-> d]
Chunk(what, pipe, item) == [what |-> what, pipe |-> pipe, item |-> item]

VARIABLES
    kind,       \* of each call
    phase,      \* "idle", "called", then "waited" or "expired" (exec_streaming), "done"
    shell,      \* "no", "runs", "exited" or "killed"
    left,       \* the process left behind runs
    where,      \* the shell's directory
    written,    \* what has been written to each pipe
    taken,      \* how much of it the pipe's reader task has passed on
    reading,    \* the reader task runs
    chan, listening, got,   \* a stream's channel, its receiver, and what came out of it
    result,     \* what the call returned
    from,       \* the directory a Bash call was told to start in
    before,     \* Bash calls that had returned when this one started
    cwd, gone   \* ShellState.cwd; directories that are gone

process == <<shell, left, where, written>>
readers == <<taken, reading>>
stream  == <<chan, listening, got>>
session == <<from, before, cwd>>
vars    == <<kind, phase, process, readers, stream, result, session, gone>>

NoResult == [how |-> None, out |-> <<>>, err |-> <<>>]

Init ==
    /\ kind \in Plans
    /\ phase = [j \in Jobs |-> IF kind[j] = "no_call" THEN "done" ELSE "idle"] /\ shell = [j \in Jobs |-> "no"]
    /\ left = [j \in Jobs |-> FALSE] /\ where = [j \in Jobs |-> Base]
    /\ written = [j \in Jobs |-> [p \in Pipes |-> <<>>]]
    /\ taken = [j \in Jobs |-> [p \in Pipes |-> 0]]
    /\ reading = [j \in Jobs |-> [p \in Pipes |-> FALSE]]
    /\ chan = [j \in Jobs |-> <<>>] /\ listening = [j \in Jobs |-> FALSE]
    /\ got = [j \in Jobs |-> <<>>] /\ result = [j \in Jobs |-> NoResult]
    /\ from = [j \in Jobs |-> Base] /\ before = [j \in Jobs |-> {}]
    /\ cwd = None /\ gone = {}

Streams(j)   == kind[j] \in {"stream", "exec_streaming"}
Runs(j)      == shell[j] = "runs"
HasEnded(j)  == shell[j] \in {"exited", "killed"}
Open(j)      == Runs(j) \/ left[j]      \* somebody may write to the pipes

(* The call reads the session's directory, spawns the shell, and the command begins
   with cd: into a directory that is gone it fails, and the shell stays where it is. *)
Start(j) ==
    /\ phase[j] = "idle"
    /\ phase' = [phase EXCEPT ![j] = "called"] /\ shell' = [shell EXCEPT ![j] = "runs"]
    /\ IF kind[j] = "bash"
       THEN LET dir == IF cwd = None THEN Base ELSE cwd IN
            /\ from' = [from EXCEPT ![j] = dir]
            /\ where' = [where EXCEPT ![j] = IF dir \in gone THEN Base ELSE dir]
            /\ before' = [before EXCEPT ![j] = {i \in Jobs : phase[i] = "done"}]
       ELSE UNCHANGED <<from, where, before>>
    /\ reading' = [reading EXCEPT ![j] = [p \in Pipes |-> Streams(j)]]
    /\ listening' = [listening EXCEPT ![j] = Streams(j)]
    /\ chan' = [chan EXCEPT ![j] = IF kind[j] = "stream" THEN << Chunk("started", None, None) >>
                                   ELSE <<>>]
    /\ UNCHANGED <<kind, left, written, taken, got, result, cwd, gone>>

-------------------------------------------------------------------------------
(* The command. Bash appends to it an echo of the sentinel and pwd, which are not
   reached when the command exits by itself. *)
Said(j) == \E k \in DOMAIN written[j].out : written[j].out[k] = Sentinel
Puts(j, p, item) == written' = [written EXCEPT ![j][p] = Append(@, item)]
Busy(j) == Runs(j) /\ ~Said(j)

\* into a pipe that the call still reads; only Bash looks for a directory in a line
Named(j)    == IF kind[j] = "bash" THEN Dirs \cup {Base, None} ELSE {None}
Lines(j, p) == SelectSeq(written[j][p], LAMBDA i : i.what = "line")
Write(j, p) ==
    /\ IF Streams(j) THEN reading[j][p] ELSE phase[j] = "called"
    /\ Len(Lines(j, p)) < MaxLines[kind[j]][p]
    /\ \/ Busy(j) /\ Puts(j, p, Line("shell", None))
       \/ left[j] /\ \E d \in Named(j) : Puts(j, p, Line("left", d))
    /\ UNCHANGED <<kind, phase, shell, left, where, readers, stream, result, session, gone>>

Cd(j) ==
    /\ Busy(j) /\ kind[j] = "bash"
    /\ \E d \in (Dirs \ gone) \cup {Base} : d # where[j] /\ where' = [where EXCEPT ![j] = d]
    /\ UNCHANGED <<kind, phase, shell, left, written, readers, stream, result, session, gone>>

LeaveBehind(j) ==
    /\ Busy(j) /\ ~left[j]
    /\ left' = [left EXCEPT ![j] = TRUE]
    /\ UNCHANGED <<kind, phase, shell, where, written, readers, stream, result, session, gone>>

Tell(j) ==
    /\ Busy(j) /\ kind[j] = "bash" /\ Puts(j, "out", Sentinel)
    /\ UNCHANGED <<kind, phase, shell, left, where, readers, stream, result, session, gone>>

Exit(j) ==
    /\ Runs(j)
    /\ shell' = [shell EXCEPT ![j] = "exited"]
    /\ IF Said(j) THEN Puts(j, "out", Pwd(where[j])) ELSE UNCHANGED written
    /\ UNCHANGED <<kind, phase, left, where, readers, stream, result, session, gone>>

LeftEnds(j) ==
    /\ left[j] /\ left' = [left EXCEPT ![j] = FALSE]
    /\ UNCHANGED <<kind, phase, shell, where, written, readers, stream, result, session, gone>>

Vanish(d) ==
    /\ d \notin gone /\ gone' = gone \cup {d}
    /\ UNCHANGED <<kind, phase, process, readers, stream, result, session>>

-------------------------------------------------------------------------------
(* wait_with_output: the shell has exited and both pipes are at their end. *)
Complete(j) == HasEnded(j) /\ ~left[j]

(* parse_sentinel_output: what is in front of the last sentinel is the output, and
   the line behind it the directory, whoever wrote it. *)
Marks(out) == {k \in DOMAIN out : out[k] = Sentinel}
Mark(out)  == CHOOSE k \in Marks(out) : \A l \in Marks(out) : l <= k
UserOutput(out) == IF Marks(out) = {} THEN out ELSE SubSeq(out, 1, Mark(out) - 1)
\* Mutant: the directory is the last line of the output.
LastLine(out) == IF Marks(out) = {} \/ out = <<>> THEN None ELSE out[Len(out)].dir
NewCwd(out) == IF Marks(out) = {} \/ Mark(out) = Len(out) THEN None
               ELSE out[Mark(out) + 1].dir

Return(j) ==
    /\ phase[j] = "called" /\ ~Streams(j) /\ Complete(j)
    /\ phase' = [phase EXCEPT ![j] = "done"]
    /\ LET out == written[j].out IN
       /\ result' = [result EXCEPT ![j] =
                       [how |-> "ok", err |-> written[j].err,
                        out |-> IF kind[j] = "bash" THEN UserOutput(out) ELSE out]]
       /\ cwd' = IF kind[j] = "bash" /\ NewCwd(out) \notin gone \cup {None}
                 THEN NewCwd(out) ELSE cwd
    /\ UNCHANGED <<kind, process, readers, stream, from, before, gone>>

\* Mutant: the child of a run is not killed when it is dropped.
TimeOutDetaches(j) ==
    /\ phase[j] = "called" /\ ~Streams(j) /\ ~Complete(j)
    /\ phase' = [phase EXCEPT ![j] = "done"]
    /\ result' = [result EXCEPT ![j].how = "timeout"]
    /\ UNCHANGED <<kind, process, readers, stream, session, gone>>

(* The timeout, which looks at the command first. The child is dropped, which kills
   the shell of a sandbox's run (kill_on_drop) and leaves that of exec alone. With
   Docker the child is the docker client, and the shell in the container runs on. *)
TimeOut(j) ==
    /\ phase[j] = "called" /\ ~Streams(j) /\ ~Complete(j)
    /\ phase' = [phase EXCEPT ![j] = "done"]
    /\ result' = [result EXCEPT ![j].how = "timeout"]
    /\ shell' = [shell EXCEPT ![j] = IF kind[j] = "run" /\ Runs(j) THEN "killed" ELSE @]
    /\ UNCHANGED <<kind, left, where, written, readers, stream, session, gone>>

-------------------------------------------------------------------------------
(* The reader task of one pipe sends each line, and waits while the channel is full.
   Once the receiver is gone a sandbox's stops reading, and exec_streaming's reads
   on for the result. *)
Pending(j, p) == reading[j][p] /\ taken[j][p] < Len(written[j][p])
\* Mutant: a line that cannot be sent is tried again.
PassOrWait(j, p) ==
    /\ Pending(j, p) /\ listening[j] /\ Len(chan[j]) < Capacity
    /\ taken' = [taken EXCEPT ![j][p] = @ + 1]
    /\ chan' = [chan EXCEPT ![j] = Append(@, Chunk("line", p, written[j][p][taken[j][p] + 1]))]
    /\ UNCHANGED <<kind, phase, process, reading, listening, got, result, session, gone>>
Pass(j, p) ==
    /\ Pending(j, p)
    /\ IF listening[j]
       THEN /\ Len(chan[j]) < Capacity
            /\ chan' = [chan EXCEPT ![j] = Append(@, Chunk("line", p, written[j][p][taken[j][p] + 1]))]
       ELSE UNCHANGED chan
    /\ IF listening[j] \/ kind[j] = "exec_streaming"
       THEN taken' = [taken EXCEPT ![j][p] = @ + 1] /\ UNCHANGED reading
       ELSE reading' = [reading EXCEPT ![j][p] = FALSE] /\ UNCHANGED taken
    /\ UNCHANGED <<kind, phase, process, listening, got, result, session, gone>>

PipeEnds(j, p) ==
    /\ reading[j][p] /\ ~Pending(j, p) /\ ~Open(j)
    /\ reading' = [reading EXCEPT ![j][p] = FALSE]
    /\ UNCHANGED <<kind, phase, process, taken, stream, result, session, gone>>

ReadersEnded(j) == \A p \in Pipes : ~reading[j][p]

\* Mutant: the end is told as soon as the shell has exited.
ExitUnjoined(j) ==
    /\ kind[j] = "stream" /\ phase[j] = "called" /\ HasEnded(j)
    /\ listening[j] => Len(chan[j]) < Capacity
    /\ phase' = [phase EXCEPT ![j] = "done"]
    /\ chan' = [chan EXCEPT ![j] = IF listening[j] THEN Append(@, Chunk("exit", None, None)) ELSE @]
    /\ UNCHANGED <<kind, process, readers, listening, got, result, session, gone>>

(* stream's third task: both readers first, then the shell, then the exit chunk. *)
SendExit(j) ==
    /\ kind[j] = "stream" /\ phase[j] = "called" /\ ReadersEnded(j) /\ HasEnded(j)
    /\ listening[j] => Len(chan[j]) < Capacity
    /\ phase' = [phase EXCEPT ![j] = "done"]
    /\ chan' = [chan EXCEPT ![j] = IF listening[j] THEN Append(@, Chunk("exit", None, None)) ELSE @]
    /\ UNCHANGED <<kind, process, readers, listening, got, result, session, gone>>

(* exec_streaming waits for the shell until its timeout, then for both readers, and
   only then kills a shell whose time was up. *)
Wait(j) ==
    /\ kind[j] = "exec_streaming" /\ phase[j] = "called"
    /\ \E w \in {"waited", "expired"} :
         /\ (w = "waited") <=> HasEnded(j)
         /\ phase' = [phase EXCEPT ![j] = w]
    /\ UNCHANGED <<kind, process, readers, stream, result, session, gone>>
Join(j) ==
    /\ phase[j] \in {"waited", "expired"} /\ ReadersEnded(j)
    /\ phase' = [phase EXCEPT ![j] = "done"]
    /\ shell' = [shell EXCEPT ![j] = IF Runs(j) THEN "killed" ELSE @]
    /\ result' = [result EXCEPT ![j] =
                    [how |-> IF phase[j] = "waited" THEN "ok" ELSE "timeout",
                     out |-> SubSeq(written[j].out, 1, taken[j].out),
                     err |-> SubSeq(written[j].err, 1, taken[j].err)]]
    /\ UNCHANGED <<kind, left, where, written, readers, stream, session, gone>>

(* The caller, who may drop the stream at any time. *)
Take(j) ==
    /\ listening[j] /\ chan[j] # <<>>
    /\ got' = [got EXCEPT ![j] = Append(@, Head(chan[j]))]
    /\ chan' = [chan EXCEPT ![j] = Tail(@)]
    /\ UNCHANGED <<kind, phase, process, readers, listening, result, session, gone>>
Drop(j) ==
    /\ listening[j]
    /\ listening' = [listening EXCEPT ![j] = FALSE] /\ chan' = [chan EXCEPT ![j] = <<>>]
    /\ UNCHANGED <<kind, phase, process, readers, got, result, session, gone>>

Command(j) == \/ \E p \in Pipes : Write(j, p)
              \/ Cd(j) \/ LeaveBehind(j) \/ Tell(j) \/ Exit(j) \/ LeftEnds(j)
Step(j)    == \/ Return(j) \/ TimeOut(j)
              \/ \E p \in Pipes : Pass(j, p) \/ PipeEnds(j, p)
              \/ SendExit(j) \/ Wait(j) \/ Join(j) \/ Take(j)
Over == (\A j \in Jobs : phase[j] = "done") /\ UNCHANGED vars
Next == \/ \E j \in Jobs : Start(j) \/ Command(j) \/ Step(j) \/ Drop(j)
        \/ \E d \in Dirs : Vanish(d)
        \/ Over

(* The runtime runs what is ready, timers fire, and the caller of a stream reads it;
   nothing makes a command end. *)
Fairness == \A j \in Jobs : WF_vars(Step(j))
Spec == Init /\ [][Next]_vars /\ Fairness
-------------------------------------------------------------------------------
TypeOK ==
    /\ kind \in Plans /\ kind \in [Jobs -> Kinds]
    /\ phase \in [Jobs -> {"idle", "called", "waited", "expired", "done"}]
    /\ shell \in [Jobs -> {"no", "runs", "exited", "killed"}]
    /\ left \in [Jobs -> BOOLEAN] /\ where \in [Jobs -> Dirs \cup {Base}]
    /\ \A j \in Jobs, p \in Pipes : taken[j][p] \in 0..Len(written[j][p])
    /\ \A j \in Jobs : Len(chan[j]) <= Capacity /\ (~listening[j] => chan[j] = <<>>)
    /\ from \in [Jobs -> Dirs \cup {Base}] /\ before \in [Jobs -> SUBSET Jobs]
    /\ cwd \in Dirs \cup {Base, None} /\ gone \subseteq Dirs

(* A result in time holds all that was written. The Bash tool's ends in front of the
   sentinel, behind which only a process left behind can have written a line. *)
IsPrefixOf(s, t) == Len(s) <= Len(t) /\ \A k \in DOMAIN s : s[k] = t[k]
LineOfShell(i)   == i.what = "line" /\ i.by = "shell"
ResultsAreWhole ==
    \A j \in Jobs : result[j].how = "ok" =>
        /\ result[j].err = written[j].err
        /\ IF kind[j] = "bash"
           THEN /\ IsPrefixOf(result[j].out, written[j].out)
                /\ \A k \in (Len(result[j].out) + 1)..Len(written[j].out) : ~LineOfShell(written[j].out[k])
           ELSE result[j].out = written[j].out

(* What a stream hands out of a pipe are its first lines, in order, and all of them
   when it says that the command has ended, which is the last it says. *)
OfPipe(chunks, p, n) == {i \in 1..n : chunks[i].pipe = p}
Nth(chunks, k)       == Cardinality(OfPipe(chunks, chunks[k].pipe, k))
Exits(chunks, k)     == chunks[k].what = "exit"
StreamsAreTrue ==
    \A j \in Jobs : Streams(j) => \A k \in DOMAIN got[j] :
        /\ got[j][k].what = "line" =>
              LET n == Nth(got[j], k)  pipe == written[j][got[j][k].pipe]
              IN n \in DOMAIN pipe /\ got[j][k].item = pipe[n]
        /\ Exits(got[j], k) =>
              /\ k = Len(got[j]) /\ ~Open(j)
              /\ \A p \in Pipes : Cardinality(OfPipe(got[j], p, k)) = Len(written[j][p])

(* Nothing a sandbox's run has answered for, but in Docker, nor an exec_streaming that
   has returned, is still a running shell. *)
NothingRunsOn ==
    \A j \in Jobs : phase[j] = "done" /\ kind[j] \in {"run", "exec_streaming"} => ~Runs(j)

(* A Bash call that no other overlapped starts where the one before it ended, when that
   one ended in time and said so, and else where that one had started, or where a
   process led it that wrote a directory's name between the sentinel and pwd. *)
ToldTruly(i) == /\ result[i].how = "ok"
                /\ \E k \in DOMAIN written[i].out :
                     written[i].out[k] = Sentinel /\ written[i].out[k + 1].what = "pwd"
LedTo(i)     == {d \in Dirs \cup {Base} :
                   /\ result[i].how = "ok"
                   /\ \E k \in DOMAIN written[i].out :
                        written[i].out[k] = Sentinel /\ written[i].out[k + 1] = Line("left", d)}
Alone(i, j)  == kind[i] = "bash" /\ kind[j] = "bash" /\ before[j] = {i} /\ phase[j] # "idle"
SessionFollows ==
    \A i, j \in Jobs : Alone(i, j) =>
        IF ToldTruly(i) THEN from[j] = where[i] \/ (where[i] \in gone /\ from[j] = from[i])
        ELSE from[j] \in {from[i]} \cup LedTo(i)

(* What a command printed, where it ended and that it ended are what the call says. *)
CommandsAreTrue == ResultsAreWhole /\ StreamsAreTrue /\ NothingRunsOn /\ SessionFollows

(* A call that waits for a result gets one, if need be by its timeout; a stream ends
   once the command and whatever it left behind have. (Both stay so when they are.) *)
Due(j)      == phase[j] # "idle" /\ (Streams(j) => HasEnded(j) /\ ~left[j])
CommandsEnd == <>[](\A j \in Jobs : Due(j) => phase[j] = "done")

(* Not so: a command that was timed out is over; a stream is over at its timeout; the
   session is only where its own commands went. *)
TimedOutIsDead == \A j \in Jobs : result[j].how = "timeout" => ~Runs(j)
SessionIsOwn   == \A i, j \in Jobs : Alone(i, j) => from[j] \in {from[i], where[i]}
StreamsTimeOut == \A j \in Jobs : (phase[j] = "expired") ~> (phase[j] = "done")
=================================================================================
