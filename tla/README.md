# A TLA+ development of cersei

cersei is a Rust SDK for coding agents: an agent loop over language-model
providers, tools that read and write a project, memory, hooks, permissions, sandboxes,
a workflow engine, a self-improvement loop and a terminal (22 directories of crates, docs
and benchmarks; about 51 000 lines of Rust under `crates/*/src`). This directory holds
models of the parts whose correctness depends on the order of events, TLC
configurations that check them, and TLAPS proofs about them.

Contents: 1 inventory, 2 modules and the code, 3 runs, 4 proofs,
5 disagreements between code and comments, 6 limits, 7 plan.

## 1. Inventory

| Part (crate, files) | State | Operations | What is hard | What makes it correct |
|---|---|---|---|---|
| Agent loop (`cersei-agent/runner.rs`) | message history, stored session, cancel token, per-run counters and flags, `files_read` | `run`, `reply`, `run_stream`, one turn, retries, stop reasons, nudges, save | failures, cancellation and restarts at every await; a history shared by all runs of an agent | requests a provider accepts; budgets; runs that end; sessions that are neither duplicated nor overwritten |
| Compaction (`compact.rs`) | none (pure) | cut, scan, snip, summarise | a cut in the wrong place wedges the conversation for good | results never lose the calls they answer; newest messages stay |
| Event stream (`lib.rs`, `events.rs`) | bounded event and control channels | `run`, `run_stream`, `next`, `collect`, `cancel` | full channels, dropped streams, a loop task that dies | no lost or reordered event; truthful result; cancellation that works |
| Tool batches (`runner.rs`, `cersei-tools`) | files on disk, `files_read` | guard, permission, hooks, Read, Write, Edit, ApplyPatch | calls of one response run in parallel; other processes write too | no blind overwrite; refused calls do nothing; successful ones are there |
| Commands (`cersei-tools/bash.rs`, `process.rs`, `cersei-vms/backends`) | a session's directory, pipes, a stream's channel | Bash, `exec`, `exec_streaming`, a sandbox's `run` and `stream` | slow commands, timeouts, processes left behind, parallel calls of one session | results that are what was printed; a session that goes on where it was |
| Shared store (`cersei-vms/primitives/kv.rs`) | concurrent map, version counter, journal file | `set`, `cas`, `delete`, `open` | races between threads; crashes between file operations | unique versions; a journal that survives; compare-and-swap |
| Sandboxes (`cersei-vms/backends`, `snapshot.rs`) | sandboxes, the shared store, images and manifests on disk | create, kill, pause, resume, snapshot, restore | a copy is many steps; callers restore side by side; crashes | a snapshot that is known is whole; what its backend restores is what was taken |
| Mailbox (`primitives/mailbox.rs`, `vm_tools.rs`) | topics, sequence counter, a subscription per sandbox | `publish`, `subscribe`, `recv` | publishers race; slow subscribers lag | order and gaps that can be told |
| Workflow engine (`cersei-workflows`) | outputs, results, suspend point, stored snapshots | build, compile, walk, parallel, branch, loop, suspend, resume | branches share memo and suspend point; resume replays | nothing done is done again or lost; a report that hides no failure |
| Delegation (`delegate.rs`, `delegate_tool.rs`, `coordinator.rs`) | semaphore, JoinSet | run a batch of child agents | permits, panics, order of results, a parent that is dropped | every task has a result, at its place; no child outlives its batch |
| Terminal (`abstract-cli/tui`, `permissions.rs`) | turns on the screen, the stream read, an overlay and the sender behind it, what was remembered | prompt, cancel, answer, change mode, commands | two runs overlap after a cancel; parallel calls ask at once; keys wait for a tick | an answer allows the call that is shown and is taken from no other; a turn is one run's whole text; the prompt comes back |
| Consolidation (`auto_dream.rs`) | lock file, state file | three gates, lock, release | several processes; stale locks; clocks | at most one consolidation |
| Memory (`cersei-memory`, `abstract-cli/sessions.rs`) | session files in parts, tombstones, graph | append, load, roll-over, delete, whole-file store | writers without a lock, crashes in mid-write, caps | what was acknowledged is read back, in order, from a file that is text; what was deleted stays away |
| LSP and MCP clients (`cersei-lsp`, `cersei-mcp`) | pending requests, servers, one mutex | start, request, timeout, reader and writer tasks | late answers, dead servers, one silent server | every caller gets the answer to its own request or an error |
| Self-improvement (`cersei-agentrl`) | tool registry on disk, rounds, working directory, hints | attempt, plan, run proposals, promote, register | failures and crashes between promotion and the registry's line | only a proposal that passed is promoted; a registered tool is found again |
| Provider answers (`cersei-provider`) | a response being assembled, the reader's table of calls, a bounded channel | read frames, route deltas, accumulate, finish | streams cut anywhere; interleaved, unnamed and cut-off calls; consumers that go away | a response that is what arrived, or an error |
| Provider requests (`cersei-provider`, `adapt.rs`) | none (pure) | messages, settings and tools of the three providers | three formats with rules of their own, for every conversation the loop can make, with calls nobody answered | a request that says what the conversation says, under settings that go together |
| Tasks and other tools (`cersei-tools`) | process-wide registries | create, update, stop | unguarded transitions | terminal states stay |
| Agent language, skills, compression, embeddings, line-based CLI, benchmarks | little | text, search, input and output | sequential algorithms | out of scope |

The parts meet in the agent: the loop owns the history, asks a provider, runs
hooks and tools, and stores the session through `Memory`; a caller, the terminal among
them, sees it through the event stream, the permission channel and the cancel token; tools
reach sandboxes, the shared store and the mailbox through extensions of their context;
workflows, delegation and the self-improvement loop run agents.
`PROJECT.json` lists every part with its status and every hazard with its line.

## 2. Modules and the code

```
History <--- AgentLoop <--- AgentLoopProof ---> Settings
   ^-------- Compaction <--- SideBySide - - > Delegate, Mailbox
   |                             ^---- SideBySideProof
   |                             ^---- MCSideBySide - - > MCRequests - - > Requests
   ^-------- Requests ---> Settings
StreamAccumulator <--- ProviderStream <--- MCProviderStream <--- MCOutside ---> Outside
                            ^------------- AnswerProof                            |
RpcClient <--- MCRpcClient                                                        |
   ^---------- WiresProof ---> EventStream, Outside - - > Commands <- - - - - - - '
DurableMap < = (refinement) = MCKvStore ---> KvStore
                                  ^---------- DiskProof ---> OnDisk - - > SessionFiles, Orchestrator, Snapshots
                                                               ^------- MCOnDisk
ToolBatch <--- MCToolBatch, ToolBatchProof
WorkflowGraph <--- WorkflowExecutor <--- MCWorkflow, WorkflowProof
Terminal <--- MCTerminal, TerminalProof
```

A solid arrow points from a module to one it EXTENDS; a broken one to an instance. The
modules SideBySide, MCSideBySide, MCOutside and MCOnDisk put components that share nothing into
one run: `part` says at the start which of them moves, so each is checked on its own and the
state spaces add up instead of multiplying. OnDisk declares what the three components of MCOnDisk
are instantiated with, and Outside the variables of Commands; WiresProof and
DiskProof hold the proofs of components that are alike: what is passed over channels, and what
survives a crash.

AgentLoop takes the response a provider gives as one step; ProviderStream is what happens
inside that step. Its `outcome` is `err` where AgentLoop has `StreamFails`, and an answer
whose calls are not asked to be run is a case of AgentLoop's `StopOther`. What AgentLoop
sends as a request Requests turns into the provider's form. Terminal's runs are those of
EventStream, with a batch in place of what produces the events.

**History** (`compact.rs`). Messages reduced to role, ids of `tool_use` blocks and
ids answered by `tool_result` blocks: what a provider validates. `Orphaned`,
`Unanswered`, `PairAwareSplit`, `SnipCompact` and `SummaryCompact` are the functions
of the same names. `PairAwareSplit` says *what* the loop computes; Compaction shows
that the loop computes it.

**Compaction** (`pair_aware_split`, `find_orphaned_tool_results`). The two loops, one
iteration per step, on every history of a given set. The interesting histories are the
malformed ones as well.

**AgentLoop** (`run_agent_streaming`). `pc` is the await the runner is parked at
(`request`, `backoff`, `stream`, `summarize`, `save`) or the code between two awaits.
One action per way out of each: `Accepted`, `Retryable` and `Rejected` are the arms of
the retry loop; `StreamFails` and `StreamEnds` the ends of a stream; `HookBlocks` and
`HookPasses` the PostModelTurn hooks; `VerifyNudge` to `Finish` the EndTurn arm in its
order of tests; `ToolBatch`, `ContinueTruncated`, `GiveUpTruncated`, `StopOther` the
other stop reasons; `Summarized` and `SummaryFails` the two results of compaction.
`local` holds the local variables of one call, so it is reset when the call returns;
`messages` belongs to the agent and survives; `stored` belongs to `Memory` and
survives `Crash`, after which a new process builds the agent with the same session id.
`Cancel` is possible at any time and never undone, as the token is never reset.
`setup` is the set of features the agent was built with (tools, compaction, benchmark
mode) and its prompts have (a test command), fixed for the agent's life. Which texts match
as a verification command, a failing test or a doom loop is a
nondeterministic choice among the outcomes the tool calls made so far allow.

**EventStream** (`run`, `run_stream`, `AgentStream`). The loop is reduced to "waits for
the provider", "sends an event" and "waits for compaction's summary", which can follow an
event and does not watch the token; the caller reads, drops or cancels. With
`Streaming = FALSE` it is `Agent::run`, which keeps the receiver and never reads it.

**ToolBatch** (the ToolUse arm and the file tools). A text is the set of marks of the
calls that contributed to it, so that a lost edit, a blind overwrite and a torn write
can be told apart. A call goes `gate` (permission, hooks), `open` (its file is read),
`store` (it is written), `done`; calls interleave at these points because `join_all`
polls them in one task and each awaits. `Resolves` is the guard's reading of a name,
`Opens` the tool's. `Rewrite` is a hook that answers ModifyInput and so redirects a call; `Outside`
is anybody else who writes a file (external).

**KvStore** (`kv.rs`). One step per access to shared state: the counter, one entry of
the map, truncating, writing and renaming the journal. A handle survives the rename of
its file (`Moved`), so a second writer's bytes can land in the journal itself.
**DurableMap** is what a caller is promised: changes take effect, a save makes them
durable, a restart returns to the last save. What needs one caller is stated in MCKvStore
for behaviours in which only one thread calls.

**Snapshots** (`backends/local.rs`, `backends/docker.rs`, `snapshot.rs`, `restore` of
`kv.rs`). The runtime's sandboxes, the store they share, and the registry of manifests,
which both backends keep in one place: a process has one backend, and after a `Crash` the next may
have the other, whose restore does not find the tree (`Tree`) and does not miss it.
`Snapshot` makes the id, `CopyFile` or `Commit` the image, `ReadEntry` and `ReadCounter` read
the store, `Put` and `Register` make the snapshot known, in this order; `Restore` to
`StoreCounter` is the way back, entry by entry while `SetBegins` and `SetEnds` go on. The local
backend copies a tree while its commands write, the other commits an image. A `Crash` leaves
images and manifests.

**Mailbox** (`mailbox.rs`, `vm_tools.rs`). A channel is a log with the positions of its
receivers; `Number` takes the sequence number and `Send` sends, two steps, as in `publish`.
A topic is made by whoever looks first (`Look`, `Make`). `Recv`, `Lags` and `TimesOut` are
the arms of RecvVmMessage, which takes its sandbox's subscription under a lock.

**Delegate** (`run_batch`, `delegate_tool.rs`). `Spawn` takes a permit and starts the next child,
`Join` takes the result of the child that ended first, `AllJoined` orders them. A child
`Answers`, `Fails`, `Panics`, or is aborted when the set is dropped, which it notices at
its next await (`StopsAtAwait`). `Abandon` drops the parent.

**Orchestrator** (`orchestrator.rs`, `runner.rs`, `registry/mod.rs`, `memory_bridge.rs`). A
directory is the set of marks of those who worked in it. `Solve` to `GiveUp` are the attempts
and rounds, `Verified` and `BoxFails` the proposals in their sandboxes, `Promote` copies the
winner's directory back, `WriteLine` and `EndLine` are the two writes of `writeln!` into the
registry, `Remember` the hint. Any of them may fail or be the last of a process (`Crash`). A line
may be cut inside a character (`Splinter`); then the next process cannot open the registry and
`step` is `closed`.

**WorkflowGraph** (`ir.rs`, `builder.rs`, `compile.rs`). A definition is nodes, edges in the
order they were added, and an entry. The builder's operations are operators on definitions,
so the workflows that are run are those the builder makes, and two written by hand that
`compile` accepts: branches that share a node, and a parallel without a join. `FindJoin` and
`Reachable` are the searches of the executor.

**WorkflowExecutor** (`executor.rs`, `store.rs`). `walk` calls itself: `walks` is the tree of
calls that are waiting or running, an address per call, with branches of a parallel node as
siblings. The tail calls (`continue_from`) replace a walk by its successor. A step is
`BeginStep` and then one of `StepDone`, `StepSuspends`, `StepFails`; walks interleave between
them because `join_all` polls them in one task. `Replay` is the memo, `Fork` to `JoinBranches`
`exec_parallel`, `TakeArm` and `FallThrough` `exec_branch`, `Iterate` to `LeaveLoop`
`exec_loop`, `Report` `assemble_result` with the save, `Resume` a later process that loads the
snapshot. An output is the stamp (run, iteration) of the execution that made it.

**StreamAccumulator** (`stream.rs`) is `process_event` and `into_response`, pure.
**ProviderStream** adds the reader task of each provider (`anthropic.rs`, `openai.rs`,
`gemini.rs`), the channel and the consumer. The provider is external: it means to say a
`plan` and may stop or break off between any two frames. `CallFrame` is the routing of an
OpenAI-compatible delta (`SlotFor`), `Cut` and `Break` the two ways its read loop ends and
all that follows it.

**Requests** (`anthropic.rs`, `anthropic_vertex.rs`, `openai.rs`, `gemini.rs`, `adapt.rs`). `Complete`
is one request: `Messages` writes the conversation, `AdaptedNames` and the schema operators the
tools, and `Options` of **Settings** the thinking, its budget, the temperature and the tool choice.
The properties compare what is posted with the conversation, in terms of the JSON alone; a
conversation may have calls without results, as a truncated response leaves them.

**Commands** (`bash.rs`, `tool_primitives/process.rs`, `run` and `stream` of the backends). The
command is external: `Write`, `Cd`, `LeaveBehind`, `Exit`. Bash appends a sentinel and `pwd`
to it (`Tell`) and reads its next directory out of what was printed (`NewCwd`): the line behind the
last sentinel, whoever wrote it, if there is such a directory; a process left behind may print one
there. `Return` and `TimeOut` are the two ends of a call that waits, the latter with a shell that is
killed (a sandbox's `run`), that is not (`exec`), or that is in a container, where only the client is
killed (kind `docker`); `Pass`, `PipeEnds`, `Wait`, `Join` and
`SendExit` the tasks behind a stream, `Take` and `Drop` its caller.

**RpcClient** (`cersei-lsp/client.rs`, `manager.rs`, `cersei-mcp/transport.rs`, `lib.rs`).
Both clients number requests, park a sender and let a reader task hand over the answer;
`kind` says which one it is, and the places where they differ are conjuncts on it. `Enter` is
`ensure_started`, `Ask` and `Write` `send_request`, `Writer` MCP's writer task, `Pump`
`dispatch_incoming`. `Cancel` drops the caller's future, as aborting a batch of child agents
does. The server is external; it `Speaks` what is no answer, or requests of its own under any
number, which either client takes for the answer to the request of that number.

**SessionFiles** (`session_storage.rs`, `sessions.rs`). A part is a sequence of entries, newlines
and fragments, because `writeln!` makes two writes and either may be cut, a fragment also inside a
character (`Splinter`): then `read_to_string` fails, and with it the whole load. A place is a part
and a position in it; what is read back are the places of the parts that are listed (`Content`)
whose neighbours, across parts too, are newlines (`Legible`). `Begin` chooses the part and `Line`
opens it, as the code does, so that a deletion or another writer may come between.

**Terminal** (`tui/event_loop.rs`, `tui/app.rs`, `permissions.rs`). The event loop's `select!` is
`Loop` and `Key`: `TakeRequest`, `TakeEvent` (`handle_agent_event`), `StreamCloses`, and the keys.
Enter and Esc wait in the terminal's queue (`Press`, `keys`) and are handled under what is shown by
then (`Answer`, `Dismiss`); other keys are one step, behind the queue. `Commit` is
`commit_turn`. A run's calls `Check` the policy, `Ask` through the permission channel and `Hear`.
Runs go on after a `Cancel`, so a second may be on while the first still asks.

## 3. Runs

Bounds are in the cfg files and the MC modules and small on purpose: every guard compares a
counter with a limit, so limits of 1 to 4 already give "below", "at" and "above".

| Run | Bounds | What it shows |
|---|---|---|
| `core` | 2 turns, 2 runs, 1 restart, batches of 0 or 2, keep 2, with and without compaction | results follow their calls, requests have the shape a provider takes, nothing is answered twice, compaction keeps the newest messages, saves neither duplicate nor overwrite a session (247 000 states) |
| `quiet` | 4 turns, 1 run, four setups from an agent without tools to benchmark mode with compaction, a provider that may stay silent | every run ends with a fair provider; cancelling leaves the three awaits, and without compaction it ends the run; a forced tool choice leaves with one request |
| `stream` | channels of 2 and 1, 4 events | nothing lost or reordered, truthful `collect`, token and provider end the run, the token not while a summary is awaited; the channel fills, is drained and is dropped |
| `parts` | compaction: all histories of up to 4 of 8 kinds of message, keep 1, 2, 3, 5; batch: 3 tasks, 2 permits; mailbox: 2 publishers, 2 sandboxes with 3 calls, channel of 1, 2 numbers, 4 reads; requests: conversations of three turns of nine kinds, one of which leaves a call unanswered, settings on both sides of each limit, up to 3 tools with colliding names, schemas with circular references | both loops compute what History says, in bounds; a batch answers every task in its place, within its permits, and ends; mail arrives in order or its loss is told; requests say what the conversation says, under settings that go together (479 000 states) |
| `store` | 2 threads (symmetric), 2 keys; one caller: 3 versions, 2 restarts; both: 2 versions, 1 restart | versions name one write; for one caller the journal is whole at every instant, up to date when idle, and the store implements DurableMap (1.6 million states) |
| `files` | 2 files with their names (symmetric), 2 batches of up to 2 calls, 1 surprise: a foreign write or a redirected call | the guard neither lets a blind overwrite through nor refuses a run its own files; refused calls leave no trace; lone successful calls land (2.1 million states) |
| `suspend` | eleven workflows of up to 7 nodes, lists and loops of at most 2 iterations, a start and 2 resumes | memo, suspension, joins, loops and reports (221 000 states) |
| `outside` | answers: 11 plans of up to 3 parts, calls of 0 to 2 fragments, 5 kinds of reader, 2 consumers, channel of 1; commands: two Bash calls in one session, a local sandbox's run, a Docker one's, a stream, and `exec_streaming`, 1 directory that may vanish, 1 to 3 lines, channel of 1 | no broken stream is an answer and calls do not mix, get lost or stay unanswered; a command's result is what it printed, and a session goes on where it was, or where a line behind its sentinel leads it; nobody is left waiting (539 000 states) |
| `rpc` | 2 tasks, 2 or 3 calls, 2 servers, pipes of 1, one number of the server's own | own answers, nothing left parked, every call ends (399 000 states) |
| `disk` | sessions: 2 writers (symmetric), 3 entries, 3 parts of 5 bytes, 2 cut writes, inside a character or not, 2 deletions, which may stop half-way; self-improvement: 2 tasks, 1 attempt, 2 rounds of 2 proposals, 2 failures or crashes; sandboxes: 2 files, 1 key, 2 callers, 3 sandboxes, 1 snapshot, 1 write, 1 stopped, 1 crash, behind which the backend may be the other | sessions that can be read are read back in order, and what was deleted stays away; only a proposal that passed is promoted, and registered tools survive while the file is text; a known snapshot is whole and its backend restores what was taken (994 000 states) |
| `terminal` | 3 tools, 2 batches of up to 2 calls, 2 prompts, 1 text each, 1 change of mode or command, 1 key in the queue, channels of 1 | an answer allows the call that is shown and is taken from none that still asks; a turn is one run's whole text; the prompt comes back (778 000 states) |
| `cas` | 2 threads, 1 key | section 5 |

Two runs of two turns suffice for `core`: what one run leaves to the next is the history,
the store and the token, and a second run meets every way the first can end. `quiet` has
four turns because a forced choice needs a nudge, the forced turn and a turn after it,
and benchmark mode has two kinds of nudge before. Two calls are enough for `files` because the
properties are about one call and what another does to it; the theorems of section 4 cover
any number.

Two resumes are enough for `suspend` because a run starts from nothing but the snapshot and the node
resumed: the first is of a run that began empty, the second of one that was itself resumed.
`outside` needs three parts for a text in front of two calls that take turns; what a reader
remembers of earlier ones is a table. In `rpc` a late answer needs a second request, and a dead
client a second server. In `disk` a message and a tombstone fill a part to the last byte and a
second message goes to the next; a second task meets the registry, and the directory, that a crash
in the first has left; two callers restore one snapshot side by side. Larger instances of Snapshots
(two snapshots, two writes; 11 million states) were checked during development. `terminal` has two
prompts, so that a cancelled run still asks while the next one streams, and batches of two, so that
a request meets an open overlay; a third call would only replace the overlay once more, and a second
key in the queue only meets what the first has closed. In `parts` a third task waits for a permit
one of the others holds, and a channel of one with two messages is the smallest a receiver can lag
in. Its conversations have three turns because the rules a provider has are about neighbours, and
what the past may not change needs one turn more.

Deadlock is checked everywhere. A `Rest`, `Done`, `Over` or `Quiet` step marks the states in
which the system may stop: no bound left and nobody waiting, the journal unreadable, the
stream closed, the run reported. Most modules state a `TypeOK`; the cfgs do not spend a property
on it. Those of AgentLoop, Compaction, KvStore, ToolBatch, EventStream, Delegate, Mailbox,
Orchestrator and Snapshots are proved or follow from an invariant that is (section 4), the
others were checked during development.

Each property of a passing run has a mutant, a definition next to the one it replaces
that makes a plausible mistake (a naive cut, an uncounted retry, a reload into a
history that is not empty, a counter read too early, a guard that looks at one target
of a patch, a sender that is kept when the overlay changes); TLC finds the property violated
with it. A property that is a conjunction has one for each of its conjuncts where they
are about different code.

**Fairness.** `QuietSpec` of AgentLoop assumes `RunnerFairness`, weak fairness of the steps that
need only the loop's task: the runtime polls it, and hooks, tools and `Memory` are taken to return.
Cancellation is checked under that alone, because a silent provider is when cancellation matters.
`EveryRunEnds` has `ProviderFairness`, that a provider answers eventually, as its own premise.
`QuietSpec` of EventStream lets both tasks run and the caller read; `StreamedRunEnds` and
`RunCompletes` add the end of the provider's answer, and that it answers a request for a summary,
again as a premise. What `StreamedRunEnds` says of the token needs neither, and excepts a summary
that never comes. `EveryRunIsReported` needs that the runtime polls the executor and that a step
returns; loops end because of `MAX_LOOP_ITERS`. `TurnEnds` lets the reader and the consumer run;
nothing makes the provider speak, so it begins when the connection is over: the HTTP client has no
timeout, and a provider that goes quiet holds the turn until it is cancelled. `CommandsEnd` lets the
runtime and its timers run and the caller of a stream read it; nothing makes a command end, so a
stream is promised an end only once its command and what it left behind have ended. `EveryCallEnds`
lets tasks and the timer run and a living server read its input. One that does not would block a
write for ever, as neither client has a timeout there (`client.rs:330`, `transport.rs:134`); and an
MCP server may come to that by itself, because its standard error is a pipe nobody drains
(`transport.rs:30`), on which it stops once it is full. Otherwise it may be silent or dead. Whether
a call succeeds is never assumed. `BatchEnds` lets the runtime poll the parent and a child that was
aborted; that children end is its premise. `PromptReturns` lets the runtime run what is ready and
the user answer what the terminal asks (`UserAnswers`: a key is pressed, and handled), with the end
of the provider's answers as a premise. It says nothing of the keys, which a stream that never
pauses keeps waiting (section 5).

## 4. Proofs

All proofs are for arbitrary constants; the assumptions are `LoopAssumption`,
`CutAssumption`, `StoreAssumption`, `CallersAssumption` (there are finitely many threads),
`BatchAssumption` of ToolBatch and the one of SideBySide (a batch has a permit),
`TopicAssumption` (publishers are not receivers), `StreamAssumption` of EventStream, the one of
ProviderStream (an answer gives each of its calls an id of its own) with `CallAssumption` (no
call's id is the empty one),
`RpcAssumption`, `CommandAssumption`, `SolveAssumption`, `BoxAssumption`, `TerminalAssumption` and
`WorkflowAssumption`: types of the constants, `keep_n > 0`, channels that have room, and that
what is copied piece by piece is not empty. TLC evaluates each of them in a run.

**AgentLoopProof.** *Histories.* `SplitProperties` (the `CHOOSE` of `PairAwareSplit` has a value, by
`LeastNat`, a least-element argument on naturals), `KeptProperties`,
`PairedPrepend`/`PairedAppend`, and from them `CompactionKeepsPairs`: both ways of compacting
preserve `Paired`. `PairedHasNoOrphans` is why `Paired` is the invariant to carry: "no
orphan" alone is not inductive, since a cut can orphan a result whose call is far in front
of it; "directly behind its call" is what the back-off loop relies on. `CompactedKeeps` and
`CompactedKeepsRecent` say what else of a history a compaction preserves. `SettingsAreTaken` is
about the other half of a request: a clamped budget is legal whatever was asked for and whatever
`max_tokens` is (`ClampProperties`), and temperature and choice give way where they must. The run
`parts` checks the same of the settings on both sides of every limit.

*The loop.* Three invariants, one on top of the other. `Inv` is `TypeOK`, `Paired` of both
histories, and that in the stages between a response and its handling the last message is that
response, carrying exactly the calls of `response`: `ToolBatch` answers `Calls(response)` and has to
know that those are the calls of the message in front. `HistoryInv` adds that a history opens with a
user's message, that its calls have different ids, below those still to be given out, in memory and
in the store, and that without compaction an agent has seen what its session holds. `LocalInv` is
about the locals of one call: where each flag and counter may stand at which `pc`. `CounterInv` adds
the two counters that are bounded by what may be pushed, continuations and requests for tests. One step per
action, grouped by what they do to the history (leave it, push a user message, answer a batch,
compact, load). Theorems: `TypeCorrect`, `Pairing`, `NoOrphans`, `Requests`, `Once`, `RecentKept`,
`SavesExtend`, `ForcedOnce`, `Budgets`; they cover all properties of the run `core`, and of `quiet`
the one that is not about liveness.

**SideBySideProof.** *The loops of compaction*: the cut is between the answer and the naive cut,
and everything passed carries results; `seen` and `orphaned` are what the scanned prefix
gives; from them `NeverOutOfBounds`. Theorems: `SplitCorrect`, `ScanCorrect`, `LoopsCorrect`,
`CutSafe`, and their conjunction `CompactionCorrect`. Together with AgentLoopProof's
`CompactionKeepsPairs`: the code's loop, not only its description, cuts safely, for histories of
any length. The facts about a cut stand here a second time (`LeastNat` to `PairedHasNoOrphans`),
as one module cannot hold the variables of both.

*A topic.* `MailArrives` compares what a sandbox was given with what was sent, of which the
channel keeps a part; the invariant says which part. `OneChannel`: all who have looked hold the
same channel, and it is empty until somebody subscribes. `OneSubscription`: a sandbox subscribes
once. `NumbersUsed`: a sequence number that was taken belongs to one message, sent or to be sent.
`Aligned`: the log is the end of what was sent, and every receiver stands right behind what its
sandbox has; so a read gives the next message, and a receiver that lags has missed what the
channel no longer holds (`Given`). Theorem: `MailIsDelivered`, for any publishers, sandboxes and
capacity.

*A batch.* `PermitsKept` counts permits and working children together; `Accounts` says that,
until `run_batch` is over, each child that has ended waits to be joined or has its result
collected, exactly once. When nothing is left to join the collected results are a permutation
of the tasks, and sorting by task (`AllJoined`) puts each in its place: an increasing map of
1..n into itself is the identity. Theorem: `BatchIsDone`; `PartsAreRight` is the two of them
for SideBySide's composed specification, whose behaviours MCSideBySide has, too.

**WiresProof.** *The event stream.* What was sent is what was read followed by what the channel
holds, by cases on who touches the channel; a run that completed has the last event on its way or
read, which is what `collect` relies on. Theorems: `NothingLost`, `CollectTells`, for every size
of the channels.

*The two clients.* An answer is handed over by its number, so the invariant follows numbers:
`OneName`, that among what is queued, written, asked, answered and awaited at one server a number
belongs to one request; `QueueApart`, that what has not been written yet has not been answered;
`HeardOwn`, that an answer in a task's hands is to its own request (or is LSP's own message under
the same number, which OwnAnswer allows where the code does) and that its number is no longer
parked. `ParkedAwaited` and `QueueAwaited` say of every number that is parked, or will be, that
somebody waits for it or gave it up in one of the ways that leave it there. `Mutex` makes the LSP
manager and the shared MCP client take one task at a time, from which `OnlyOneStarts` has that a
server is started once. One lemma per action. Theorems: `OwnAnswers`, `NothingIsLeft`, for any
number of tasks, servers and calls. The lengths of pipes and queues, which `TypeOK` bounds, are
only model-checked.

*The commands of a session.* One invariant is about one call (`JobHolds`). `Spoken` says how the
output of a Bash call reads: at most one sentinel, from the shell and behind all the shell's lines,
then the directory the shell stood in, if it came to that, and around it only what a process left
behind has printed; so `NewCwd`, which reads the line behind the sentinel, finds the directory or a
name that such a process wrote (`LedTo`). `ReadersAt` says when a reader task may stop: when nobody
writes into its pipe any more and all of it is read. `Handed` counts, among what was sent to a
stream's caller, the lines of each pipe: the n-th is the n-th line of the pipe, as many as its
reader has passed on, and an exit is behind all of them. `AtRest` and `ToldWhole` are what a call
that has returned keeps. The other invariant is about the session (`Followed`): as long as only one
call has returned, the directory kept is what that call said, or a name behind its sentinel, and a
call that starts sees it. Theorem: `CommandsAreTold`, the whole of `CommandsAreTrue`, for any calls,
any directories and any room in the channel.

**DiskProof.** *The key/value store.* `CounterCoversVersions` needs an invariant about snapshots in
the making: an entry already visited has a version the counter has passed, and the counter only
grows in one process. `OneWritePerVersion` needs that every version in use is at most the
counter. Theorems: `TypeCorrect`, `CountersCover` (of no property a run checks: it is what
makes a restart safe), `VersionsNameWrites`, with any number of threads, keys and crashes.
With one caller (`LoneInv`) nobody changes the map while it is collected, so a snapshot that is
written is the map, `journal.tmp` is this caller's, and a version about to be inserted is newer than
any in memory or in the journal. From that `LoneJournal`, and `LoneRefines`: every step is a step
of DurableMap or a stutter.

*The registry of tools.* Marks are of a task and a proposal. `KeptOnes`: what is in the working
directory, in memory or loaded from the file passed, is of one proposal for a task, and of none
while the task has no winner; with `BoxesApart`, that a sandbox has the marks of the working
directory and its own, promoting one adds one. `LinesOfTasks` says where a winner's line is while it
is written, so that a line is written once; `LinesOfTools` that the line of a tool `solve` has
returned is followed by its newline, which no later write or cut can undo. All of that is about the
lines of the file, readable or not (`OwnLines`); what is loaded are these lines as long as no line
was cut inside a character, and nothing from then on. Theorem: `RecoveryHolds`.

*Snapshots.* The ids of snapshots in the making are pairwise different, and not known
(`OneTakes`), so nobody else touches an image that is being made or a manifest that is known
(`KnownAreTrue`). `Takes` and `Restores` say, for each stage of a caller, what the image, the
entries and the store have in common with what there was when the snapshot was asked for, as long
as the caller has noted no disturbance (`still` for the sandbox, `calm` for the store). Each step
is either one that leaves a caller where it is (`Unmoved`: then it either changes nothing the
caller relies on, or the caller notes it) or the caller's own. The files are claimed of a restore by
the backend that took the snapshot, the entries of any. Theorem: `SnapshotsHold`, for any
sandboxes, files, keys, callers and crashes.

*The parts of a session.* An entry stands in one place (`Apiece`): its writer puts it in one part,
and nobody else writes one with its uuid. Something follows what was acknowledged (`Followed`),
and it is in a part that is read, because the part was chosen next to those that were
(`Keeping`). A deletion that is under way has what it is to remove in the parts it has left
(`Removing`). Entries stand in the order they were begun in (`Ordered`): an entry's part is never
before those that were read when it began. How much can be lost is counted: a stub is a piece
whose newline nobody will write, and there are no more of them than cut writes; a collision is a
piece behind one that is neither a stub nor a newline, and there are no more of them than writes
that found another writer's line unfinished (`Counted`). An entry that is not read back has a
neighbour that is no newline, which makes it the neighbour of a stub, one of the two sides of a
collision, or the first of a part behind a line whose newline is still to come (`LostNeighbours`);
so no more are lost than `cuts + 2 * overlaps` and the lines under way (`LostBound`), as long as the
parts can be read at all; a splinter loses everything, and then order and deletions hold of nothing. Theorem:
`TranscriptsHold`, the whole of `TranscriptsAreTrue`, for any writers, entries, parts, cut writes
and deletions.

**ToolBatchProof.** Each kind of step of a call is first shown to be of one form (`Evolves`:
what it may change of the call and of the files), and the invariants are proved from
that form. `Inv` says that marks are fresh and that a call still at its gate has put its own
nowhere, which gives `BarredCallsLeaveNoTrace` although a hook may bar a call late. `Tally`
says that `files_read` is exactly what the run has read or written and that everything the
guard let through is in it or was missing at dispatch; it is the reason one look before the
batch is enough for all its interleavings. `Progress` is about a call that shares no file with
another that may write (`Alone`): what it has not written is as it was at dispatch, and what it
has is its text; it speaks of calls past their gate, because a hook may redirect the others, and
needs `Accountable`, that only calls past their gate have changed a file. Theorems: `TypeCorrect`,
`NoTrace`, `SuccessIsTrue`, and under
`Opens = Resolves` (guard and tools agree on names) `NoBlindWrite` and `JustRefusals`. That
the assumption is needed is seen with `Opens <- Elsewhere` of MCToolBatch: TLC then finds
`NoBlindOverwrite` violated.

**WorkflowProof.** For every set of workflows the module's assumption admits. The invariant
says that a walk about to execute a node is at a step that is not in the memo (or is the one
resumed), that the memo has forgotten nothing of the snapshot outside the bodies of loops,
and that every step with result "success" outside them is in the memo; `Iterate` is the only
action that forgets, and it forgets a body. Theorems: `ReplayNeverRepeats`, `SuspensionLosesNothing`.

The walks are a tree by their program counters (`Tree`: everybody above a walk waits for it, a loop
for one walk of its body), so when a join collects its branches, or the root returns, nobody is
below them any more; with `Accounted`, that what has begun has its result or is executed by
some walk, a report is complete: `ReportsAreComplete`, the first part of `ReportIsTrue`.

The rest is not true of every graph `compile` accepts: two parallels may lead to one join, or a
branch into the body of its sibling's loop. `Structured` says what keeps walks apart, of the graph
alone: every walk that waits for another stays in a `Region` (the nodes between where it begins and
where it stops), only a loop leads into its body, only the branches of a parallel into its join,
and branches share no loop. It is what the builder makes; an assumption of MCWorkflow evaluates
it on the workflows of the run `suspend`, and only the one that begins with a loop is not of this
form (its entry is in the loop's body). Three inductive invariants rest on it.

* `SInv` for `WalksStayApart`: every walk is in the region its place in the tree gives it
  (`InRegion`), those of a loop in its body, and nobody else is; so `Iterate` takes away what its own
  iteration left and nobody else's, an iteration starts clean, and what a join collects are the
  results of the branches that wait at it. The memo needs a part too (`Stamped`, `Passed`), because
  a resumed run meets results of the run before it.
* `LInv` for `FailuresAreShown`: a result that is no success belongs to a branch whose join settles
  for it, or some walk has still to tell it, with nobody above who would settle it (`NoLoss`).
* `RInv` for `ReportsAreTrue`: the root walk is on the nodes that edges lead it to, and when it ends
  well the node added last has its output (`Rooted`); the step given to `resume` has begun, or a
  walk whose end the root has to wait for still has it ahead, or a failure is on its way
  (`Responsible`). The two further hypotheses are again of the graph: `OneEnd`, that the root finds
  nothing only behind the node added last, and `StepsAreMet`, that a walk from the entry leads to
  every step outside loops. TLC finds the last one needed: when the inner branches of a parallel
  within a branch lead to the outer join, the graph is `Structured` with `OneEnd`, and a resumed
  step may never run.

**TerminalProof.** Consent passes through three hands: the call that asks, the channel, the overlay.
`Senders` says that a sender is in one place only, in the channel or behind the overlay, and that
the overlay shows the call whose sender it holds; `Answers` that a reply a call has heard is one the
user gave to its own overlay (`Sound`), and that a remembered tool was allowed for good by somebody
(`Vouched`), also after the run that asked is gone. `KInv` follows the keys: what was pressed over a
call's overlay is in the queue while that overlay is up, or the call no longer asks, because a call
asks once (`NoneAsksAgain`) and loses its overlay only together with its sender. What the screen
shows has an invariant of its own, `SInv`: as long as nothing is cancelled only the run the terminal
reads is on (`OneRun`); while it streams (`InFlight`), the text taken so far is the numbers from one
on, the channel holds all the others in order, and an ending stands last and after the run's end;
while it does not, nothing is left over (`AtRest`). So the text an ending commits is whole.
Theorems: `Consent`, `AnswersAreWhole`.

**AnswerProof.** An answer passes from the provider through a reader, a channel and the agent's
accumulator, each of which holds a part of it. The invariant is about none of them alone: the
accumulator as it will be once it has heard what is in the channel and what the reader has yet to
send (`Heard`, a sequence of accumulators, one per event) says what has been received (`Says`).
So sending an event and consuming one change nothing, and only what arrives has to be argued
about. Anthropic's and Gemini's answers have a block per part: those that ended are there, the
one under way is open (`InParts`), and the reason is the one told (`ReasonTold`). An
OpenAI-compatible server's text is streamed (`Streamed`) and its calls are put together in slots,
from pieces that may have no index, an id again or none: `InSlots` says that a slot is one call's,
the one of its rank among the calls that have begun, with what has arrived of it in order. At the
end each slot that can be routed is one block behind the text (`Finalized`). Where a proof wants
the first part or slot of a kind it takes a least element, which well-foundedness of `<` gives
without an induction over data. Once the agent has its answer nothing may change what was claimed
of it (`Concluded`): a reader reads on only behind an answer that ended. Theorem:
`AnswersAreTrue`, all of `AnswerIsTrue`. It needs what `StreamAssumption` says of ids: with one id
given to two calls of an answer their pieces would share a slot (`openai.rs:346` finds a slot by id).

Only model-checked:

* every liveness property: the prover has no ENABLED;
* `RequestsAreFaithful`: its module follows the references of a schema to any depth with a
  recursive operator, which the prover does not take (the settings, which need none, are proved).

## 5. Disagreements between the code and what is said about it

The run `cas` expects a violation and is the entry under `findings`: two `cas` calls expecting
one version both succeed. The next ones are stated as properties that fail, next to the ones that
hold; TLC gives the counterexample when they are put into a cfg of their own (an MC module reaches
those of an instance through it).

| Property | What happens |
|---|---|
| `CancelEndsRun` (AgentLoop, `QuietSpec`, compaction on) | a cancelled run waits for ever for the summary request of compaction, awaited outside `select!` (`compact.rs:492`, `runner.rs:1193`; on by default, `lib.rs:266`); `api-agent.mdx:133` says cancelling aborts the loop. `StreamedRunEnds` excepts this wait |
| `RunCompletes` (EventStream, `Streaming = FALSE`) | `Agent::run` keeps a receiver it never reads (`runner.rs:307`) and stops for good once 512 events fill its channel; `runner.rs:305` says "blocking until complete" |
| `ReportedEditsAreThere` (ToolBatch, edits only) | two parallel edits of a file both report success and one is lost (`fs.rs:160`, `file_edit.rs:70`) |
| `NoBlindOverwrite` (ToolBatch, `Opens <- Elsewhere`) | guard and tool resolve a relative name against different directories (`runner.rs:82-86`, `file_write.rs:48`) |
| `DenialsAreUsers` (Terminal) | a second request takes the overlay from the first, whose sender is dropped: the call is denied and nobody was asked (`event_loop.rs:46-52`); `permissions.rs:43-44` says the policy awaits the user's decision |
| `KeysAreForTheShown` (Terminal) | a key pressed over one overlay, or over none, is read up to a tick later (`event_loop.rs:74-80`) and answers the overlay that is shown by then: an Enter meant for one call allows another the user has not read |
| `HintsAreKept` (Orchestrator) | every hint replaces the session of those before it; `memory_bridge.rs:1` says future runs recall solved problems |
| `PromotedIsVerified` (Orchestrator) | promotion copies files and deletes none, so the working directory may hold what the verified proposal had removed |
| `SuccessesAreKept` (Orchestrator) | successes counted are gone after a restart; `registry/mod.rs:162` says the next register persists them, and it writes the new entry only |
| `KilledIsStill` (Snapshots, local backend) | commands of a killed sandbox go on writing; `runtime.rs:69` says "terminate and clean up" |
| `RestoresAreWhole` (Snapshots) | both runtimes keep their manifests in one directory and `restore` does not look at `backend`: the local one restores a Docker snapshot to an empty sandbox, without an error (`local.rs:174`); `snapshot.rs:3-4` says a manifest captures everything needed |
| `VersionsNameValues` (Snapshots) | `restore` puts the counter back, and a version given out before names a second value |
| `ResultsNameTheirCalls` (Requests, Gemini) | numbered call ids repeat from answer to answer, and the last name with an id goes with all its results; `gemini.rs:130` says a result needs its function's name |
| `RolesAlternate` (Requests, Gemini) | an assistant's message of thoughts alone is left out (`gemini.rs:209`) and two of one role meet; `compact.rs:288-291` says Gemini rejects consecutive user messages |
| `CutsCostLines` (SessionFiles) | a write that was cut inside a character makes the part no text: `read_to_string(part)?` (`session_storage.rs:277`) fails, and nothing of the session is loaded; `session_storage.rs:312-321` skips a line it cannot read |
| `TimedOutIsDead` (Commands) | a command that `exec` timed out runs on; `process.rs:89` says it is killed automatically, but nothing asks for that. It fails for Docker's `run` as well: `kill_on_drop` ends the client, and the command runs on in the container (`docker.rs:385-411`) |
| `SessionIsOwn` (Commands) | the line behind the sentinel is taken for the directory whoever wrote it, if it exists (`bash.rs:16-26`, `bash.rs:153-157`): a process a command has left behind can lead the session elsewhere |
| `StreamsTimeOut` (Commands) | `exec_streaming` waits for both pipes before it looks at its time, so a process that keeps one open outlives every timeout |

Others were met while modelling; the models contain the behaviour where they reach it, no run
is spent on it:

* `AgentStream::cancel` sends into a channel the loop takes as `_control_rx` and never reads
  (`runner.rs:332`); only the token cancels.
* Two concurrent writers of a journalled store share one `journal.tmp` and may rename an older
  snapshot last (`kv.rs:160`). `LoneJournalHolds` is therefore stated for one caller.
* A response cut off by `max_tokens` behind a tool_use is kept and answered with a user text;
  `runner.rs:495-496` says nothing is unanswered.
* Warnings, nudges and prompts put two user messages in a row, and no format joins them;
  `compact.rs:282-283` speaks of a strictly alternating history, and `compact.rs:288-291` says
  Gemini and some local templates reject such a request. `RequestsAreFaithful` says nothing of it.
* A message that ended with `message_stop` alone is taken for a clean end whatever it holds
  (`stream.rs:190-192`): calls in it are not run and stay unanswered.
* The depth nudge fires up to turn 4 (`runner.rs:843`), its comment says 3 (`runner.rs:840`).
* The no-tool nudge and `files_read` are locals of one run (`runner.rs:384`, `runner.rs:392`),
  the comment at `runner.rs:382` and the message at `runner.rs:121` speak of a session.
* After ModifyInput the bookkeeping records the file the model named, not the one the tool
  worked on (`runner.rs:1006`). The guard's two properties are therefore stated for runs in
  which no call was redirected.
* A file somebody else creates after dispatch is overwritten unread (`runner.rs:117`);
  `NoBlindOverwrite` speaks of the files that existed at dispatch.

Workflows:

* `executor.rs:3-7` says a resumed run does not execute completed steps again. The bodies of
  loops that had completed before the suspended node are executed again, because a loop
  forgets its body whenever it is entered.
* A node two branches share is executed by both: each looks in the memo before the other is done.
* A second suspension in one run replaces the first in the report (`executor.rs:341`); the other
  step is reached, and suspends, again after a resume. A resume of one of them may end before its
  step runs, when the sibling suspends first.
* The data of a resume reaches every iteration of a loop the node is in.
* A workflow that begins with a loop never runs it: the builder makes the body the entry
  (`builder.rs`), and the walk ends behind it, with success. A branch without a matching arm
  ends the run with success as well.
* A snapshot is never removed, control messages of a stream are never read, and the events of
  a run end only when every clone of the sender is gone.

Providers:

* `stream.rs:188-190` says EndTurn is legitimate only when the provider ended the turn. The
  OpenAI reader ends every stream that closed cleanly after some output with a stop reason of
  its own, and Gemini's with MessageStop (`gemini.rs:514`): a cut answer passes for a whole one,
  and Gemini's calls are then left unanswered. `AnswerIsTrue` names these cases in two of its parts,
  `AnswerWasEnded` and `CallsAreRun`.
* A call whose arguments never began to arrive is run with the empty object.
* A delta without index and id goes to the slot touched last (`openai.rs:441`); Gemini's
  numbered ids start again in each answer (`gemini.rs:429`).
* Bytes are decoded chunk by chunk, so a character split over two of them is damaged
  (`anthropic.rs:497`, `openai.rs:357`, `gemini.rs:335`).
* Text is lost when every call that came with it is unusable.

Tool servers:

* A request of a server's own that has the number of one of ours takes the sender away: with LSP it
  is taken for the answer (`client.rs:372`), which `OwnAnswer` names; with MCP it has neither a
  result nor an error, and the call fails (`transport.rs:71-79`).
* A parked sender is not taken back after an LSP write that failed (`client.rs:330`), an MCP
  timeout (`transport.rs:139`) or a cancelled call.
* A handshake that fails leaves the process running (`manager.rs:119`), which the comment at
  `client.rs:245-252` excludes. A client whose server died is never replaced (`manager.rs:96`).
* One frame the client cannot read ends its reader while the server lives on: from then on each
  request waits 30 seconds (`client.rs:117`).

Sessions:

* Writers are not excluded from each other and `writeln!` is two writes (`session_storage.rs:189`):
  lines of two processes can run together, and both are then skipped.
* A deletion that stops half-way leaves later parts, which join the session again once it has
  grown as far as they are (`sessions.rs:161`). A write that overtakes a deletion recreates a part.
* The comment at `session_storage.rs:82-84` says a part under the limit is chosen; it is
  the highest part that follows the others.
* A session above the load cap can be written and never loaded (`session_storage.rs:265`).

Terminal:

* Text a cancelled run had sent and nobody committed joins the next answer; `TurnsAreWhole` is
  therefore stated for sessions without a cancel. After one, the token stays cancelled and every
  later prompt ends as cancelled.
* Events of the stream are taken before keys, so while they come faster than the frame of 16 ms
  a Ctrl+C waits: `select!` makes the tick's sleep anew on every turn (`event_loop.rs:74`).
* `/rewind` and `/clear` change the screen; the agent's history keeps what was there.
* A `ToolEnd` is matched by the tool's name: of two parallel calls of one tool, one may stay
  "running". The overlay names the tool and nothing it is about to do. The overlay of a call
  whose run has died stays up, and takes an answer nobody hears.
* `/undo` reads a session's file snapshots (`event_loop.rs:659`), which no tool ever records
  (`file_snapshot.rs:30`); it would undo the last file of the alphabet.

Delegation and mail:

* `delegate.rs:18-19` says a child that fails does not abort the batch. A child that panics does:
  the batch returns an error and its siblings are aborted (`delegate.rs:196-198`).
* `run_batch` with `max_concurrent = 0` waits for ever; only DelegateTool makes it at least 1.
* The list of blocked tools strips "delegate" from children, not the "Agent" tool. Children use
  `Agent::run`, whose events nobody reads.
* Two first calls of RecvVmMessage may each create a table of subscriptions, and one is lost with
  what it had subscribed (`vm_tools.rs:149-155`). Sequence numbers order the messages of one
  publisher only: a number is taken before the send.

Self-improvement:

* `orchestrator.rs:189-190` says the winner is the first to pass, decided by a compare-and-swap.
  It is the first in the planner's order, after all have ended, without one.
* An attempt of the general agent works on whatever the one before it has left. An error of
  `register` is returned after the promotion; one of `copy_dir` is ignored.
* A line of the registry cut in the middle of a character makes the whole file unreadable: the
  registry does not open again (`registry/mod.rs:74`), with every tool in it. `ToolsAreKept` speaks
  of a file that can be read.

Sandboxes:

* A local snapshot holds the working directory only. A Docker runtime restores a local snapshot by
  creating from an image there is not, which fails.
* `restore` of one sandbox rewrites the store all sandboxes share. A restored local sandbox is
  listed before its files are there. A local `create` ignores `from_snapshot`.
* Every `LocalCommands` has a table of background commands of its own, so a kill finds none to
  abort.

Requests:

* A tool called `a.b` in front of one called `a_b` takes its name on the wire, and no table leads
  back. Parameters named like a keyword of JSON schema ("definitions") are dropped with it.
* OpenAI's form drops documents given by URL, and an assistant's message of thoughts alone goes out
  with empty content.

Commands:

* Two parallel Bash calls of a session race for its directory; the last to end wins. A directory
  that has vanished is silently replaced by the agent's own. In a sandbox no directory is kept,
  though the tool's description says so.
* A command that ends in `&`, a comment or a here-document breaks the sentinel appended to it. What
  a process left behind prints after the sentinel is dropped, makes the next directory
  unreadable, or is that directory; one that holds a pipe makes a finished command time out.
* Dropping a stream does not end its command, and `stream` of a sandbox has no timeout.
  `kill_on_drop` kills the shell and not its children.

## 6. Limits

* Texts, prompts, token counts and costs are left out. That compaction is due is a free
  choice at every point where the code looks; which calls repeat is free as well.
* One run at a time per agent in AgentLoop. `run_stream` allows more; Terminal has two after a
  cancel, without their histories. See the hazards.
* In AgentLoop provider and `Memory` are modelled by what the loop needs of them; ProviderStream,
  Requests and SessionFiles model the parts themselves and are not composed with it.
* What steps compute, conditions say and lists hold is free in WorkflowExecutor, what a
  server answers in RpcClient, what agents and verifiers do in Orchestrator and Delegate.
* In Snapshots the store has one caller beside the snapshots; KvStore has the races of its callers.
* A stream of commands has one reader; background commands and signals are left out.
* MultiEdit, NotebookEdit, the broadcast channel, the reporters, `JsonlMemory` as a file, opened
  files and diagnostics of language servers, and the HTTP transport of MCP are not modelled.
* Not modelled because their difficulty is not in the order of events: the agent language, text
  algorithms (matching, searching, compression, rendering), the line-based interface, accounts and
  login, model tables, remote file systems and the daemon in a sandbox. The registries of tasks,
  schedules and todos are maps with one lock per access and no rule on what may follow what: a
  property of theirs would restate an assignment. AutoDream's gates and its lock are functions no
  code of the repository calls in a sequence, so there is no protocol to model.

## 7. Plan

Done: the agent loop and its history first, because every other part hangs on it; then what
interleaves with it (events, tool batches), the shared store, the workflow engine, the answers
of providers, the clients of tool servers and the transcripts on disk; then the terminal,
delegation, the mailbox, self-improvement, snapshots of sandboxes, requests and commands.

What is left, in this order:

1. Modelling: `JsonlMemory` under AgentLoop's `stored`, two runs at once in AgentLoop, a chain of
   hooks in ToolBatch, ProviderStream below AgentLoop's response, background commands.
2. Proofs: that an answer proved true by AnswerProof is a response AgentLoop may take, once the
   one is composed with the other; the requests of Requests, if its walk through the references
   of a schema is written without a recursive operator.
