----------------------------- MODULE AgentLoop -----------------------------
(***************************************************************************)
(* One agent over its whole life: several runs of the agentic loop on one  *)
(* conversation (Agent::run / Agent::reply), a provider that answers,      *)
(* fails, stalls or is cut off, hooks that block, a caller that cancels at *)
(* any moment, and a process that dies and reloads the session.            *)
(* Source: crates/cersei-agent/src/runner.rs, run_agent_streaming.         *)
(*                                                                         *)
(* pc names the await the runner is parked at, or the code between two     *)
(* awaits.  Every step is atomic with respect to the history because only  *)
(* the runner writes it; cancellation and crashes interleave everywhere.   *)
(***************************************************************************)
EXTENDS History

CONSTANTS
    MaxTurns,             \* Agent.max_turns
    MaxRetries,           \* MAX_RETRIES, 5 in the code
    MaxTokensRetryLimit,  \* MAX_TOKENS_RETRY_LIMIT, 3
    BenchmarkMaxRetries,  \* BENCHMARK_MAX_RETRIES, 4
    KeepRecent,           \* compact::KEEP_RECENT_MESSAGES, 10
    DoomWindow,           \* calls made before the doom-loop check looks, 6
    EarlyTurns,           \* last turn the depth nudge fires on, 4
    VerifyFrom,           \* first turn the verification nudge fires on, 3
    Setups,               \* the ways to set the agent up that are considered
    BatchSizes,           \* how many tool calls a response may carry
    MaxRuns,              \* bound: runs started
    MaxCrashes            \* bound: process restarts

\* Agent.auto_compact, Agent.benchmark_mode, an agent with tools, and prompts that
\* name a test command
Features == {"auto_compact", "benchmark_mode", "tools", "tests_in_prompt"}

ASSUME LoopAssumption ==
    /\ MaxTurns \in Nat /\ MaxRetries \in Nat /\ MaxTokensRetryLimit \in Nat
    /\ BenchmarkMaxRetries \in Nat /\ KeepRecent \in Nat \ {0}
    /\ DoomWindow \in Nat /\ EarlyTurns \in Nat /\ VerifyFrom \in Nat
    /\ Setups \subseteq SUBSET Features
    /\ BatchSizes \subseteq Nat /\ MaxRuns \in Nat /\ MaxCrashes \in Nat

VARIABLES
    pc,          \* where the runner is
    messages,    \* Agent.messages
    stored,      \* what Memory holds for the session
    cancelled,   \* Agent.cancel_token, never reset
    outcome,     \* how the last run ended
    response,    \* stop reason, first tool_use id and number of tool_use blocks
                 \* of the response being handled
    local,       \* the run's local counters and one-shot flags
    forced,      \* the request in flight carries tool_choice = required
    nextId,      \* ids of tool_use blocks, fresh for every call
    setup,       \* the features in use, fixed when the agent is built
    runs, crashes

vars == <<pc, messages, stored, cancelled, outcome, response, local, forced,
          nextId, setup, runs, crashes>>

\* select! watches the cancel token at these three awaits
Awaits == {"request", "backoff", "stream"}
Stages == Awaits \union {"idle", "top", "postturn", "handle", "compact", "summarize", "save"}
Stops == {"end_turn", "tool_use", "max_tokens", "other", "none"}

\* the variables of one call of run_agent_streaming
Locals == [turn : Nat, retries : Nat, max_tokens_retries : Nat, calls : Nat,
           benchmark_retries : Nat, had_tool_use : BOOLEAN,
           depth_nudge_sent : BOOLEAN, no_tool_nudge_sent : BOOLEAN,
           force_tool_choice : BOOLEAN, doom_loop_warned : BOOLEAN,
           completion_verified : BOOLEAN]

FreshLocal ==
    [turn |-> 0, retries |-> 0, max_tokens_retries |-> 0, calls |-> 0,
     benchmark_retries |-> 0, had_tool_use |-> FALSE, depth_nudge_sent |-> FALSE,
     no_tool_nudge_sent |-> FALSE, force_tool_choice |-> FALSE,
     doom_loop_warned |-> FALSE, completion_verified |-> FALSE]

NoResponse == [stop |-> "none", first |-> 0, size |-> 0]
Calls(r) == r.first .. (r.first + r.size - 1)

Init ==
    /\ pc = "idle" /\ messages = << >> /\ stored = << >> /\ cancelled = FALSE
    /\ outcome = "none" /\ response = NoResponse /\ local = FreshLocal
    /\ forced = FALSE /\ nextId = 0
    /\ setup \in Setups /\ runs = 0 /\ crashes = 0

-----------------------------------------------------------------------------
(* Starting, stopping and losing a run *)

\* Mutant: the session is loaded into a history that is not empty.
StartRunReloads ==
    /\ pc = "idle" /\ runs < MaxRuns
    /\ runs' = runs + 1
    /\ messages' = Append(messages \o stored, User)
    /\ local' = FreshLocal
    /\ pc' = "top"
    /\ outcome' = "none"
    /\ UNCHANGED <<stored, cancelled, response, forced, nextId, setup, crashes>>

\* The run reloads the session only when it has no history of its own.
StartRun ==
    /\ pc = "idle" /\ runs < MaxRuns
    /\ runs' = runs + 1
    /\ messages' = Append(IF messages = << >> THEN stored ELSE messages, User)
    /\ local' = FreshLocal
    /\ pc' = "top"
    /\ outcome' = "none"
    /\ UNCHANGED <<stored, cancelled, response, forced, nextId, setup, crashes>>

\* Mutant: a failed load is taken for an empty session.
LoadFailsAsEmpty ==
    /\ pc = "idle" /\ runs < MaxRuns /\ messages = << >>
    /\ runs' = runs + 1
    /\ outcome' = "none" /\ pc' = "top" /\ messages' = <<User>>
    /\ UNCHANGED <<stored, cancelled, response, local, forced, nextId, setup, crashes>>

\* Memory::load failed: the prompt is never pushed
LoadFails ==
    /\ pc = "idle" /\ runs < MaxRuns /\ messages = << >>
    /\ runs' = runs + 1
    /\ outcome' = "error"
    /\ UNCHANGED <<pc, messages, stored, cancelled, response, local, forced, nextId, setup, crashes>>

\* every `return Err` of the loop: nothing is persisted, the history stays,
\* and the run's locals are gone
Fail(why) ==
    /\ pc' = "idle" /\ outcome' = why /\ response' = NoResponse /\ forced' = FALSE
    /\ local' = FreshLocal
    /\ UNCHANGED <<messages, stored, cancelled, nextId, setup, runs, crashes>>

Cancel ==
    /\ ~cancelled
    /\ cancelled' = TRUE
    /\ UNCHANGED <<pc, messages, stored, outcome, response, local, forced, nextId, setup, runs, crashes>>

\* the process dies; a new one builds the agent again with the same session id
Crash ==
    /\ crashes < MaxCrashes
    /\ crashes' = crashes + 1
    /\ pc' = "idle" /\ messages' = << >> /\ cancelled' = FALSE /\ outcome' = "none"
    /\ response' = NoResponse /\ local' = FreshLocal /\ forced' = FALSE
    /\ UNCHANGED <<stored, nextId, setup, runs>>

-----------------------------------------------------------------------------
(* One turn: the request, its retries and the stream *)

Goto(stage) ==
    /\ pc' = stage
    /\ UNCHANGED <<messages, stored, cancelled, outcome, response, local, forced,
                   nextId, setup, runs, crashes>>

TurnLimit ==
    /\ pc = "top" /\ local.turn >= MaxTurns
    /\ pc' = "save"
    /\ local' = [local EXCEPT !.turn = @ + 1]
    /\ UNCHANGED <<messages, stored, cancelled, outcome, response, forced, nextId, setup, runs, crashes>>

TurnCancelled ==
    /\ pc = "top" /\ local.turn < MaxTurns /\ cancelled
    /\ Fail("cancelled")

\* Mutant: the forced tool choice sticks to every later turn.
BeginTurnStickyChoice ==
    /\ pc = "top" /\ local.turn < MaxTurns /\ ~cancelled
    /\ pc' = "request" /\ forced' = local.force_tool_choice
    /\ local' = [local EXCEPT !.turn = @ + 1, !.retries = 0]
    /\ UNCHANGED <<messages, stored, cancelled, outcome, response, nextId, setup, runs, crashes>>

\* the forced tool choice is one-shot: it leaves with this request
BeginTurn ==
    /\ pc = "top" /\ local.turn < MaxTurns /\ ~cancelled
    /\ pc' = "request" /\ forced' = local.force_tool_choice
    /\ local' = [local EXCEPT !.turn = @ + 1, !.retries = 0, !.force_tool_choice = FALSE]
    /\ UNCHANGED <<messages, stored, cancelled, outcome, response, nextId, setup, runs, crashes>>

Accepted == pc = "request" /\ Goto("stream")

\* Mutant: attempts are not counted.
RetryUncounted ==
    /\ pc = "request" /\ local.retries < MaxRetries
    /\ Goto("backoff")

Retryable ==
    /\ pc = "request" /\ local.retries < MaxRetries
    /\ pc' = "backoff"
    /\ local' = [local EXCEPT !.retries = @ + 1]
    /\ UNCHANGED <<messages, stored, cancelled, outcome, response, forced, nextId, setup, runs, crashes>>

\* a fatal error, or a retryable one when the retries are used up
Rejected == pc = "request" /\ Fail("error")

BackoffElapsed == pc = "backoff" /\ Goto("request")

\* Mutant: only the stream loop watches the cancel token.
CancelStreamOnly == pc = "stream" /\ cancelled /\ Fail("cancelled")

CancelAwait == pc \in Awaits /\ cancelled /\ Fail("cancelled")

\* an error event, or a stream cut off before its terminal event
StreamFails == pc = "stream" /\ Fail("error")

(* Which responses a provider can assemble: any stop reason with or without  *)
(* calls.  A truncated call keeps max_tokens, and one whose stream says only *)
(* that it stopped is taken for a clean end whatever was accumulated.        *)
StreamEnds(stop, n) ==
    /\ pc = "stream"
    /\ n \in BatchSizes
    /\ response' = [stop |-> stop, first |-> nextId, size |-> n]
    /\ messages' = Append(messages, Assistant(Calls(response')))
    /\ nextId' = nextId + n
    /\ pc' = "postturn"
    /\ forced' = FALSE
    /\ UNCHANGED <<stored, cancelled, outcome, local, setup, runs, crashes>>

\* PostModelTurn hooks run after the response is in the history
HookBlocks == pc = "postturn" /\ Fail("error")
HookPasses == pc = "postturn" /\ Goto("handle")

-----------------------------------------------------------------------------
(* What the stop reason decides *)

\* push one user message and go on with the loop; a `continue` skips compaction
Push(msgs, next, newLocal) ==
    /\ pc' = next /\ messages' = msgs /\ local' = newLocal /\ response' = NoResponse
    /\ UNCHANGED <<stored, cancelled, outcome, forced, nextId, setup, runs, crashes>>

Nudge(newLocal) == Push(Append(messages, User), "top", newLocal)

Break == Push(messages, "save", local)

EndTurn == pc = "handle" /\ response.stop = "end_turn"

VerifyDue == "benchmark_mode" \in setup /\ ~local.completion_verified /\ local.turn >= VerifyFrom

\* only tool calls can look like a verification
PastVerify == EndTurn /\ (VerifyDue => local.calls > 0)

TestsDue ==
    {"benchmark_mode", "tests_in_prompt"} \subseteq setup /\ local.benchmark_retries < BenchmarkMaxRetries

VerifyNudge ==
    /\ EndTurn /\ VerifyDue
    /\ Nudge([local EXCEPT !.completion_verified = TRUE])

RunTestsNudge ==
    /\ PastVerify /\ TestsDue /\ local.benchmark_retries = 0
    /\ Nudge([local EXCEPT !.benchmark_retries = 1])

TestsFailedNudge ==
    /\ PastVerify /\ TestsDue /\ local.calls > 0
    /\ Nudge([local EXCEPT !.benchmark_retries = @ + 1])

\* the tests passed, or were asked for once and still not run
TestsSettled ==
    /\ PastVerify /\ TestsDue /\ (local.calls > 0 \/ local.benchmark_retries > 0)
    /\ Break

NoToolDue == ~local.had_tool_use /\ "tools" \in setup /\ ~local.no_tool_nudge_sent
DepthDue == local.had_tool_use /\ local.turn <= EarlyTurns /\ ~local.depth_nudge_sent

NoToolNudge ==
    /\ PastVerify /\ ~TestsDue /\ NoToolDue
    /\ Nudge([local EXCEPT !.no_tool_nudge_sent = TRUE, !.force_tool_choice = TRUE])

DepthNudge ==
    /\ PastVerify /\ ~TestsDue /\ DepthDue
    /\ Nudge([local EXCEPT !.depth_nudge_sent = TRUE])

Finish ==
    /\ PastVerify /\ ~TestsDue /\ ~NoToolDue /\ ~DepthDue
    /\ Break

\* Mutant: the doom-loop warning is pushed in front of the results.
BatchWarnsFirst(doom) ==
    /\ pc = "handle" /\ response.stop = "tool_use"
    /\ LET calls == local.calls + response.size
           warned == IF doom THEN Append(messages, User) ELSE messages
       IN /\ doom => ~local.doom_loop_warned /\ calls >= DoomWindow
          /\ Push(Append(warned, ToolResults(Calls(response))), "compact",
                  [local EXCEPT !.calls = calls, !.had_tool_use = TRUE,
                                !.max_tokens_retries = 0,
                                !.doom_loop_warned = @ \/ doom])

(* The whole batch runs and answers in one user message; a second user      *)
(* message follows when the recent calls look like a doom loop (which names *)
(* repeat is not modelled: any batch past the window may match).            *)
ToolBatch(doom) ==
    /\ pc = "handle" /\ response.stop = "tool_use"
    /\ LET calls == local.calls + response.size
           answered == Append(messages, ToolResults(Calls(response)))
       IN /\ doom => ~local.doom_loop_warned /\ calls >= DoomWindow
          /\ Push(IF doom THEN Append(answered, User) ELSE answered, "compact",
                  [local EXCEPT !.calls = calls, !.had_tool_use = TRUE,
                                !.max_tokens_retries = 0,
                                !.doom_loop_warned = @ \/ doom])

ContinueTruncated ==
    /\ pc = "handle" /\ response.stop = "max_tokens"
    /\ local.max_tokens_retries < MaxTokensRetryLimit
    /\ Push(Append(messages, User), "compact", [local EXCEPT !.max_tokens_retries = @ + 1])

GiveUpTruncated ==
    /\ pc = "handle" /\ response.stop = "max_tokens"
    /\ local.max_tokens_retries >= MaxTokensRetryLimit
    /\ Push(messages, "save", [local EXCEPT !.max_tokens_retries = @ + 1])

StopOther == pc = "handle" /\ response.stop = "other" /\ Break

-----------------------------------------------------------------------------
(* Compaction and the end of the run *)

CompactNotDue == pc = "compact" /\ Goto("top")
CompactDue == pc = "compact" /\ "auto_compact" \in setup /\ Goto("summarize")

\* a short history yields an empty summary without a request, and the snip
\* fallback leaves it alone
SummarySkipped == pc = "summarize" /\ Len(messages) <= KeepRecent /\ Goto("top")

Compacted(msgs) ==
    /\ pc = "summarize" /\ Len(messages) > KeepRecent
    /\ pc' = "top" /\ messages' = msgs
    /\ UNCHANGED <<stored, cancelled, outcome, response, local, forced, nextId, setup, runs, crashes>>

Summarized == Compacted(SummaryCompact(messages, KeepRecent))
SummaryFails == Compacted(SnipCompact(messages, KeepRecent))

Saved ==
    /\ pc = "save"
    /\ pc' = "idle" /\ stored' = messages /\ outcome' = "ok" /\ local' = FreshLocal
    /\ UNCHANGED <<messages, cancelled, response, forced, nextId, setup, runs, crashes>>

SaveFails == pc = "save" /\ Fail("error")

-----------------------------------------------------------------------------
\* steps that need nobody but the runner
Runner ==
    \/ TurnLimit \/ TurnCancelled \/ BeginTurn
    \/ BackoffElapsed \/ CancelAwait
    \/ HookBlocks \/ HookPasses
    \/ VerifyNudge \/ RunTestsNudge \/ TestsFailedNudge \/ TestsSettled
    \/ NoToolNudge \/ DepthNudge \/ Finish
    \/ \E doom \in BOOLEAN : ToolBatch(doom)
    \/ ContinueTruncated \/ GiveUpTruncated \/ StopOther
    \/ CompactNotDue \/ CompactDue \/ SummarySkipped
    \/ Saved \/ SaveFails

\* steps that need the provider to answer
Provider ==
    \/ Accepted \/ Retryable \/ Rejected
    \/ StreamFails
    \/ \E stop \in Stops \ {"none"}, n \in BatchSizes : StreamEnds(stop, n)
    \/ Summarized \/ SummaryFails

\* nobody calls the agent again
Rest == pc = "idle" /\ runs = MaxRuns /\ UNCHANGED vars

Next == StartRun \/ LoadFails \/ Cancel \/ Crash \/ Runner \/ Provider \/ Rest

Spec == Init /\ [][Next]_vars

\* the runner's task is scheduled, hooks, tools and Memory return
RunnerFairness == WF_vars(Runner)

\* every request is answered and every stream ends: assumed by one property only
ProviderFairness == WF_vars(Provider)

\* a provider that accepts a connection and may go quiet for ever
QuietSpec == Spec /\ RunnerFairness

-----------------------------------------------------------------------------
(* Type invariant *)

TypeOK ==
    /\ pc \in Stages
    /\ messages \in Seq(Message) /\ stored \in Seq(Message)
    /\ cancelled \in BOOLEAN /\ forced \in BOOLEAN
    /\ outcome \in {"none", "ok", "error", "cancelled"}
    /\ response \in [stop : Stops, first : Nat, size : Nat]
    /\ local \in Locals
    /\ nextId \in Nat /\ setup \subseteq Features /\ runs \in Nat /\ crashes \in Nat

(* Safety *)

InFlight == pc \in Awaits

\* No history, in memory or stored, ever holds a tool_result whose tool_use was
\* cut away: the provider answers such a request with a 400 for good (F-04).
NoOrphanedToolResults == Orphaned(messages) = {} /\ Orphaned(stored) = {}

\* A message of results directly follows the assistant message it answers and
\* answers all of its calls, whatever nudges, failures, compactions and reloads
\* happened around it.
ResultsFollowTheirCalls == Paired(messages) /\ Paired(stored)

\* A request opens with a user message (Anthropic refuses any other) and ends
\* with one, so the model is always the next to speak.
RequestShape ==
    InFlight => /\ messages # << >>
                /\ messages[1].role = "user"
                /\ messages[Len(messages)].role = "user"

\* No call is issued twice or answered twice in one history: a reload never
\* duplicates turns the agent still has in memory.
AnsweredOnce ==
    \A i, j \in DOMAIN messages : i # j =>
        /\ messages[i].uses \cap messages[j].uses = {}
        /\ messages[i].results \cap messages[j].results = {}

\* The loop always stops within its budget of turns, and the provider is asked
\* at most MaxRetries + 1 times for one turn. A run of truncated answers is
\* continued MaxTokensRetryLimit times, and a run asks for its tests, or for
\* mending what they found, BenchmarkMaxRetries times.
WithinBudget ==
    /\ local.turn <= MaxTurns + 1
    /\ InFlight => /\ local.turn <= MaxTurns /\ local.retries <= MaxRetries
                   /\ local.max_tokens_retries <= MaxTokensRetryLimit
    /\ local.benchmark_retries <= BenchmarkMaxRetries

\* A request with a forced tool choice directly follows the nudge of a run that
\* has used no tool: a forced choice never outlives its one turn (F-08).
ForcedOnlyAfterNudge ==
    forced => /\ InFlight /\ local.no_tool_nudge_sent /\ ~local.had_tool_use
              /\ Len(messages) > 1 /\ messages[Len(messages) - 1].role = "assistant"

(* Action properties *)

\* Compaction leaves the newest KeepRecent messages alone and makes no call
\* unanswered that was answered before.
CompactionKeepsRecent ==
    [][messages' # messages /\ pc = "summarize" /\ pc' = "top" =>
         LET n == Len(messages) - KeepRecent
             m == Len(messages') - KeepRecent
         IN /\ m >= 0
            /\ \A k \in 1..KeepRecent : messages'[m + k] = messages[n + k]
            /\ Unanswered(messages') \subseteq Unanswered(messages)]_vars

\* Without compaction a save only ever extends what the session already holds:
\* a run that did not see the stored history never overwrites it.
SavesExtendSession ==
    [][stored' # stored /\ "auto_compact" \notin setup =>
         /\ Len(stored') >= Len(stored)
         /\ SubSeq(stored', 1, Len(stored)) = stored]_vars

(* Liveness *)

\* When the provider answers every request, every run ends, whatever rounds its
\* nudges, continuations and retries add.
EveryRunEnds == ProviderFairness => ((pc # "idle") ~> (pc = "idle"))

\* A cancelled run leaves the wait for a response, a backoff or a stream even
\* when the provider never says another word, and ends if the agent does not compact.
CancelIsHeeded ==
    /\ (cancelled /\ InFlight) ~> ~InFlight
    /\ (cancelled /\ pc # "idle" /\ "auto_compact" \notin setup) ~> (pc = "idle")

(* What the documentation says, and the code does not do *)

\* "External cancellation signal. Call .cancel() to abort the loop."
CancelEndsRun == (cancelled /\ pc # "idle") ~> (pc = "idle")
=============================================================================
