------------------------------- MODULE Terminal -------------------------------
(* The interactive terminal over one agent: the event loop of                    *)
(* abstract-cli/src/tui/event_loop.rs, its state (tui/app.rs) and the permission  *)
(* policy whose questions it puts to the user (permissions.rs).                   *)
(*                                                                               *)
(* Three kinds of task meet here. The event loop takes one thing at a time out of *)
(* a select!: a permission request, an event of the agent's stream, or keys. A    *)
(* run of the agent sends events; after a cancel a second one may start before    *)
(* the first has ended. The calls of a run's batch ask for permission side by     *)
(* side. A run is that of EventStream, with its batch in place of what produces   *)
(* the events; a terminal prompt has one batch here.                              *)
EXTENDS Integers, Sequences

CONSTANTS Tools,        \* names of tools
          Level,        \* [Tools -> how much a tool may do]
          Batches,      \* what a run may call at once: sequences of tools
          Room,         \* of the event and the permission channel, 512 and 8
          MaxRuns,      \* bound: prompts submitted
          MaxTexts,     \* bound: text events of a run
          MaxKeys,      \* bound: Enter and Esc pressed and not yet handled
          MaxAsides     \* bound: changes of the permission mode and commands

Levels == {"safe", "write", "shell", "forbidden"}

ASSUME TerminalAssumption ==
    /\ Level \in [Tools -> Levels] /\ Batches \subseteq Seq(Tools) /\ Room \in Nat \ {0}
    /\ MaxRuns \in Nat /\ MaxTexts \in Nat /\ MaxKeys \in Nat /\ MaxAsides \in Nat

VARIABLES
    run,        \* [Runs -> where the run is]
    produced,   \* [Runs -> text events it sent]
    call,       \* [Runs -> the calls of its batch]
    token,      \* Agent.cancel_token is cancelled; nothing ever resets it
    requests,   \* the permission channel: the calls that ask
    remembered, \* session_allowed and always_allowed
    mode,       \* SharedPermissionMode, as many changes from the first one
    commands,   \* how many commands were given
    stream,     \* agent_stream: the run whose events the loop reads
    events,     \* that stream's channel
    streaming,  \* is_streaming
    text,       \* streaming_text
    working,    \* active_tools holds something
    turns,      \* what the user and the assistant said, without notes
    overlay,    \* "none", "permission" or "info": help and the graph
    shown,      \* the call the permission overlay describes
    pending,    \* the call whose sender is pending_permission_tx
    keys,       \* Enter and Esc in the terminal's queue: the call each was pressed over
    said        \* ghost: what was answered to which call's overlay while that call asked

runs   == <<run, produced, call, token, requests, remembered>>
dialog == <<overlay, shown, pending, keys, said>>
asides == <<mode, commands>>
output == <<stream, events, streaming, text, working, turns>>
screen == <<stream, streaming, text, working, turns>>
vars   == <<runs, dialog, asides, output>>

Runs  == 1..MaxRuns
NoRun == 0
Nobody == <<NoRun, 0>>

\* "always" is also "for this session": each has a set of its own, to the same effect
Replies == {"once", "always", "deny"}
Asking(tool) == [tool |-> tool, at |-> "check", reply |-> "none", allowed |-> FALSE, why |-> "none"]
Over(c) == [Asking(c.tool) EXCEPT !.at = "over"]

\* the calls of a run are gone; of what was said about them, what may be remembered stays
Dropped(r) ==
    /\ call' = [call EXCEPT ![r] = [i \in DOMAIN @ |-> Over(@[i])]]
    /\ said' = {s \in said : s.call[1] # r \/ s.reply = "always"}

Init ==
    /\ run = [r \in Runs |-> "none"] /\ produced = [r \in Runs |-> 0]
    /\ call = [r \in Runs |-> <<>>]
    /\ token = FALSE /\ requests = <<>> /\ remembered = {}
    /\ stream = NoRun /\ events = <<>> /\ streaming = FALSE
    /\ text = <<>> /\ working = FALSE /\ turns = <<>>
    /\ overlay = "none" /\ shown = Nobody /\ pending = Nobody
    /\ keys = <<>> /\ said = {}
    /\ mode = 0 /\ commands = 0

-------------------------------------------------------------------------------
(* A run, in the task run_stream spawned for it *)

Becomes(r, from, to) == run[r] = from /\ run' = [run EXCEPT ![r] = to]

(* A send waits for room; on a stream nobody holds it fails at once, unnoticed. *)
Emit(r, kind, n) ==
    IF stream = r THEN /\ Len(events) < Room
                       /\ events' = Append(events, [kind |-> kind, run |-> r, n |-> n])
                  ELSE UNCHANGED events

BeginTurn(r) ==
    /\ Becomes(r, "top", IF token THEN "failing" ELSE "wait")
    /\ UNCHANGED <<produced, call, token, requests, remembered, dialog, asides, output>>

Text(r) ==
    /\ run[r] = "wait" /\ produced[r] < MaxTexts
    /\ Emit(r, "text", produced[r] + 1)
    /\ produced' = [produced EXCEPT ![r] = @ + 1]
    /\ UNCHANGED <<run, call, token, requests, remembered, dialog, asides, screen>>

(* The response asks for tools; each ToolStart is sent, then the calls are polled
   together. One event stands for all of a batch, whose ends change no more than how a
   call is displayed. *)
Batch(r) ==
    /\ call[r] = <<>> /\ Becomes(r, "wait", "tools") /\ Emit(r, "tools", 0)
    /\ \E batch \in Batches : call' = [call EXCEPT ![r] = [i \in DOMAIN batch |-> Asking(batch[i])]]
    /\ UNCHANGED <<produced, token, requests, remembered, dialog, asides, screen>>

Complete(r) ==
    /\ Becomes(r, "wait", "completing")
    /\ UNCHANGED <<produced, call, token, requests, remembered, dialog, asides, output>>

(* An error of the provider; a cancel, where the loop waits in a select!. *)
Fail(r) ==
    /\ Becomes(r, "wait", "failing")
    /\ UNCHANGED <<produced, call, token, requests, remembered, dialog, asides, output>>
StopOnToken(r) == token /\ Fail(r)

(* The task dies, with the calls it polls: its sender goes without an ending. *)
Panic(r) ==
    /\ Becomes(r, "wait", "ended") \/ Becomes(r, "tools", "ended")
    /\ Dropped(r)
    /\ UNCHANGED <<produced, token, requests, remembered, overlay, shown, pending, keys>>
    /\ UNCHANGED <<asides, output>>

Announce(r) ==
    /\ \/ Becomes(r, "completing", "ended") /\ Emit(r, "complete", 0)
       \/ Becomes(r, "failing", "ended") /\ Emit(r, "error", 0)
    /\ UNCHANGED <<produced, call, token, requests, remembered, dialog, asides, screen>>

-------------------------------------------------------------------------------
(* TuiPermissionPolicy::check, once for each call of the batch *)

Decided(c, allowed, why) == [c EXCEPT !.at = "decided", !.allowed = allowed, !.why = why]

Modes == <<"auto", "plan", "editor", "bypass", "bypassAlert">>
Mode  == Modes[(mode % 5) + 1]

(* Every mode but auto decides alone; "shell" stands for Bash and PowerShell. *)
Verdict(c) ==
    LET l == Level[c.tool] IN
    CASE Mode = "plan"   -> Decided(c, l = "safe", "mode")
      [] Mode = "editor" -> Decided(c, l # "shell", "mode")
      [] Mode \in {"bypass", "bypassAlert"} -> Decided(c, TRUE, "mode")
      [] Mode = "auto" /\ l \in {"safe", "forbidden"} -> Decided(c, l = "safe", "level")
      [] Mode = "auto" /\ l \in {"write", "shell"} ->
            IF c.tool \in remembered THEN Decided(c, TRUE, "remembered") ELSE [c EXCEPT !.at = "send"]

Check(r, i) ==
    /\ run[r] = "tools" /\ call[r][i].at = "check"
    /\ call' = [call EXCEPT ![r][i] = Verdict(@)]
    /\ UNCHANGED <<run, produced, token, requests, remembered, dialog, asides, output>>

Ask(r, i) ==
    /\ run[r] = "tools" /\ call[r][i].at = "send" /\ Len(requests) < Room
    /\ requests' = Append(requests, <<r, i>>)
    /\ call' = [call EXCEPT ![r][i].at = "asked"]
    /\ UNCHANGED <<run, produced, token, remembered, dialog, asides, output>>

(* The answer arrives, or the sender was dropped, which is a denial. *)
Hear(r, i) ==
    /\ run[r] = "tools" /\ call[r][i].at = "asked" /\ call[r][i].reply # "none"
    /\ LET c == call[r][i] IN
       /\ call' = [call EXCEPT ![r][i] =
                     Decided(c, c.reply \notin {"deny", "dropped"},
                             IF c.reply = "dropped" THEN "dropped" ELSE "user")]
       /\ remembered' = IF c.reply = "always" THEN remembered \cup {c.tool} ELSE remembered
    /\ UNCHANGED <<run, produced, token, requests, dialog, asides, output>>

(* join_all: the batch is over when every call is decided; what tools do is ToolBatch. *)
EndBatch(r) ==
    /\ Becomes(r, "tools", "top")
    /\ \A i \in DOMAIN call[r] : call[r][i].at = "decided"
    /\ Dropped(r)
    /\ UNCHANGED <<produced, token, requests, remembered, overlay, shown, pending, keys>>
    /\ UNCHANGED <<asides, output>>

-------------------------------------------------------------------------------
(* The event loop: what the select! may take *)

\* what becomes of the sender of a call; nobody receives what a dead call asked for
Replied(calls, id, reply) ==
    IF id # Nobody /\ calls[id[1]][id[2]].at = "asked"
    THEN [calls EXCEPT ![id[1]][id[2]].reply = reply] ELSE calls

\* Mutant: the overlay changes, and an earlier sender that still waits is kept.
TakeRequestOver ==
    /\ requests # <<>>
    /\ requests' = Tail(requests)
    /\ overlay' = "permission" /\ shown' = Head(requests)
    /\ pending' = IF pending = Nobody THEN Head(requests) ELSE pending
    /\ call' = IF pending = Nobody THEN call ELSE Replied(call, Head(requests), "dropped")
    /\ UNCHANGED <<run, produced, token, remembered, keys, said, asides, output>>

(* A request takes the overlay over, whatever it showed; the sender it replaces is
   dropped. *)
TakeRequest ==
    /\ requests # <<>>
    /\ requests' = Tail(requests)
    /\ overlay' = "permission" /\ shown' = Head(requests)
    /\ pending' = Head(requests)
    /\ call' = Replied(call, pending, "dropped")
    /\ UNCHANGED <<run, produced, token, remembered, keys, said, asides, output>>

\* Mutant: the text is copied into the turn, not taken.
CommitCopies ==
    /\ turns' = IF text # <<>> \/ working
                 THEN Append(turns, [role |-> "assistant", text |-> text]) ELSE turns
    /\ working' = FALSE /\ streaming' = FALSE /\ UNCHANGED text

(* commit_turn *)
Commit ==
    /\ turns' = IF text # <<>> \/ working
                 THEN Append(turns, [role |-> "assistant", text |-> text]) ELSE turns
    /\ text' = <<>> /\ working' = FALSE /\ streaming' = FALSE

(* handle_agent_event *)
TakeEvent ==
    /\ stream # NoRun /\ events # <<>>
    /\ events' = Tail(events)
    /\ LET e == Head(events) IN
       \/ e.kind = "text"  /\ text' = Append(text, e) /\ UNCHANGED <<turns, working, streaming>>
       \/ e.kind = "tools" /\ working' = TRUE /\ UNCHANGED <<turns, text, streaming>>
       \/ e.kind \in {"complete", "error"} /\ Commit
    /\ UNCHANGED <<runs, dialog, asides, stream>>

\* Mutant: only an ending in the stream gives the prompt back.
ClosesUnnoticed ==
    /\ stream # NoRun /\ events = <<>> /\ run[stream] = "ended"
    /\ stream' = NoRun
    /\ UNCHANGED <<turns, text, working, streaming, runs, dialog, asides, events>>

(* The stream ends: next() gives None. *)
StreamCloses ==
    /\ stream # NoRun /\ events = <<>> /\ run[stream] = "ended"
    /\ stream' = NoRun
    /\ IF streaming THEN Commit ELSE UNCHANGED <<turns, text, working, streaming>>
    /\ UNCHANGED <<runs, dialog, asides, events>>

-------------------------------------------------------------------------------
(* Keys. They wait in the terminal's queue for the next tick, and are handled by   *)
(* what the screen has come to show by then. An open overlay takes them all; the    *)
(* side panel, when it has the focus, lets Cancel and Quit through and is left out. *)
(* Only of Enter and Esc, which answer, it matters what they were pressed over; any *)
(* other key is one step, behind those in the queue.                                *)

AtInput == overlay = "none" /\ keys = <<>>

(* At the input Enter on an empty line and Esc do nothing, but may come to a request. *)
Press ==
    /\ Len(keys) < MaxKeys
    /\ keys' = Append(keys, shown)
    /\ UNCHANGED <<runs, overlay, shown, pending, said, asides, output>>

Heard(reply) == {s \in {[call |-> shown, reply |-> reply]} : call[shown[1]][shown[2]].at = "asked"}

\* Mutant: a denial closes the overlay, and its sender stays where it is.
EscForgets ==
    /\ keys # <<>> /\ overlay = "permission"
    /\ keys' = Tail(keys)
    /\ \E reply \in Replies :
         /\ call' = IF reply = "deny" THEN call ELSE Replied(call, pending, reply)
         /\ said' = said \cup Heard(reply)
         /\ pending' = IF reply = "deny" THEN pending ELSE Nobody
    /\ overlay' = "none" /\ shown' = Nobody
    /\ UNCHANGED <<run, produced, token, requests, remembered, asides, output>>

(* Enter or Esc, come to a permission overlay; the arrows before it are handled by
   then or with it, and start from "once" when the overlay is new. *)
Answer ==
    /\ keys # <<>> /\ overlay = "permission"
    /\ keys' = Tail(keys)
    /\ \E reply \in Replies :
         /\ call' = Replied(call, pending, reply)
         /\ said' = said \cup Heard(reply)
    /\ pending' = Nobody /\ overlay' = "none" /\ shown' = Nobody
    /\ UNCHANGED <<run, produced, token, requests, remembered, asides, output>>

(* Come to an overlay that only informs, or to the input. *)
Dismiss ==
    /\ keys # <<>> /\ overlay # "permission"
    /\ keys' = Tail(keys) /\ overlay' = "none"
    /\ UNCHANGED <<runs, shown, pending, said, asides, output>>

(* Ctrl+C while the agent streams *)
Cancel ==
    /\ AtInput /\ streaming
    /\ token' = TRUE
    /\ Commit
    /\ UNCHANGED <<run, produced, call, requests, remembered, dialog, asides, stream, events>>

(* Ctrl+D, /exit, and Ctrl+C with nothing to cancel: the process ends, and with it
   everything this module is about. *)
Quit == AtInput /\ UNCHANGED vars

(* Shift+Tab *)
SwitchMode ==
    /\ AtInput /\ mode + commands < MaxAsides
    /\ mode' = mode + 1
    /\ UNCHANGED <<runs, dialog, commands, output>>

(* A line is typed, pasted or recalled, and entered; not while the agent streams. An
   overlay that opens on the way takes the keys and gives them back. A prompt starts a
   run, whose stream replaces the one before; what that one sent and nobody committed
   stays in streaming_text and active_tools. *)
Start(r) ==
    /\ Becomes(r, "none", "top") /\ \A q \in 1..(r - 1) : run[q] # "none"
    /\ stream' = r /\ events' = <<>>
    /\ turns' = Append(turns, [role |-> "user", text |-> <<>>])
    /\ streaming' = TRUE
    /\ UNCHANGED <<produced, call, token, requests, remembered, dialog, asides, text, working>>

\* Mutant: a prompt may be entered while the agent streams.
SubmitAnytime == AtInput /\ \E r \in Runs : Start(r)

Submit == AtInput /\ ~streaming /\ \E r \in Runs : Start(r)

LastOfAssistant == {i \in DOMAIN turns : /\ turns[i].role = "assistant"
                                         /\ \A j \in DOMAIN turns : j > i => turns[j].role # "assistant"}
\* Commands that only add a note or open the side panel are left out.
Command ==
    /\ AtInput /\ ~streaming /\ mode + commands < MaxAsides
    /\ commands' = commands + 1
    /\ \/ /\ turns' = <<>> /\ text' = <<>> /\ working' = FALSE           \* /clear
          /\ UNCHANGED overlay
       \/ /\ LastOfAssistant # {}                                    \* /rewind
          /\ \E i \in LastOfAssistant : turns' = SubSeq(turns, 1, i - 1)
          /\ UNCHANGED <<text, working, overlay>>
       \/ overlay' = "info" /\ UNCHANGED <<turns, text, working>>    \* /help, /graph
    /\ UNCHANGED <<runs, shown, pending, keys, said, mode, stream, events, streaming>>

-------------------------------------------------------------------------------
OfRun(r)     == BeginTurn(r) \/ StopOnToken(r) \/ Announce(r) \/ EndBatch(r)
OfCall(r, i) == i \in DOMAIN call[r] /\ (Check(r, i) \/ Ask(r, i) \/ Hear(r, i))
Provider(r)  == Text(r) \/ Batch(r) \/ Complete(r) \/ Fail(r) \/ Panic(r)
Loop == TakeRequest \/ TakeEvent \/ StreamCloses
Key  == Press \/ Answer \/ Dismiss \/ Cancel \/ Quit \/ SwitchMode \/ Submit \/ Command
Positions == UNION {DOMAIN batch : batch \in Batches}

Next ==
    \/ Loop \/ Key
    \/ \E r \in Runs : OfRun(r) \/ Provider(r) \/ \E i \in Positions : OfCall(r, i)

Spec == Init /\ [][Next]_vars

(* The runtime runs what is ready, and the user answers what the terminal asks, with
   keys that are handled. *)
Ready == Loop \/ \E r \in Runs : OfRun(r) \/ \E i \in Positions : OfCall(r, i)
UserAnswers == overlay = "permission" /\ (Press \/ Answer)
Fairness == WF_vars(Ready) /\ WF_vars(UserAnswers)
FairSpec == Spec /\ Fairness

-------------------------------------------------------------------------------
Ids    == Runs \X (Nat \ {0})
Calls  == [tool : Tools, at : {"check", "send", "asked", "decided", "over"},
           reply : Replies \cup {"none", "dropped"}, allowed : BOOLEAN,
           why : {"none", "mode", "level", "remembered", "user", "dropped"}]
Events == [kind : {"text", "tools", "complete", "error"}, run : Runs, n : Nat]

TypeOK ==
    /\ run \in [Runs -> {"none", "top", "wait", "tools", "completing", "failing", "ended"}]
    /\ produced \in [Runs -> 0..MaxTexts] /\ call \in [Runs -> Seq(Calls)]
    /\ requests \in Seq(Ids) /\ Len(requests) <= Room
    /\ token \in BOOLEAN /\ remembered \subseteq Tools
    /\ mode \in 0..MaxAsides /\ commands \in 0..MaxAsides
    /\ stream \in Runs \cup {NoRun} /\ events \in Seq(Events) /\ Len(events) <= Room
    /\ streaming \in BOOLEAN /\ (streaming => stream # NoRun)
    /\ working \in BOOLEAN /\ text \in Seq(Events)
    /\ turns \in Seq([role : {"user", "assistant"}, text : Seq(Events)])
    /\ overlay \in {"none", "permission", "info"}
    /\ shown \in Ids \cup {Nobody} /\ pending \in Ids \cup {Nobody}
    /\ keys \in Seq(Ids \cup {Nobody}) /\ Len(keys) <= MaxKeys
    /\ said \subseteq [call : Ids, reply : Replies]

(* A call that was allowed on the user's word was allowed in answer to the overlay
   that described this very call, however many calls and runs were asking; one that
   was allowed because the tool is remembered, after an answer that said so for the
   tool. A key may come to an overlay it was not pressed over: it was pressed over
   none, or over one whose call no longer asks, never in place of one that still
   does. *)
StillAsks(id) == call[id[1]][id[2]].at = "asked" /\ call[id[1]][id[2]].reply = "none"
ConsentIsReal ==
    /\ \A r \in Runs : \A i \in DOMAIN call[r] :
         LET c == call[r][i] IN
         /\ c.why = "user" => [call |-> <<r, i>>, reply |-> c.reply] \in said
         /\ c.why = "remembered" => \E s \in said : /\ s.reply = "always"
                                                  /\ call[s.call[1]][s.call[2]].tool = c.tool
    /\ \A k \in DOMAIN keys : keys[k] \in {pending, Nobody} \/ ~StillAsks(keys[k])

(* As long as nothing was cancelled, an answer on the screen is what one run sent,
   all of it and in order, and the run is over. *)
TurnsAreWhole ==
    ~token => \A k \in DOMAIN turns :
        turns[k].role = "assistant" =>
          \E r \in Runs : /\ run[r] = "ended"
                          /\ turns[k].text = [n \in 1..produced[r] |->
                                                [kind |-> "text", run |-> r, n |-> n]]

(* The prompt comes back: a run that streams ends, or dies, and the terminal takes
   input again, if the provider ends its answers. *)
PromptReturns ==
    WF_vars(\E r \in Runs : Complete(r)) => (streaming ~> ~streaming)

(* "Sends requests to the TUI via channel, awaits the user's decision rendered as an
   overlay": a call is denied by the mode, its level or the user. It fails: the second
   of two calls takes the overlay from the first. *)
DenialsAreUsers == \A r \in Runs : \A i \in DOMAIN call[r] : call[r][i].why # "dropped"

(* Nor this: a key that answers was pressed over the overlay it answers. One in the
   queue, meant for another overlay or for the input, answers what is shown when it
   is handled. *)
KeysAreForTheShown == keys # <<>> /\ overlay = "permission" => Head(keys) = shown
===============================================================================
