---------------------------- MODULE EventStream ----------------------------
(***************************************************************************)
(* The channels between a running agent and its caller:                    *)
(* crates/cersei-agent/src/lib.rs (run, run_stream), runner.rs (run_agent) *)
(* and events.rs (AgentStream).                                            *)
(*                                                                         *)
(* Agent::run_stream spawns the loop, hands the caller the receiving end   *)
(* of a bounded event channel and the sending end of a control channel.    *)
(* Agent::run calls the loop in place and keeps both of these ends itself. *)
(* The loop is reduced to what this module is about: it waits for the      *)
(* provider's response, where it watches the cancel token; it sends        *)
(* events, and after a warning about the context it waits for compaction's *)
(* summary, which is another request to the provider: there it watches     *)
(* nothing.  Events are numbered in the order they are produced.           *)
(***************************************************************************)
EXTENDS Integers, Sequences

CONSTANTS
    Streaming,        \* run_stream, or run
    Capacity,         \* of the event channel, 512 in the code
    ControlCapacity,  \* of the control channel, 64
    MaxEvents         \* bound: events one run produces

ASSUME StreamAssumption ==
    /\ Streaming \in BOOLEAN
    /\ Capacity \in Nat \ {0} /\ ControlCapacity \in Nat \ {0} /\ MaxEvents \in Nat

VARIABLES
    runner,    \* "waiting" for a response, "sending", "summarizing", "ending", "done", "panicked"
    outcome,   \* what the loop returned
    produced,  \* events produced so far
    events,    \* the event channel
    caller,    \* "reading", "returned" or "dropped"
    received,  \* events the caller took out
    result,    \* what collect() gave the caller
    control,   \* the control channel
    asked,     \* the caller called AgentStream::cancel
    token      \* Agent.cancel_token is cancelled

streamVars == <<runner, outcome, produced, events, caller, received, result, control, asked, token>>

Terminal == {"complete", "error"}
Event == [kind : {"delta"} \union Terminal, number : Nat]

Delta(n) == [kind |-> "delta", number |-> n]
Ending(what) == [kind |-> what, number |-> 0]

StreamInit ==
    /\ runner = "waiting" /\ outcome = "none" /\ produced = 0
    /\ events = << >> /\ caller = "reading" /\ received = << >> /\ result = "none"
    /\ control = << >> /\ asked = FALSE /\ token = FALSE

\* the receiving end still exists: only then does a send wait for room
Listening == caller = "reading"

(* Mutants: a full channel drops the event; a send waits for room although *)
(* nobody will ever make any.                                              *)
PutOrDrop(e) ==
    IF Listening /\ Len(events) < Capacity THEN events' = Append(events, e)
                                           ELSE UNCHANGED events

PutBlocks(e) == Len(events) < Capacity /\ events' = Append(events, e)

\* mpsc::Sender::send: waits for room, fails at once when nobody listens
Put(e) ==
    IF Listening THEN Len(events) < Capacity /\ events' = Append(events, e)
                 ELSE UNCHANGED events

Produce ==
    /\ runner = "waiting" /\ produced < MaxEvents
    /\ runner' = "sending" /\ produced' = produced + 1
    /\ UNCHANGED <<outcome, events, caller, received, result, control, asked, token>>

\* event_tx.send(..).await: an error (nobody listens) is ignored.  The warning
\* that the context fills up can be followed by the request for a summary.
Send ==
    /\ runner = "sending"
    /\ Put(Delta(produced))
    /\ runner' \in {"waiting", "summarizing"}
    /\ UNCHANGED <<outcome, produced, caller, received, result, control, asked, token>>

\* the provider answers the summary request, or refuses it: the loop goes on
Summarized ==
    /\ runner = "summarizing" /\ runner' = "waiting"
    /\ UNCHANGED <<outcome, produced, events, caller, received, result, control, asked, token>>

Return(what) ==
    /\ runner = "waiting"
    /\ runner' = "ending" /\ outcome' = what
    /\ UNCHANGED <<produced, events, caller, received, result, control, asked, token>>

Finish == \E what \in Terminal : Return(what)

\* Mutant: nothing watches the token.
IgnoreToken == token /\ FALSE

\* select! at the awaits on the provider's response
StopOnToken == token /\ Return("error")

\* Mutant: the spawned task ends without a terminal event.
EndSilently ==
    /\ runner = "ending"
    /\ runner' = "done"
    /\ UNCHANGED <<outcome, produced, events, caller, received, result, control, asked, token>>

\* run_stream sends the output or the error down the channel; run returns it
Announce ==
    /\ runner = "ending"
    /\ IF Streaming THEN Put(Ending(outcome)) ELSE UNCHANGED events
    /\ runner' = "done"
    /\ UNCHANGED <<outcome, produced, caller, received, result, control, asked, token>>

\* the spawned task dies and its sender with it
Panic ==
    /\ Streaming /\ runner \in {"waiting", "summarizing"}
    /\ runner' = "panicked"
    /\ UNCHANGED <<outcome, produced, events, caller, received, result, control, asked, token>>

LoopIsOver == runner \in {"done", "panicked"}

-----------------------------------------------------------------------------
(* The caller: run_stream's handle.  Agent::run keeps the receiver unread. *)

\* collect(): returns at the first terminal event, or when the channel closes
Receive ==
    /\ Streaming /\ Listening /\ events # << >>
    /\ received' = Append(received, Head(events))
    /\ IF Head(events).kind \in Terminal
       THEN caller' = "returned" /\ result' = Head(events).kind /\ events' = << >>
       ELSE events' = Tail(events) /\ UNCHANGED <<caller, result>>
    /\ UNCHANGED <<runner, outcome, produced, control, asked, token>>

\* collect() when the channel closes without an ending: Err(Cancelled)
SeeClosed ==
    /\ Streaming /\ Listening /\ events = << >> /\ LoopIsOver
    /\ caller' = "returned" /\ result' = "cancelled"
    /\ UNCHANGED <<runner, outcome, produced, events, received, control, asked, token>>

Drop ==
    /\ Streaming /\ Listening
    /\ caller' = "dropped" /\ events' = << >>
    /\ UNCHANGED <<runner, outcome, produced, received, result, control, asked, token>>

\* AgentStream::cancel: try_send, whose failure is ignored.  Nothing in the
\* loop reads the other end (_control_rx).
StreamCancel ==
    /\ Streaming /\ Listening
    /\ asked' = TRUE
    /\ control' = IF Len(control) < ControlCapacity /\ runner \in {"waiting", "sending", "summarizing"}
                  THEN Append(control, "cancel") ELSE control
    /\ UNCHANGED <<runner, outcome, produced, events, caller, received, result, token>>

\* Agent::cancel, or whoever holds the token
TokenCancel ==
    /\ ~token /\ token' = TRUE
    /\ UNCHANGED <<runner, outcome, produced, events, caller, received, result, control, asked>>

Rest == LoopIsOver /\ (Streaming => ~Listening) /\ UNCHANGED streamVars

StreamNext ==
    \/ Produce \/ Send \/ Summarized \/ Finish \/ StopOnToken \/ Announce \/ Panic
    \/ Receive \/ SeeClosed \/ Drop \/ StreamCancel \/ TokenCancel \/ Rest

StreamSpec == StreamInit /\ [][StreamNext]_streamVars

\* the runtime schedules both tasks, and the caller keeps reading; a provider
\* may stay silent for ever, to a turn and to a request for a summary
QuietSpec ==
    /\ StreamSpec
    /\ WF_streamVars(Send) /\ WF_streamVars(StopOnToken) /\ WF_streamVars(Announce)
    /\ WF_streamVars(Receive) /\ WF_streamVars(SeeClosed)

-----------------------------------------------------------------------------
StreamTypeOK ==
    /\ runner \in {"waiting", "sending", "summarizing", "ending", "done", "panicked"}
    /\ outcome \in Terminal \union {"none"}
    /\ produced \in 0..MaxEvents
    /\ events \in Seq(Event) /\ Len(events) <= Capacity /\ received \in Seq(Event)
    /\ caller \in {"reading", "returned", "dropped"}
    /\ result \in Terminal \union {"none", "cancelled"}
    /\ control \in Seq({"cancel"}) /\ Len(control) <= ControlCapacity
    /\ asked \in BOOLEAN /\ token \in BOOLEAN

\* A caller that listens loses no event and sees them in the order the loop
\* produced them, the terminal event last, however full the channel was.
Lossless ==
    Listening =>
        LET seen == received \o events
            sent == IF runner = "sending" THEN produced - 1 ELSE produced
        IN /\ \A i \in 1..sent : i <= Len(seen) /\ seen[i] = Delta(i)
           /\ Len(seen) = sent + (IF Streaming /\ runner = "done" THEN 1 ELSE 0)

\* collect() reports what the loop returned, after every event; it says
\* Cancelled only when the loop's task died.
CollectTruthful ==
    /\ result \in Terminal => result = outcome /\ Len(received) = produced + 1
    /\ result = "cancelled" => runner = "panicked"

\* The loop of a streamed run ends, whether its caller reads everything or drops the
\* stream: when its token is cancelled, even if the provider never answers the turn,
\* unless it is compaction's summary that never comes; and when the provider answers.
StreamedRunEnds ==
    /\ token ~> (LoopIsOver \/ [](runner = "summarizing"))
    /\ WF_streamVars(Finish) /\ WF_streamVars(Summarized) =>
           ((runner \in {"waiting", "sending", "summarizing", "ending"}) ~> LoopIsOver)

(* What the documentation says, and the code does not do *)

\* "Run the agent without streaming (blocking until complete)."
RunCompletes == WF_streamVars(Finish) /\ WF_streamVars(Summarized) => <>LoopIsOver
=============================================================================
