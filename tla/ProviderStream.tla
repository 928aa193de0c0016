---------------------------- MODULE ProviderStream ----------------------------
(* One streamed answer, from the provider's frames to the response the agent    *)
(* acts on: the reader task spawned by complete() in anthropic.rs, openai.rs or  *)
(* gemini.rs turns frames into StreamEvents on a bounded channel, and the        *)
(* consumer (CompletionStream::collect, or compaction's own loop) accumulates    *)
(* them. The connection may end or break between any two frames; a last line     *)
(* without its newline is dropped by the readers and is a cut before that frame. *)
(*                                                                             *)
(* The provider is the environment. It means to say `plan`, a sequence of parts, *)
(* each a text or a tool call, and may stop anywhere for want of tokens.         *)
EXTENDS StreamAccumulator, FiniteSetsExt, SequencesExt

CONSTANTS Plans,       \* the answers the provider may mean to give
          Nameless,    \* calls the provider sends without a usable id or name
          Capacity     \* the channel's capacity (256 in the code)

\* an answer gives each of its calls an id of its own
ASSUME StreamAssumption ==
    /\ Plans \subseteq Seq(Calls \cup {"text"})
    /\ \A p \in Plans : \A i, j \in DOMAIN p : p[i] = p[j] /\ p[i] # "text" => i = j
    /\ Nameless \subseteq Calls
    /\ Capacity \in Nat \ {0}

(* The reader that was spawned; OpenAI-compatible servers number their calls, or
   repeat the id in every delta, or give the id once and continue. *)
Readers == {"anthropic", "numbered", "by id", "bare", "gemini"}
OpenAI  == {"numbered", "by id", "bare"}

VARIABLES
    reader,   \* which reader task runs
    plan,     \* what the provider means to say
    sent,     \* frames received of each part of the plan
    finish,   \* the stop reason the provider gave, or NoStop
    ended,    \* the provider has sent its very last frame
    closed,   \* "no", "eof" or "reset": how the connection ended, seen by the reader
    slots,    \* tool_calls of the OpenAI reader: slot -> the call put together there
    slotOf,   \* slot_for_id
    last,     \* last_slot, or -1
    texted,   \* text_started
    block,    \* block_index of the Gemini reader
    outbox,   \* events the reader is about to send, oldest first
    chan,     \* the channel
    running,  \* the reader task is alive
    consumer, \* "collect" stops at the first error event, "compact" reads on
    acc,      \* its StreamAccumulator
    outcome   \* what became of the answer

provider == <<reader, plan, sent, finish, ended>>
local    == <<slots, slotOf, last, texted, block>>
taking   == <<consumer, acc, outcome>>
vars     == <<provider, closed, local, outbox, chan, running, taking>>

Parts     == DOMAIN plan
IsCall(i) == plan[i] # "text"
Size(i)   == IF IsCall(i) THEN Pieces[plan[i]] ELSE 1
EmptyCall == [id |-> NoId, named |-> FALSE, args |-> <<>>]

Init ==
    /\ reader \in Readers
    /\ plan \in Plans
    /\ reader \in {"anthropic", "gemini"} =>
         \A i \in DOMAIN plan : plan[i] \notin Nameless
    /\ sent = [i \in DOMAIN plan |-> 0]
    /\ finish = NoStop /\ ended = FALSE /\ closed = "no"
    /\ slots = [s \in {} |-> EmptyCall] /\ slotOf = [c \in {} |-> 0] /\ last = -1
    /\ texted = FALSE /\ block = 0
    /\ outbox = <<>> /\ chan = <<>> /\ running = TRUE
    /\ consumer \in {"collect", "compact"}
    /\ acc = Fresh /\ outcome = Pending

-------------------------------------------------------------------------------
(* The next frame reaches the reader: it has sent all it made of the last one. *)
Reading == running /\ closed = "no" /\ outbox = <<>> /\ ~ended

(* A part has 1 + Size frames and Anthropic's block stop; Gemini sends it whole. *)
FramesOf(i) == CASE reader = "anthropic" -> Size(i) + 2
                 [] reader = "gemini"    -> 1
                 [] OTHER                -> IF IsCall(i) THEN Size(i) + 1 ELSE 1
Whole(i)  == sent[i] = FramesOf(i)
InTurn(i) == \A j \in Parts : j < i => Whole(j)
Due(i)    == finish = NoStop /\ ~Whole(i) /\ InTurn(i)
Piece(i, k) == <<plan[i], k>>
Arrives(i)  == sent' = [sent EXCEPT ![i] = @ + 1]

(* spawn_sse and parse_sse_event: one event for each frame, as it says. *)
AnthropicFrame(i) ==
    /\ reader = "anthropic" /\ Reading /\ Due(i) /\ Arrives(i)
    /\ outbox' = << CASE sent[i] = 0 ->
                           IF IsCall(i) THEN BlockStart(i - 1, "tool_use", plan[i], TRUE)
                           ELSE BlockStart(i - 1, "text", NoId, FALSE)
                      [] sent[i] \in 1..Size(i) -> Delta(i - 1, Piece(i, sent[i]))
                      [] OTHER -> BlockStop(i - 1) >>
    /\ UNCHANGED <<reader, plan, finish, ended, closed, local, chan, running, taking>>

(* A part of a Gemini candidate is a block of its own, arguments and all. *)
GeminiFrame(i) ==
    /\ reader = "gemini" /\ Reading /\ Due(i) /\ Arrives(i)
    /\ outbox' = << IF IsCall(i) THEN BlockStart(block, "tool_use", plan[i], TRUE)
                    ELSE BlockStart(block, "text", NoId, FALSE) >>
                 \o [k \in 1..Size(i) |-> Delta(block, Piece(i, k))]
                 \o << BlockStop(block) >>
    /\ block' = block + 1
    /\ UNCHANGED <<reader, plan, finish, ended, closed, slots, slotOf, last, texted,
                   chan, running, taking>>

OpenText == IF texted THEN <<>> ELSE << BlockStart(0, "text", NoId, FALSE) >>

TextFrame(i) ==
    /\ reader \in OpenAI /\ ~IsCall(i) /\ Reading /\ Due(i) /\ Arrives(i)
    /\ outbox' = OpenText \o << Delta(0, Piece(i, 1)) >>
    /\ texted' = TRUE
    /\ UNCHANGED <<reader, plan, finish, ended, closed, slots, slotOf, last, block,
                   chan, running, taking>>

\* Mutant: the slot comes from the index alone, and a missing one is slot 0 (F-A2).
IndexOnly(index, id) == IF index = -1 THEN 0 ELSE index

(* The slot a delta of a tool call belongs to: its index, else the slot of its
   id, else a slot of its own for a new id, else the one touched last. *)
NextSlot == IF DOMAIN slots = {} THEN 0 ELSE Max(DOMAIN slots) + 1
SlotFor(index, id) ==
    CASE index # -1             -> index
      [] index = -1 /\ id = NoId -> IF last = -1 THEN 0 ELSE last
      [] OTHER                   -> IF id \in DOMAIN slotOf THEN slotOf[id] ELSE NextSlot

(* A call is opened by a delta without arguments and continued by one for each
   fragment. Numbered calls and calls that repeat their id may take turns. *)
IndexOf(i) == IF reader = "numbered" THEN Cardinality({j \in Parts : j < i /\ IsCall(j)}) ELSE -1
IdOf(i) == IF plan[i] \in Nameless /\ reader = "numbered" THEN NoId
           ELSE IF sent[i] = 0 \/ reader = "by id" THEN plan[i] ELSE NoId
MayInterleave(i) == /\ reader \in {"numbered", "by id"} /\ finish = NoStop /\ ~Whole(i)
                    /\ \A j \in Parts : j < i => IF IsCall(j) THEN sent[j] > 0 ELSE Whole(j)

CallFrame(i) ==
    /\ reader \in OpenAI /\ IsCall(i) /\ Reading /\ Arrives(i)
    /\ Due(i) \/ MayInterleave(i)
    /\ LET slot == SlotFor(IndexOf(i), IdOf(i))
           had  == IF slot \in DOMAIN slots THEN slots[slot] ELSE EmptyCall
           now  == [id    |-> IF IdOf(i) = NoId THEN had.id ELSE IdOf(i),
                    named |-> had.named \/ (sent[i] = 0 /\ plan[i] \notin Nameless),
                    args  |-> IF sent[i] = 0 THEN had.args
                              ELSE Append(had.args, Piece(i, sent[i]))]
       IN /\ slots' = [s \in DOMAIN slots \cup {slot} |-> IF s = slot THEN now ELSE slots[s]]
          /\ slotOf' = IF IdOf(i) = NoId THEN slotOf
                       ELSE [c \in DOMAIN slotOf \cup {IdOf(i)} |->
                               IF c = IdOf(i) THEN slot ELSE slotOf[c]]
          /\ last' = slot
    /\ UNCHANGED <<reader, plan, finish, ended, closed, texted, block, outbox, chan,
                   running, taking>>

(* The provider says why it stopped: for want of tokens at any point, in the
   middle of a call too, or having said everything. OpenAI-compatible servers may
   say "stop" after calls; the reason travels with the usage or without it. *)
SaidAll == \A i \in Parts : Whole(i)
Reasons == (IF SaidAll THEN {IF \E i \in Parts : IsCall(i) THEN "ToolUse" ELSE "EndTurn"} ELSE {})
           \cup {"MaxTokens"}
           \cup (IF SaidAll /\ reader \in OpenAI THEN {"EndTurn"} ELSE {})
SawCalls == \E i \in Parts : IsCall(i) /\ sent[i] > 0

FinishFrame ==
    /\ Reading /\ finish = NoStop
    /\ \E reason \in Reasons, usage \in BOOLEAN :
         /\ finish' = reason
         /\ outbox' = CASE reader = "anthropic" ->
                             (LET cut == {i \in Parts : sent[i] > 0 /\ ~Whole(i)} IN
                              IF cut = {} THEN <<>> ELSE << BlockStop(Max(cut) - 1) >>)
                             \o << MessageDelta(reason) >>
                        [] reader = "gemini" ->
                             << MessageDelta(IF SawCalls THEN "ToolUse" ELSE reason) >>
                        [] OTHER -> IF usage THEN << MessageDelta(reason) >> ELSE <<>>
    /\ UNCHANGED <<reader, plan, sent, ended, closed, local, chan, running, taking>>

(* Anthropic reports trouble inside a stream; the reader passes it on and reads on. *)
ErrorFrame ==
    /\ reader = "anthropic" /\ Reading /\ finish = NoStop
    /\ finish' = "trouble"
    /\ outbox' = << Error >>
    /\ UNCHANGED <<reader, plan, sent, ended, closed, local, chan, running, taking>>

-------------------------------------------------------------------------------
(* openai.rs, after the read loop: calls that can be routed become blocks in the
   ascending order of their slots (a BTreeMap), the others are named in the text
   or fail the turn. *)
Routable(s) == slots[s].id # NoId /\ slots[s].named
Emitted    == LET routable == {s \in DOMAIN slots : Routable(s)} IN
              CHOOSE order \in [1..Cardinality(routable) -> routable] :
                  \A j, k \in DOMAIN order : j < k => order[j] < order[k]
Rejected   == {s \in DOMAIN slots : ~Routable(s)}
Executable == {s \in DOMAIN slots : Routable(s) /\ Parses(slots[s].args)}
CallBlock(s) == << BlockStart(s + 1, "tool_use", slots[s].id, slots[s].named) >>
                \o [k \in 1..Len(slots[s].args) |-> Delta(s + 1, slots[s].args[k])]
                \o << BlockStop(s + 1) >>
Note       == <<"note", 0>>

\* Mutant: the provider's reason wins over what it produced (P1-BLOCKER).
ReasonWins(given) == IF given # NoStop THEN given
                     ELSE IF Emitted # <<>> THEN "ToolUse" ELSE "EndTurn"

(* The provider's reason describes how generation ended; calls that can run must. *)
StopFor(given) ==
    CASE Executable # {}                          -> "ToolUse"
      [] Executable = {} /\ given = "EndTurn"     -> IF Emitted # <<>> THEN "ToolUse" ELSE "EndTurn"
      [] Executable = {} /\ given = NoStop        -> IF Emitted # <<>> THEN "ToolUse" ELSE "EndTurn"
      [] OTHER                                    -> given

Noted  == Rejected # {} /\ Emitted # <<>>
\* Mutant: unusable calls are dropped without a word.
SilentDrop == <<>>
Notice == IF Noted THEN OpenText \o << Delta(0, Note) >> ELSE <<>>
\* Mutant: one unusable call fails the whole turn (P1-HIGH).
AnyRejectFails(done) == Rejected # {} \/ (~done /\ Emitted = <<>> /\ ~texted)
Fault(done) == (Rejected # {} /\ Emitted = <<>>) \/ (~done /\ Emitted = <<>> /\ ~texted)

Finalize(given, done) ==
    FlattenSeq([k \in 1..Len(Emitted) |-> CallBlock(Emitted[k])])
    \o Notice
    \o (IF texted \/ Noted THEN << BlockStop(0) >> ELSE <<>>)
    \o << MessageDelta(StopFor(given)) >>
    \o (IF Fault(done) THEN << Error >> ELSE <<>>)
    \o << MessageStop >>

(* The provider's last frame: [DONE], message_stop, or for Gemini the clean end. *)
LastFrame ==
    /\ Reading /\ finish \in Stops \cup (IF reader \in OpenAI /\ SaidAll THEN {NoStop} ELSE {})
    /\ ended' = TRUE /\ closed' = "eof"
    /\ outbox' = IF reader \in OpenAI THEN Finalize(finish, TRUE) ELSE << MessageStop >>
    /\ UNCHANGED <<reader, plan, sent, finish, local, chan, running, taking>>

(* The connection ends cleanly before the provider's last frame: the OpenAI and
   Gemini readers complete the message all the same. *)
EndEarly ==
    CASE reader \in OpenAI      -> Finalize(finish, FALSE)
      [] reader = "gemini"      -> << MessageStop >>
      [] reader = "anthropic"   -> <<>>
Cut ==
    /\ Reading
    /\ closed' = "eof" /\ outbox' = EndEarly
    /\ UNCHANGED <<provider, local, chan, running, taking>>

\* Mutant: a broken connection is taken for the end of the stream.
BreakIsEnd == EndEarly

(* A chunk is an error: it is passed on, and nothing after it. *)
BreakWith == << Error >>
Break ==
    /\ Reading
    /\ closed' = "reset" /\ outbox' = BreakWith
    /\ UNCHANGED <<provider, local, chan, running, taking>>

Gone == outcome # Pending

\* Mutant: a send to a channel nobody reads any more is tried again and again.
SendRetries ==
    /\ running /\ outbox # <<>>
    /\ IF Len(chan) < Capacity /\ ~Gone
       THEN chan' = Append(chan, Head(outbox)) /\ outbox' = Tail(outbox)
       ELSE UNCHANGED <<chan, outbox>>
    /\ UNCHANGED <<provider, closed, local, running, taking>>
(* The reader sends the next event, waiting while the channel is full. Once the
   consumer is gone the send fails: spawn_sse returns, the others carry on. *)
Send ==
    /\ running /\ outbox # <<>>
    /\ \/ ~Gone /\ Len(chan) < Capacity
          /\ chan' = Append(chan, Head(outbox)) /\ outbox' = Tail(outbox) /\ UNCHANGED running
       \/ Gone /\ reader = "anthropic"
          /\ running' = FALSE /\ outbox' = <<>> /\ UNCHANGED chan
       \/ Gone /\ reader # "anthropic"
          /\ outbox' = Tail(outbox) /\ UNCHANGED <<chan, running>>
    /\ UNCHANGED <<provider, closed, local, taking>>

(* The task ends and with it the sender. *)
Return ==
    /\ running /\ closed # "no" /\ outbox = <<>>
    /\ running' = FALSE
    /\ UNCHANGED <<provider, closed, local, outbox, chan, taking>>

-------------------------------------------------------------------------------
(* collect gives up at an error event; compaction's loop leaves it to
   into_response. Both stop when the channel is empty and its sender is gone. *)
Take ==
    /\ ~Gone /\ chan # <<>>
    /\ IF Head(chan).kind = "error" /\ consumer = "collect"
       THEN /\ outcome' = Refused /\ chan' = <<>> /\ UNCHANGED acc
       ELSE /\ acc' = process_event(acc, Head(chan)) /\ chan' = Tail(chan)
            /\ UNCHANGED outcome
    /\ UNCHANGED <<provider, closed, local, outbox, running, consumer>>

Finish ==
    /\ ~Gone /\ chan = <<>> /\ ~running
    /\ outcome' = into_response(acc)
    /\ UNCHANGED <<provider, closed, local, outbox, chan, running, consumer, acc>>

(* The consumer is cancelled and drops the receiver. *)
Drop ==
    /\ ~Gone
    /\ outcome' = Dropped /\ chan' = <<>>
    /\ UNCHANGED <<provider, closed, local, outbox, running, consumer, acc>>

Frame == \E i \in Parts : \/ AnthropicFrame(i) \/ GeminiFrame(i)
                          \/ TextFrame(i) \/ CallFrame(i)
Over  == ~running /\ Gone /\ UNCHANGED vars
Next  == \/ Frame \/ FinishFrame \/ ErrorFrame \/ LastFrame \/ Cut \/ Break
         \/ Send \/ Return \/ Take \/ Finish \/ Drop \/ Over

(* The two tasks are scheduled; nothing makes the provider speak. *)
Fairness == WF_vars(Send) /\ WF_vars(Return) /\ WF_vars(Take) /\ WF_vars(Finish)
Spec == Init /\ [][Next]_vars /\ Fairness
-------------------------------------------------------------------------------
Events == {e \in [kind : {"start", "delta", "stop", "message_delta", "message_stop", "error"},
                  index : Nat, type : Types, id : Calls \cup {NoId}, named : BOOLEAN,
                  piece : {<<>>, Note} \cup ((Calls \cup {"text"}) \X Nat),
                  stop : Stops \cup {NoStop}] : e.kind = "start" => e.piece = <<>>}

TypeOK ==
    /\ reader \in Readers /\ plan \in Plans
    /\ \A i \in Parts : sent[i] \in 0..FramesOf(i)
    /\ finish \in Stops \cup {NoStop, "trouble"}
    /\ ended \in BOOLEAN /\ closed \in {"no", "eof", "reset"}
    /\ \A s \in DOMAIN slots : s \in Nat /\ slots[s].id \in Calls \cup {NoId}
    /\ \A c \in DOMAIN slotOf : c \in Calls /\ slotOf[c] \in DOMAIN slots
    /\ last \in DOMAIN slots \cup {-1}
    /\ texted \in BOOLEAN /\ block \in Nat /\ running \in BOOLEAN
    /\ consumer \in {"collect", "compact"}
    /\ outcome.kind \in {"pending", "ok", "err", "dropped"}
    /\ outcome.stop \in Stops \cup {NoStop}
    \* a dropped receiver holds nothing, a living one no more than its capacity
    /\ Len(chan) <= IF Gone THEN 0 ELSE Capacity
    /\ \A k \in DOMAIN chan : chan[k] \in Events

Tools(r)    == {k \in DOMAIN r.blocks : r.blocks[k].type = "tool_use"}
Received(i) == [k \in 1..Pieces[plan[i]] |-> Piece(i, k)]
Good(i)     == IsCall(i) /\ Whole(i) /\ plan[i] \notin Nameless

(* An answer is one the provider ended (F-03c) or, with an OpenAI-compatible
   server, one of which some part had arrived. Gemini's reader completes the
   message whatever ended it, which is why it is left out. A connection that broke,
   or an error the provider reported inside the stream, never becomes an answer,
   however much had arrived (F-03b). *)
AnswerWasEnded ==
    outcome.kind = "ok" =>
        /\ closed # "reset" /\ finish # "trouble"
        /\ \/ ended \/ finish \in Stops
           \/ reader \in OpenAI /\ \E i \in Parts : sent[i] > 0
           \/ reader = "gemini"

(* Calls received side by side are not mixed up: the arguments under an id are
   the fragments sent for that call, in order, from the first one (F-A2). *)
ArgumentsStayApart ==
    \A k \in Tools(outcome) :
        LET b == outcome.blocks[k] IN
        b.id \in Calls /\ b.body = [j \in 1..Len(b.body) |-> <<b.id, j>>]

(* What arrived whole reaches the agent once and in the provider's order, cut
   stream or not; a call whatever was wrong with its siblings (F-03, P1-HIGH), a
   text unless unusable calls were all that came with it. Anthropic's answer
   counts only with a terminal event. A call without a name is dropped, and the
   model is told so in the same answer (F-A3). *)
Decided == /\ outcome.kind \in {"ok", "err"} /\ closed = "eof" /\ finish # "trouble"
           /\ reader = "anthropic" => ended \/ finish # NoStop
Carries(k, i) == LET b == outcome.blocks[k] IN
                 IF IsCall(i) THEN /\ b.type = "tool_use" /\ b.id = plan[i]
                                   /\ b.valid /\ b.body = Received(i)
                 ELSE b.type = "text" /\ Piece(i, 1) \in {b.body[j] : j \in DOMAIN b.body}
WholePartsSurvive ==
    Decided =>
      /\ \A i \in Parts : Good(i) \/ (~IsCall(i) /\ Whole(i) /\ Rejected = {}) =>
           \E k \in DOMAIN outcome.blocks : Carries(k, i)
      /\ \A i, j \in Parts, k, l \in Tools(outcome) :
           Good(i) /\ Good(j) /\ Carries(k, i) /\ Carries(l, j) => (i < j <=> k < l)
      /\ outcome.kind = "ok" /\ (\E i \in Parts : IsCall(i) /\ sent[i] > 0 /\ plan[i] \in Nameless) =>
           \E k \in DOMAIN outcome.blocks : Note \in ToSet(outcome.blocks[k].body)

(* What the provider sent is neither mixed up nor lost on its way to the agent. *)
PartsArrive == ArgumentsStayApart /\ WholePartsSurvive

(* A call that can run is in an answer that asks for it to be run: any other stop
   reason leaves it unanswered in the history (P1-BLOCKER). Anthropic's reason
   is taken as it comes, and Gemini's is missing when the stream was cut. *)
CallsAreRun ==
    outcome.kind = "ok" /\ (reader \in OpenAI \/ (reader = "gemini" /\ finish # NoStop)) =>
        ((\E k \in Tools(outcome) : outcome.blocks[k].valid) => outcome.stop = "ToolUse")

(* The answer the agent acts on is the one that arrived: unbroken, unmixed, with its
   calls run; and, from Anthropic, one that its provider ended. *)
AnswerIsTrue == AnswerWasEnded /\ PartsArrive /\ CallsAreRun

(* Once the connection is over, the reader returns and the consumer has its
   answer, its error or has gone away, with the channel full or not. *)
TurnEnds == (closed # "no") ~> (Gone /\ ~running)
================================================================================
