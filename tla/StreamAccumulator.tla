--------------------------- MODULE StreamAccumulator ---------------------------
(* What a completion's consumer makes of the events of one answer              *)
(* (cersei-provider/src/stream.rs): blocks are started, fed and stopped by      *)
(* index, and the answer counts only when the provider ended it.                *)
(*                                                                             *)
(* A piece is a fragment of a text or of a call's JSON arguments; the fragments *)
(* of call c are <<c, 1>>, <<c, 2>>, ... and only all of them, in order, parse.  *)
EXTENDS Integers, Sequences

CONSTANTS Calls,     \* what a call may name as its id
          Pieces     \* [Calls -> Nat]: the fragments the call's arguments come in

NoId    == "no id"

ASSUME CallAssumption == Pieces \in [Calls -> Nat] /\ NoId \notin Calls /\ "text" \notin Calls

NoStop  == "no stop reason"
Stops   == {"EndTurn", "ToolUse", "MaxTokens"}
Types   == {"text", "tool_use"}

(* StreamEvent (cersei-types): every event in one record shape. A name arrives
   with the id or not at all. MessageStart and Ping change nothing here. *)
Event(kind, index, type, id, named, piece, stop) ==
    [kind |-> kind, index |-> index, type |-> type, id |-> id, named |-> named,
     piece |-> piece, stop |-> stop]
BlockStart(i, type, id, named) == Event("start", i, type, id, named, <<>>, NoStop)
Delta(i, piece)    == Event("delta", i, "text", NoId, FALSE, piece, NoStop)
BlockStop(i)       == Event("stop", i, "text", NoId, FALSE, <<>>, NoStop)
MessageDelta(stop) == Event("message_delta", 0, "text", NoId, FALSE, <<>>, stop)
MessageStop        == Event("message_stop", 0, "text", NoId, FALSE, <<>>, NoStop)
Error              == Event("error", 0, "text", NoId, FALSE, <<>>, NoStop)

Text(body) == [type |-> "text", id |-> NoId, named |-> FALSE, valid |-> TRUE, body |-> body]

(* No fragment at all is the empty object; anything but a whole argument list is
   kept as text under __parse_error. *)
Parses(body)   == body = <<>> \/ \E c \in Calls : body = [k \in 1..Pieces[c] |-> <<c, k>>]
ToolUse(id, named, body) ==
    [type |-> "tool_use", id |-> id, named |-> named, valid |-> Parses(body), body |-> body]

(* The block being received under an index, before and between its events. *)
Idle  == [type |-> "text", id |-> NoId, named |-> FALSE, body |-> <<>>]
Fresh == [blocks |-> <<>>, open |-> [i \in {} |-> Idle], stop |-> NoStop,
          failed |-> FALSE, terminal |-> FALSE]

Opened(acc, i) == IF i \in DOMAIN acc.open THEN acc.open[i] ELSE Idle
Reopen(acc, i, block) ==
    [acc EXCEPT !.open = [j \in DOMAIN acc.open \cup {i} |->
                            IF j = i THEN block ELSE acc.open[j]]]

(* A stopped block goes to its index; the slots before it are filled with empty
   text until their own blocks stop. *)
Placed(blocks, i, block) ==
    [j \in 1..(IF Len(blocks) > i THEN Len(blocks) ELSE i + 1) |->
        IF j = i + 1 THEN block ELSE IF j <= Len(blocks) THEN blocks[j] ELSE Text(<<>>)]

Built(block) == IF block.type = "tool_use"
                THEN ToolUse(block.id, block.named, block.body)
                ELSE Text(block.body)

process_event(acc, e) ==
    CASE e.kind = "start" ->
           Reopen(acc, e.index, [type |-> e.type,
                                 id |-> IF e.id = NoId THEN Opened(acc, e.index).id ELSE e.id,
                                 named |-> e.named \/ Opened(acc, e.index).named,
                                 body |-> Opened(acc, e.index).body])
      [] e.kind = "delta" ->
           Reopen(acc, e.index, [Opened(acc, e.index) EXCEPT !.body = Append(@, e.piece)])
      [] e.kind = "stop" ->
           [Reopen(acc, e.index, [Idle EXCEPT !.type = Opened(acc, e.index).type])
              EXCEPT !.blocks = Placed(acc.blocks, e.index, Built(Opened(acc, e.index)))]
      [] e.kind = "message_delta" ->
           IF e.stop = NoStop THEN acc ELSE [acc EXCEPT !.stop = e.stop, !.terminal = TRUE]
      [] e.kind = "message_stop" -> [acc EXCEPT !.terminal = TRUE]
      [] e.kind = "error" -> [acc EXCEPT !.failed = TRUE]

Pending == [kind |-> "pending", blocks |-> <<>>, stop |-> NoStop]
Refused == [kind |-> "err", blocks |-> <<>>, stop |-> NoStop]
Dropped == [kind |-> "dropped", blocks |-> <<>>, stop |-> NoStop]

\* Mutant: the stream's end alone counts as the end of the turn.
UnterminatedIsClean(acc) ==
    IF acc.failed THEN Refused
    ELSE [kind |-> "ok", blocks |-> acc.blocks,
          stop |-> IF acc.stop = NoStop THEN "EndTurn" ELSE acc.stop]

(* An error seen at any time, or no terminal event, is no answer. *)
into_response(acc) ==
    IF acc.failed \/ (acc.stop = NoStop /\ ~acc.terminal) THEN Refused
    ELSE [kind |-> "ok", blocks |-> acc.blocks,
          stop |-> IF acc.stop = NoStop THEN "EndTurn" ELSE acc.stop]
================================================================================
