---------------------------- MODULE MCSideBySide ----------------------------
(***************************************************************************)
(* SideBySide over every history of at most four messages that use, answer *)
(* or say nothing, with two ids: well-formed histories and broken ones; a  *)
(* batch of up to three tasks, where the third waits for one of the others;*)
(* and a topic with two calls of one sandbox and one of another.  Beside   *)
(* them, as a part of its own, the request a history is sent with.         *)
(***************************************************************************)
EXTENDS SideBySide

Words == {User, Assistant({}), Assistant({1}), Assistant({2}), Assistant({1, 2}),
          ToolResults({1}), ToolResults({2}), ToolResults({1, 2})}

MCHistories == UNION {[1..n -> Words] : n \in 0..4}

BoxOfReader == [r1 |-> "a", r2 |-> "a", r3 |-> "b"]

VARIABLES request, dialect, body    \* of Requests

requestVars == <<request, dialect, body>>

Asking == INSTANCE MCRequests
Post   == INSTANCE Requests WITH Asked <- Asking!MCAsked, provider <- dialect

NoRequest == request = <<>> /\ dialect = "" /\ body = <<>>

MCInit ==
    \/ PartsInit /\ NoRequest
    \/ part = "request" /\ Post!Init /\ NoLoops /\ NoBatch /\ NoTopic

MCNext ==
    \/ PartsNext /\ UNCHANGED requestVars
    \/ part = "request" /\ Post!Next /\ UNCHANGED <<part, vars, batchVars, topicVars>>

MCSpec == /\ MCInit /\ [][MCNext]_<<part, vars, batchVars, topicVars, requestVars>>
          /\ Batch!Fairness

(***************************************************************************)
(* What is posted is the conversation the agent meant: every call with the *)
(* answers it has, nothing lost, the past unchanged, no settings the API   *)
(* refuses, tools under their names with the schemas they have.            *)
(***************************************************************************)
RequestsAreFaithful == Post!RequestsAreFaithful
=============================================================================
