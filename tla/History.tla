------------------------------ MODULE History ------------------------------
(***************************************************************************)
(* The conversation history of an agent and the pure functions that cut    *)
(* it down: crates/cersei-agent/src/compact.rs.                            *)
(*                                                                         *)
(* A message keeps only what a provider checks before it accepts a request:*)
(* its role, the ids of its tool_use blocks and the ids its tool_result    *)
(* blocks answer.  Texts, names and inputs are left out.  Sequences are    *)
(* 1-based here and 0-based in the code: msgs[s + 1] is the code's msgs[s].*)
(***************************************************************************)
EXTENDS Integers, Sequences

Message == [role : {"user", "assistant"}, uses : SUBSET Nat, results : SUBSET Nat]

\* Message::user(text), Message::user_blocks(result_blocks), a model response
User == [role |-> "user", uses |-> {}, results |-> {}]
ToolResults(ids) == [role |-> "user", uses |-> {}, results |-> ids]
Assistant(ids) == [role |-> "assistant", uses |-> ids, results |-> {}]

(***************************************************************************)
(* What find_orphaned_tool_results and find_unanswered_tool_uses report.   *)
(***************************************************************************)
Orphaned(msgs) ==
    {id \in UNION {msgs[i].results : i \in DOMAIN msgs} :
        \E i \in DOMAIN msgs : /\ id \in msgs[i].results
                               /\ \A j \in 1..i : id \notin msgs[j].uses}

Unanswered(msgs) ==
    (UNION {msgs[i].uses : i \in DOMAIN msgs})
        \ (UNION {msgs[i].results : i \in DOMAIN msgs})

CarriesToolResult(msg) == msg.results # {}

\* every message of results directly follows the message it answers, in full
Paired(msgs) ==
    \A i \in DOMAIN msgs : CarriesToolResult(msgs[i]) =>
        i > 1 /\ msgs[i - 1].uses = msgs[i].results

(***************************************************************************)
(* pair_aware_split: start keep messages from the end and back off while   *)
(* the first kept message is a tool_result.                                *)
(***************************************************************************)
NaiveSplit(msgs, keep) == IF Len(msgs) > keep THEN Len(msgs) - keep ELSE 0

PairAwareSplit(msgs, keep) ==
    CHOOSE s \in 0..NaiveSplit(msgs, keep) :
        /\ s = 0 \/ ~CarriesToolResult(msgs[s + 1])
        /\ \A t \in (s + 1)..NaiveSplit(msgs, keep) : CarriesToolResult(msgs[t + 1])

Kept(msgs, keep) == SubSeq(msgs, PairAwareSplit(msgs, keep) + 1, Len(msgs))

\* Mutant: nothing is put in front of what is kept.
SnipWithoutNotice(msgs, keep) == IF Len(msgs) <= keep THEN msgs ELSE Kept(msgs, keep)

\* snip_compact: drop the oldest messages; a notice opens a history that
\* would otherwise start with an assistant message
SnipCompact(msgs, keep) ==
    IF Len(msgs) <= keep THEN msgs
    ELSE IF Kept(msgs, keep) # << >> /\ Head(Kept(msgs, keep)).role # "user"
         THEN <<User>> \o Kept(msgs, keep)
         ELSE Kept(msgs, keep)

\* Mutant: the summary swallows one message more than it stands for.
SummarySwallowsOne(msgs, keep) == <<User>> \o SubSeq(msgs, PairAwareSplit(msgs, keep) + 2, Len(msgs))

\* the runner's summary path: user(summary) in front of what is kept
SummaryCompact(msgs, keep) == <<User>> \o Kept(msgs, keep)
=============================================================================
