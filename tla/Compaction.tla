----------------------------- MODULE Compaction -----------------------------
(***************************************************************************)
(* The two loops compaction rests on, step by step: pair_aware_split, which*)
(* walks back from len - keep_n, and find_orphaned_tool_results, which then*)
(* scans what the cut kept, one message at a time                          *)
(* (crates/cersei-agent/src/compact.rs).  History.tla states what they     *)
(* compute; here the loops are shown to compute it.                        *)
(***************************************************************************)
EXTENDS History

CONSTANTS
    Histories,  \* the histories the cut may be applied to
    Keeps       \* values of keep_n; the code passes KEEP_RECENT_MESSAGES = 10

\* keep_n = 0 makes the loop read msgs[len]; the code never passes it
ASSUME CutAssumption == Histories \subseteq Seq(Message) /\ Keeps \subseteq Nat \ {0}

VARIABLES
    msgs, keep,      \* the arguments
    pc,              \* "split", "scan", "done"
    split,           \* pair_aware_split's local
    at,              \* messages of msgs[split..] already scanned
    seen, orphaned   \* find_orphaned_tool_results' locals

vars == <<msgs, keep, pc, split, at, seen, orphaned>>

Init ==
    /\ msgs \in Histories /\ keep \in Keeps
    /\ pc = "split"
    /\ split = NaiveSplit(msgs, keep)        \* saturating_sub
    /\ at = 0 /\ seen = {} /\ orphaned = {}

\* the loop's condition
Severs == split > 0 /\ CarriesToolResult(msgs[split + 1])

\* Mutant: step back once only.
BackOffOnce ==
    /\ pc = "split" /\ Severs
    /\ split' = split - 1 /\ pc' = "scan"
    /\ UNCHANGED <<msgs, keep, at, seen, orphaned>>

BackOff ==
    /\ pc = "split" /\ Severs
    /\ split' = split - 1
    /\ UNCHANGED <<msgs, keep, pc, at, seen, orphaned>>

\* Mutant: the loop stops without looking at the message it stops at.
StopUnlooked ==
    /\ pc = "split"
    /\ pc' = "scan"
    /\ UNCHANGED <<msgs, keep, split, at, seen, orphaned>>

Stop ==
    /\ pc = "split" /\ ~Severs
    /\ pc' = "scan"
    /\ UNCHANGED <<msgs, keep, split, at, seen, orphaned>>

\* Mutant: the ids a message uses are forgotten with the next message.
ScanForgets ==
    /\ pc = "scan" /\ split + at < Len(msgs)
    /\ LET msg == msgs[split + at + 1] IN
         /\ seen' = msg.uses
         /\ orphaned' = orphaned \union (msg.results \ seen')
    /\ at' = at + 1
    /\ UNCHANGED <<msgs, keep, pc, split>>

\* one turn of the outer loop: first the message's tool_use ids, then its results
Scan ==
    /\ pc = "scan" /\ split + at < Len(msgs)
    /\ LET msg == msgs[split + at + 1] IN
         /\ seen' = seen \union msg.uses
         /\ orphaned' = orphaned \union (msg.results \ seen')
    /\ at' = at + 1
    /\ UNCHANGED <<msgs, keep, pc, split>>

Finish ==
    /\ pc = "scan" /\ split + at = Len(msgs)
    /\ pc' = "done"
    /\ UNCHANGED <<msgs, keep, split, at, seen, orphaned>>

Done == pc = "done" /\ UNCHANGED vars

Next == BackOff \/ Stop \/ Scan \/ Finish \/ Done

Spec == Init /\ [][Next]_vars

-----------------------------------------------------------------------------
TypeOK ==
    /\ msgs \in Seq(Message) /\ keep \in Nat \ {0}
    /\ pc \in {"split", "scan", "done"}
    /\ split \in 0..Len(msgs) /\ at \in 0..(Len(msgs) - split)
    /\ seen \subseteq Nat /\ orphaned \subseteq Nat

\* msgs[split] exists at every test of the loop.
InBounds == pc = "split" /\ split > 0 => split < Len(msgs)

\* The loop stops at the split History.tla specifies, the last cut at or before
\* len - keep_n that does not open with a tool_result, and on its way there never
\* indexes past the history.
SplitIsRight == InBounds /\ (pc # "split" => split = PairAwareSplit(msgs, keep))

\* The scan reports the orphans of what was kept, no more and no fewer.
ScanIsRight ==
    pc = "done" => orphaned = Orphaned(SubSeq(msgs, split + 1, Len(msgs)))

\* Both loops of compact.rs are right for every history, well-formed or not.
LoopsAreRight == SplitIsRight /\ ScanIsRight

\* Cutting a well-formed history never orphans a tool_result (F-04), and keeps
\* at least as many messages as asked.
CutIsSafe ==
    pc = "done" =>
        /\ Paired(msgs) => orphaned = {}
        /\ Len(msgs) >= keep => Len(msgs) - split >= keep

\* Compaction cuts where it should, and reports the orphans there are.
CompactionIsRight == LoopsAreRight /\ CutIsSafe
=============================================================================
