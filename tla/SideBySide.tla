----------------------------- MODULE SideBySide -----------------------------
(***************************************************************************)
(* Three components that share nothing, in one specification: the loops of *)
(* compaction, a batch of child agents, and a topic of the mailbox.  A     *)
(* behaviour is one of the three, with the variables of the other two at   *)
(* rest.                                                                   *)
(***************************************************************************)
EXTENDS Compaction

CONSTANTS
    MaxTasks, MaxPermits,                 \* of the batch
    Publishers, Readers, Boxes, BoxOf,    \* of the topic
    Capacity, MaxSeq, MaxReads

\* A publisher is no receive call, and neither is called "none".
ASSUME TopicAssumption ==
    /\ Publishers \cap Readers = {} /\ "none" \notin Publishers \union Readers
    /\ BoxOf \in [Readers -> Boxes]
    /\ Capacity \in Nat \ {0} /\ MaxSeq \in Nat /\ MaxReads \in Nat

ASSUME BatchAssumption == MaxTasks \in Nat /\ MaxPermits \in Nat \ {0}

VARIABLES
    part,       \* which of the three; never changes
    size, limit, depth, batch, next, permits, child, joinable, collected, answer,
    topic, log, seq, thread, chan, number, sub, lock, reads, sent, since, got

batchVars == <<size, limit, depth, batch, next, permits, child, joinable, collected, answer>>
topicVars == <<topic, log, seq, thread, chan, number, sub, lock, reads, sent, since, got>>

Batch == INSTANCE Delegate
Topic == INSTANCE Mailbox WITH pc <- thread

NoLoops == /\ msgs = <<>> /\ keep = 1 /\ pc = "done" /\ split = 0
           /\ at = 0 /\ seen = {} /\ orphaned = {}
NoBatch == /\ size = 0 /\ limit = 1 /\ depth = 1 /\ batch = "ok" /\ next = 1 /\ permits = 1
           /\ child = <<>> /\ joinable = <<>> /\ collected = <<>> /\ answer = <<>>
NoTopic == Topic!Init

PartsInit ==
    \/ part = "loops" /\ Init /\ NoBatch /\ NoTopic
    \/ part = "batch" /\ Batch!Init /\ NoLoops /\ NoTopic
    \/ part = "topic" /\ Topic!Init /\ NoLoops /\ NoBatch

PartsNext ==
    /\ UNCHANGED part
    /\ \/ part = "loops" /\ Next /\ UNCHANGED <<batchVars, topicVars>>
       \/ part = "batch" /\ Batch!Next /\ UNCHANGED <<vars, topicVars>>
       \/ part = "topic" /\ Topic!Next /\ UNCHANGED <<vars, batchVars>>

PartsSpec == PartsInit /\ [][PartsNext]_<<part, vars, batchVars, topicVars>> /\ Batch!Fairness

(***************************************************************************)
(* A batch of child agents runs no more of them at once than it may,       *)
(* returns every task's own result in its place, and fails only when a     *)
(* child panics.                                                           *)
(***************************************************************************)
BatchIsRight == Batch!BatchIsRight

(***************************************************************************)
(* If the children end, run_batch returns, and no child works on after it  *)
(* has.                                                                    *)
(***************************************************************************)
BatchEnds == Batch!BatchEnds

(***************************************************************************)
(* What a sandbox receives on a topic is what was sent since it subscribed,*)
(* in order, but for messages a full channel has overwritten, of which it   *)
(* is told.                                                                *)
(***************************************************************************)
MailArrives == Topic!MailArrives
=============================================================================
