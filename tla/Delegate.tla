------------------------------- MODULE Delegate -------------------------------
(* A batch of child agents: run_batch of cersei-agent/src/delegate.rs, called by  *)
(* DelegateTool. It starts a child per task as soon as a permit is free, takes    *)
(* the results as they come and puts them in order.                              *)
(*                                                                               *)
(* A child is a task of its own. It ends with an answer or an error, panics, or   *)
(* is aborted when the set it is in is dropped, which it notices at its next      *)
(* await. What it does meanwhile is AgentLoop.                                   *)
EXTENDS Integers, Sequences, FiniteSets

CONSTANTS MaxTasks,     \* bound: tasks of a batch
          MaxPermits    \* bound: max_concurrent, which DelegateTool makes at least 1

VARIABLES
    size,       \* cfg.tasks.len()
    limit,      \* cfg.max_concurrent
    depth,      \* cfg.depth
    batch,      \* where run_batch is
    next,       \* the task whose permit is acquired next
    permits,    \* free permits of the semaphore
    child,      \* [1..size -> what became of the child]
    joinable,   \* children that ended and were not joined, in the order they ended
    collected,  \* what was joined: <<task, result>>
    answer      \* what run_batch returned

config == <<size, limit, depth>>
vars   == <<config, batch, next, permits, child, joinable, collected, answer>>

MAX_DEPTH == 2
Working == {i \in DOMAIN child : child[i] \in {"running", "aborting"}}
Ended   == {"ok", "failed", "refused", "dropped"}

Init ==
    /\ size \in 0..MaxTasks /\ limit \in 1..MaxPermits /\ depth \in 1..MAX_DEPTH
    /\ batch = "called" /\ next = 1 /\ permits = limit
    /\ child = [i \in 1..size |-> "none"]
    /\ joinable = <<>> /\ collected = <<>> /\ answer = <<>>

\* depth is checked before the list of tasks, which may be empty
Enter ==
    /\ batch = "called"
    /\ batch' = CASE depth >= MAX_DEPTH -> "refused" [] depth < MAX_DEPTH /\ size = 0 -> "ok" [] OTHER -> "spawning"
    /\ UNCHANGED <<config, next, permits, child, joinable, collected, answer>>

\* Mutant: the permit is dropped where the child is spawned, as `let _ = permit` does.
SpawnLetsGo ==
    /\ batch = "spawning" /\ next <= size /\ permits > 0
    /\ child' = [child EXCEPT ![next] = "running"]
    /\ next' = next + 1
    /\ UNCHANGED <<config, batch, permits, joinable, collected, answer>>

(* A permit is acquired and moves into the child. *)
Spawn ==
    /\ batch = "spawning" /\ next <= size /\ permits > 0
    /\ permits' = permits - 1
    /\ child' = [child EXCEPT ![next] = "running"]
    /\ next' = next + 1
    /\ UNCHANGED <<config, batch, joinable, collected, answer>>

AllSpawned ==
    /\ batch = "spawning" /\ next > size
    /\ batch' = "joining"
    /\ UNCHANGED <<config, next, permits, child, joinable, collected, answer>>

-------------------------------------------------------------------------------
(* The children *)

\* Mutant: a permit comes back only with a result.
LeavesHolding(i, how) ==
    /\ i \in Working
    /\ child' = [child EXCEPT ![i] = how]
    /\ permits' = IF how \in {"answered", "failed"} THEN permits + 1 ELSE permits
    /\ joinable' = IF batch \in Ended THEN joinable ELSE Append(joinable, i)

\* A child's task is over, and its permit free, whatever the end.
Leaves(i, how) ==
    /\ i \in Working
    /\ child' = [child EXCEPT ![i] = how]
    /\ permits' = permits + 1
    /\ joinable' = IF batch \in Ended THEN joinable ELSE Append(joinable, i)

Answers(i)  == Leaves(i, "answered") /\ UNCHANGED <<config, batch, next, collected, answer>>
\* the agent cannot be built, or its run returns an error
Fails(i)    == Leaves(i, "failed") /\ UNCHANGED <<config, batch, next, collected, answer>>
Panics(i)   == Leaves(i, "panicked") /\ UNCHANGED <<config, batch, next, collected, answer>>
StopsAtAwait(i) ==
    /\ Leaves(i, "aborted") /\ child[i] = "aborting"
    /\ UNCHANGED <<config, batch, next, collected, answer>>

-------------------------------------------------------------------------------
(* join_next, until the set is empty *)

\* the set is dropped with what is still in it
Aborted == [i \in DOMAIN child |-> IF child[i] = "running" THEN "aborting" ELSE child[i]]

\* Mutant: a child's error ends the batch like a panic.
JoinStrict ==
    /\ batch = "joining" /\ joinable # <<>>
    /\ joinable' = Tail(joinable)
    /\ LET i == Head(joinable) IN
       IF child[i] = "answered"
       THEN collected' = Append(collected, <<i, child[i]>>) /\ UNCHANGED <<batch, child>>
       ELSE batch' = "failed" /\ child' = Aborted /\ UNCHANGED collected
    /\ UNCHANGED <<config, next, permits, answer>>

Join ==
    /\ batch = "joining" /\ joinable # <<>>
    /\ joinable' = Tail(joinable)
    /\ LET i == Head(joinable) IN
       IF child[i] \in {"answered", "failed"}
       THEN collected' = Append(collected, <<i, child[i]>>) /\ UNCHANGED <<batch, child>>
       ELSE batch' = "failed" /\ child' = Aborted /\ UNCHANGED collected
    /\ UNCHANGED <<config, next, permits, answer>>

\* Mutant: the results stay in the order they came.
InTurn(results) == results

\* sort_by_key of the tasks' places, a stable sort
InOrder(results) ==
    LET Before(k, l) == \/ results[k][1] < results[l][1]
                        \/ results[k][1] = results[l][1] /\ k < l
        order == CHOOSE p \in [DOMAIN results -> DOMAIN results] :
                   \A i, j \in DOMAIN results : i < j => Before(p[i], p[j])
    IN  [i \in DOMAIN results |-> results[order[i]]]

AllJoined ==
    /\ batch = "joining" /\ joinable = <<>> /\ Working = {}
    /\ batch' = "ok" /\ answer' = InOrder(collected)
    /\ UNCHANGED <<config, next, permits, child, joinable, collected>>

(* The parent's run is dropped at one of its awaits, as a timeout around Agent::run
   does (cersei-agent/tests/retry_on_429.rs:238). *)
Abandon ==
    /\ batch \in {"spawning", "joining"}
    /\ batch' = "dropped" /\ child' = Aborted
    /\ UNCHANGED <<config, next, permits, joinable, collected, answer>>

Quiet == batch \in Ended /\ Working = {} /\ UNCHANGED vars

-------------------------------------------------------------------------------
Parent == Enter \/ Spawn \/ AllSpawned \/ Join \/ AllJoined
Child(i) == Answers(i) \/ Fails(i) \/ Panics(i) \/ StopsAtAwait(i)

Next == Parent \/ Abandon \/ Quiet \/ \E i \in 1..MaxTasks : Child(i)

Spec == Init /\ [][Next]_vars

(* The runtime polls the parent and what was aborted. That a child's run ends is
   AgentLoop's promise, and a premise of the property. *)
Fairness == WF_vars(Parent) /\ \A i \in 1..MaxTasks : WF_vars(StopsAtAwait(i))
ChildrenEnd == \A i \in 1..MaxTasks : WF_vars(Child(i))

-------------------------------------------------------------------------------
Fates == {"none", "running", "aborting", "answered", "failed", "panicked", "aborted"}

TypeOK ==
    /\ size \in 0..MaxTasks /\ limit \in 1..MaxPermits /\ depth \in 1..MAX_DEPTH
    /\ batch \in {"called", "spawning", "joining"} \cup Ended
    /\ next \in 1..(size + 1) /\ permits \in 0..limit
    /\ child \in [1..size -> Fates] /\ joinable \in Seq(1..size)
    /\ collected \in Seq((1..size) \X {"answered", "failed"})
    /\ answer \in Seq((1..size) \X {"answered", "failed"})

\* "Bounded parallelism", also while children of a failed batch are still stopping.
Bounded == Cardinality(Working) <= limit

\* "a child failure doesn't abort the batch": every task has its own result in its
\* place, and only a panic keeps a batch from returning them.
BestEffort ==
    /\ batch = "ok" /\ size > 0 => /\ answer = [i \in 1..size |-> <<i, child[i]>>] /\ Working = {}
    /\ batch = "failed" => \E i \in DOMAIN child : child[i] = "panicked"

(* A batch of child agents runs no more of them at once than it may, returns every
   task's own result in its place, and fails only when a child panics. *)
BatchIsRight == Bounded /\ BestEffort

(* If the children end, run_batch returns, and no child works on after it has. *)
BatchEnds ==
    /\ ChildrenEnd => (batch = "called" ~> batch \in Ended)
    /\ batch \in Ended ~> Working = {}
===============================================================================
