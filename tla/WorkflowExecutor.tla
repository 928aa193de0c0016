-------------------------- MODULE WorkflowExecutor --------------------------
(***************************************************************************)
(* Running a workflow: crates/cersei-workflows/src/executor.rs, store.rs.  *)
(*                                                                         *)
(* The executor walks the graph recursively.  The branches of a parallel   *)
(* node are walks of their own that run concurrently, and so is the body   *)
(* of a loop; every other call is a tail call.  A walk is therefore a      *)
(* program counter in a tree: the root is << >>, the walks that node waits *)
(* for are its children.  Walks interleave where the code awaits: while a  *)
(* step executes and while an event is sent.                               *)
(*                                                                         *)
(* What a step computes, what a condition says and how many items a list   *)
(* has are free.  An output is the stamp of the execution that made it.    *)
(***************************************************************************)
EXTENDS WorkflowGraph

CONSTANTS
    Workflows,      \* definitions to run, by name
    MaxIterations,  \* MAX_LOOP_ITERS, 10 000 in the code, and the longest list
    MaxRuns         \* bound: start and resumes of one run id

ASSUME WorkflowAssumption ==
    /\ \A w \in DOMAIN Workflows : Compiles(Workflows[w]) /\ NoNode \notin DOMAIN Workflows[w].nodes
    /\ MaxIterations \in Nat \ {0} /\ MaxRuns \in Nat \ {0}

LoopsIn(def) == {n \in DOMAIN def.nodes : def.nodes[n].kind \in LoopKinds}
ParallelsIn(def) == {n \in DOMAIN def.nodes : def.nodes[n].kind = "parallel"}

\* the definitions, and what the searches find in them
Compiled == [w \in DOMAIN Workflows |-> Workflows[w]]
JoinTable ==
    [w \in DOMAIN Workflows |-> [n \in DOMAIN Workflows[w].nodes |-> FindJoin(Workflows[w], n)]]
BodyTable ==
    [w \in DOMAIN Workflows |-> [n \in LoopsIn(Workflows[w]) |-> BodyOf(Workflows[w], n)]]

LoopedNodes == [w \in DOMAIN Workflows |-> UNION {BodyTable[w][n] : n \in LoopsIn(Workflows[w])}]

\* where a walk goes on behind each node
OnwardIn(def, joins) ==
    [n \in DOMAIN def.nodes |->
        LET last == IF n \in ParallelsIn(def) THEN joins[n] ELSE n
            arms == IF def.nodes[n].kind = "branch" THEN Outgoing(def, n, "when") ELSE << >>
        IN  {m \in {ThenOf(def, last)} \ {NoNode} : last # NoNode} \union {arms[i].to : i \in DOMAIN arms}]
Onward == [w \in DOMAIN Workflows |-> OnwardIn(Workflows[w], JoinTable[w])]

\* where the walks begin for which the one at a node waits, and the node that bounds them
StartsIn(def) ==
    [n \in DOMAIN def.nodes |->
        IF n \in ParallelsIn(def) THEN Forks(def, n)
        ELSE IF n \in LoopsIn(def) THEN <<def.nodes[n].body>> ELSE << >>]
Starts == [w \in DOMAIN Workflows |-> StartsIn(Workflows[w])]
StopsIn(def, joins) == [n \in DOMAIN def.nodes |-> IF n \in ParallelsIn(def) THEN joins[n] ELSE n]
StopOf == [w \in DOMAIN Workflows |-> StopsIn(Workflows[w], JoinTable[w])]

\* the nodes that a walk from start to stop, and those it waits for, may pass
Scope(onward, starts, start, stop) ==
    LET nodes == DOMAIN onward \ {stop}
        Closed(S) == /\ start \in S \union {stop}
                     /\ \A m \in S : /\ onward[m] \subseteq S \union {stop}
                                    /\ \A i \in DOMAIN starts[m] : starts[m][i] \in S \union {stop}
    IN  {n \in nodes : \A S \in SUBSET nodes : Closed(S) => n \in S}

\* what belongs to branch i of a parallel node, or to the steps of a loop
RegionsIn(onward, starts, stops) ==
    [n \in DOMAIN onward |->
        [i \in DOMAIN starts[n] |-> Scope(onward, starts, starts[n][i], stops[n])]]
Region == [w \in DOMAIN Workflows |-> RegionsIn(Onward[w], Starts[w], StopOf[w])]

Settles(w, p) == JoinTable[w][p] # NoNode /\ Workflows[w].nodes[JoinTable[w][p]].kind = "all_settled"

SettledIn(w, regions) ==
    UNION {UNION {regions[p][i] : i \in DOMAIN regions[p]} :
              p \in {q \in ParallelsIn(Workflows[w]) : Settles(w, q)}}
SettledNodes == [w \in DOMAIN Workflows |-> SettledIn(w, Region[w])]

VARIABLES
    wf,         \* the name of the workflow
    status,     \* "idle", "running", or the RunStatus reported last
    runs,       \* the start and the resumes so far
    target,     \* the node resumed in this run
    suspended,  \* RunCtx.suspend, and in the end the point reported
    outputs,    \* RunCtx.outputs: stamps of the memoized nodes
    results,    \* RunCtx.results of this run
    snapshot,   \* the store's entry for the run id
    walks,      \* walks in progress
    begun,      \* steps on which this run called execute
    fell        \* this run met a branch none of whose arms matched

vars == <<wf, status, runs, target, suspended, outputs, results, snapshot, walks, begun, fell>>

Nowhere == [n \in {} |-> 0]
Assign(f, n, v) == [m \in DOMAIN f \union {n} |-> IF m = n THEN v ELSE f[m]]

Returned == {"value", "halted", "error"}
Phases == {"enter", "execute", "fork", "loop"} \union Returned

\* a walk that is about to enter a node; turn is the iteration it belongs to
Entering(n, stop, turn) ==
    [at |-> n, stop |-> stop, phase |-> "enter", turn |-> turn, round |-> 0, items |-> 0]

Def == Compiled[wf]

\* Mutant: the first merge edge of the list, whichever parallel it belongs to.
FirstJoinOf(n) ==
    LET merges == SelectSeq(Def.edges, LAMBDA e : e.kind = "merge")
    IN  IF merges = << >> THEN NoNode ELSE merges[1].to

JoinOf(n) == JoinTable[wf][n]
Body(loop) == BodyTable[wf][loop]
Steps == {n \in DOMAIN Def.nodes : Def.nodes[n].kind = "step"}
Below(a) == {b \in DOMAIN walks : Len(b) > Len(a) /\ SubSeq(b, 1, Len(a)) = a}
Children(a) == {b \in Below(a) : Len(b) = Len(a) + 1}

Init ==
    /\ wf \in DOMAIN Compiled
    /\ status = "idle" /\ runs = 0 /\ target = NoNode /\ suspended = NoNode
    /\ outputs = Nowhere /\ results = Nowhere /\ begun = {}
    /\ snapshot = [saved |-> FALSE, outputs |-> Nowhere]
    /\ walks = [a \in {} |-> Entering(NoNode, NoNode, 0)]
    /\ fell = FALSE

Run(node, preload) ==
    /\ status' = "running" /\ runs' = runs + 1
    /\ target' = node /\ suspended' = NoNode
    /\ outputs' = preload /\ results' = Nowhere /\ begun' = {} /\ fell' = FALSE
    /\ walks' = [a \in {<< >>} |-> Entering(Def.entry, NoNode, 0)]
    /\ UNCHANGED <<wf, snapshot>>

Start == status = "idle" /\ Run(NoNode, Nowhere)

\* The snapshot stays in the store, whatever became of the run since.
Resume ==
    /\ status \notin {"idle", "running"} /\ snapshot.saved /\ runs < MaxRuns
    /\ \E n \in Steps : Run(n, snapshot.outputs)

-----------------------------------------------------------------------------
(* Moving one walk.                                                        *)

Set(a, w) == walks' = [walks EXCEPT ![a] = w]
SetPhase(a, phase) == walks' = [walks EXCEPT ![a].phase = phase]

\* what a walk becomes behind node n: it follows the Then edge unless that leads to its stop
Behind(a, n) ==
    LET w == walks[a]
        next == ThenOf(Def, n)
    IN  IF next # NoNode /\ next # w.stop
        THEN Entering(next, w.stop, w.turn)
        ELSE [w EXCEPT !.phase = "value"]

Stamp(a) == [run |-> runs, turn |-> walks[a].turn]

\* node n has its output and the walk goes on
Complete(a, n) ==
    /\ outputs' = Assign(outputs, n, Stamp(a))
    /\ Set(a, Behind(a, n))

AboutToEnter(a) == status = "running" /\ walks[a].phase = "enter"

ArriveAtStop(a) ==
    /\ AboutToEnter(a) /\ walks[a].at = walks[a].stop
    /\ SetPhase(a, "value")
    /\ UNCHANGED <<wf, status, runs, target, suspended, outputs, results, snapshot, begun, fell>>

\* a step of this run has suspended: nothing more is scheduled
Halt(a) ==
    /\ AboutToEnter(a) /\ walks[a].at # walks[a].stop /\ suspended # NoNode
    /\ SetPhase(a, "halted")
    /\ UNCHANGED <<wf, status, runs, target, suspended, outputs, results, snapshot, begun, fell>>

\* compile made sure that the node exists
Enters(a, kinds) ==
    /\ AboutToEnter(a) /\ walks[a].at # walks[a].stop /\ suspended = NoNode
    /\ walks[a].at \in DOMAIN Def.nodes /\ Def.nodes[walks[a].at].kind \in kinds

(* Mutants: nothing is remembered; the node resumed is remembered as well. *)
NeverMemoized(n) == FALSE
MemoizedTarget(n) == n \in DOMAIN outputs

\* a completed node other than the one being resumed
Memoized(n) == n # target /\ n \in DOMAIN outputs

\* Mutant: the remembered output is the value of the walk.
ReplayEndsWalk(a) ==
    /\ Enters(a, {"step"}) /\ Memoized(walks[a].at)
    /\ SetPhase(a, "value")
    /\ UNCHANGED <<wf, status, runs, target, suspended, outputs, results, snapshot, begun, fell>>

Replay(a) ==
    /\ Enters(a, {"step"}) /\ Memoized(walks[a].at)
    /\ Set(a, Behind(a, walks[a].at))
    /\ UNCHANGED <<wf, status, runs, target, suspended, outputs, results, snapshot, begun, fell>>

BeginStep(a) ==
    LET n == walks[a].at IN
    /\ Enters(a, {"step"}) /\ ~Memoized(n)
    /\ SetPhase(a, "execute")
    /\ begun' = begun \union {n}
    /\ UNCHANGED <<wf, status, runs, target, suspended, outputs, results, snapshot, fell>>

Executing(a) == status = "running" /\ walks[a].phase = "execute"

StepDone(a) ==
    /\ Executing(a)
    /\ Complete(a, walks[a].at)
    /\ results' = Assign(results, walks[a].at, "success")
    /\ UNCHANGED <<wf, status, runs, target, suspended, snapshot, begun, fell>>

\* a second suspension replaces the first
StepSuspends(a) ==
    /\ Executing(a)
    /\ suspended' = walks[a].at
    /\ results' = Assign(results, walks[a].at, "suspended")
    /\ SetPhase(a, "halted")
    /\ UNCHANGED <<wf, status, runs, target, outputs, snapshot, begun, fell>>

StepFails(a) ==
    /\ Executing(a)
    /\ results' = Assign(results, walks[a].at, "failed")
    /\ SetPhase(a, "error")
    /\ UNCHANGED <<wf, status, runs, target, suspended, outputs, snapshot, begun, fell>>

\* a Map reshapes; a Join reached by an edge hands its input on
PassThrough(a) ==
    /\ Enters(a, {"map"} \union JoinKinds)
    /\ Complete(a, walks[a].at)
    /\ UNCHANGED <<wf, status, runs, target, suspended, results, snapshot, begun, fell>>

-----------------------------------------------------------------------------
(* Parallel.                                                               *)

\* every branch is bounded by the join
Fork(a) ==
    /\ Enters(a, {"parallel"})
    /\ LET forks == Forks(Def, walks[a].at)
           join == JoinOf(walks[a].at)
           branches == {Append(a, i) : i \in DOMAIN forks}
       IN  walks' = [b \in DOMAIN walks \union branches |->
                        IF b = a THEN [walks[a] EXCEPT !.phase = "fork"]
                        ELSE IF b \in branches THEN Entering(forks[b[Len(b)]], join, walks[a].turn)
                        ELSE walks[b]]
    /\ UNCHANGED <<wf, status, runs, target, suspended, outputs, results, snapshot, begun, fell>>

\* Mutant: the join goes on as soon as one branch failed or suspended.
FirstTrouble(a) ==
    \/ \A b \in Children(a) : walks[b].phase \in Returned
    \/ \E b \in Children(a) : walks[b].phase \in {"error", "halted"}

\* join_all waits for every branch
AllReturned(a) == \A b \in Children(a) : walks[b].phase \in Returned

Strategy(n) ==
    LET join == JoinOf(n) IN
    IF join # NoNode /\ Def.nodes[join].kind \in JoinKinds THEN Def.nodes[join].kind ELSE "all_or_fail"

\* Mutant: every join settles.
SettlesEverything(n, phase) == phase = "halted"

\* a branch that ended like this ends the parallel node as well
Decides(n, phase) == phase = "halted" \/ (phase = "error" /\ Strategy(n) = "all_or_fail")

Without(f, removed) == [b \in DOMAIN f \ removed |-> f[b]]

Deciding(a) == {b \in Children(a) : Decides(walks[a].at, walks[b].phase)}

\* the branches, all of them returned, are dropped and a goes on as w
Collect(a, w) ==
    /\ status = "running" /\ walks[a].phase = "fork" /\ AllReturned(a)
    /\ walks' = [Without(walks, Below(a)) EXCEPT ![a] = w]

\* the results are read in the order of the branches: the first that decides, decides
JoinGivesUp(a) ==
    /\ \E b \in Deciding(a) :
          /\ \A c \in Deciding(a) : b[Len(b)] <= c[Len(c)]
          /\ Collect(a, [walks[a] EXCEPT !.phase = walks[b].phase])
    /\ UNCHANGED <<wf, status, runs, target, suspended, outputs, results, snapshot, begun, fell>>

\* the results become the output of the join; without one they are the value of the walk
JoinBranches(a) ==
    LET join == JoinOf(walks[a].at) IN
    /\ Deciding(a) = {}
    /\ IF join = NoNode
       THEN Collect(a, [walks[a] EXCEPT !.phase = "value"]) /\ UNCHANGED outputs
       ELSE Collect(a, Behind(a, join)) /\ outputs' = Assign(outputs, join, Stamp(a))
    /\ UNCHANGED <<wf, status, runs, target, suspended, results, snapshot, begun, fell>>

-----------------------------------------------------------------------------
(* Branch and loop.                                                        *)

\* the first arm whose condition holds, else a Then edge
TakeArm(a) ==
    LET Arms(kind) == {Outgoing(Def, walks[a].at, kind)[i].to :
                          i \in DOMAIN Outgoing(Def, walks[a].at, kind)} IN
    /\ Enters(a, {"branch"})
    /\ \E n \in Arms("when") \union ({ThenOf(Def, walks[a].at)} \ {NoNode}) :
          Set(a, Entering(n, walks[a].stop, walks[a].turn))
    /\ UNCHANGED <<wf, status, runs, target, suspended, outputs, results, snapshot, begun, fell>>

\* no arm matches and there is no Then edge: the walk ends here, with its input
FallThrough(a) ==
    /\ Enters(a, {"branch"}) /\ ThenOf(Def, walks[a].at) = NoNode
    /\ SetPhase(a, "value") /\ fell' = TRUE
    /\ UNCHANGED <<wf, status, runs, target, suspended, outputs, results, snapshot, begun>>

\* Mutant: the outputs of the body are kept.
ForgetNothing(loop) == outputs

Forget(loop) == Without(outputs, Body(loop))

\* a walk that waits for the body of its loop
InLoop(w, round, items) ==
    [at |-> w.at, stop |-> w.stop, phase |-> "loop", turn |-> w.turn, round |-> round, items |-> items]

\* one more walk through the body
Iterate(a, round, items) ==
    LET n == walks[a].at
        body == Append(a, 1)
    IN  /\ outputs' = Forget(n)
        /\ walks' = [b \in DOMAIN walks \union {body} |->
                        IF b = a THEN InLoop(walks[a], round, items)
                        ELSE IF b = body THEN Entering(Def.nodes[n].body, n, round)
                        ELSE walks[b]]

\* the list has no item
EmptyLoop(a) ==
    /\ Enters(a, {"foreach"})
    /\ Complete(a, walks[a].at)
    /\ UNCHANGED <<wf, status, runs, target, suspended, results, snapshot, begun, fell>>

BeginLoop(a) ==
    /\ Enters(a, LoopKinds)
    /\ \E items \in IF Def.nodes[walks[a].at].kind = "foreach" THEN 1..MaxIterations
                                                              ELSE {MaxIterations} :
          Iterate(a, 1, items)
    /\ UNCHANGED <<wf, status, runs, target, suspended, results, snapshot, begun, fell>>

\* the input of a foreach is not an array
LoopRejects(a) ==
    /\ Enters(a, {"foreach"})
    /\ SetPhase(a, "error")
    /\ UNCHANGED <<wf, status, runs, target, suspended, outputs, results, snapshot, begun, fell>>

BodyReturned(a, phases) ==
    /\ status = "running" /\ walks[a].phase = "loop"
    /\ Append(a, 1) \in DOMAIN walks /\ walks[Append(a, 1)].phase \in phases

\* Mutant: iterations are not counted.
NextIterationUncounted(a) ==
    /\ BodyReturned(a, {"value"}) /\ walks[a].round < walks[a].items
    /\ Iterate(a, walks[a].round, walks[a].items)
    /\ UNCHANGED <<wf, status, runs, target, suspended, results, snapshot, begun, fell>>

NextIteration(a) ==
    /\ BodyReturned(a, {"value"}) /\ walks[a].round < walks[a].items
    /\ Iterate(a, walks[a].round + 1, walks[a].items)
    /\ UNCHANGED <<wf, status, runs, target, suspended, results, snapshot, begun, fell>>

\* a foreach ends with its list, the others when their condition says so
EndLoop(a) ==
    /\ BodyReturned(a, {"value"})
    /\ Def.nodes[walks[a].at].kind = "foreach" => walks[a].round = walks[a].items
    /\ outputs' = Assign(outputs, walks[a].at, Stamp(a))
    /\ walks' = [Without(walks, {Append(a, 1)}) EXCEPT ![a] = Behind(a, walks[a].at)]
    /\ UNCHANGED <<wf, status, runs, target, suspended, results, snapshot, begun, fell>>

LeaveLoop(a) ==
    /\ BodyReturned(a, {"halted", "error"})
    /\ walks' = [Without(walks, {Append(a, 1)}) EXCEPT ![a].phase = walks[Append(a, 1)].phase]
    /\ UNCHANGED <<wf, status, runs, target, suspended, outputs, results, snapshot, begun, fell>>

-----------------------------------------------------------------------------
(* The end of a run.                                                       *)

Outcome(phase) ==
    CASE phase = "value" -> "success" [] phase = "halted" -> "suspended" [] phase = "error" -> "failed"

\* Mutant: a snapshot of what the run started with.
SavesPreload == [saved |-> TRUE, outputs |-> snapshot.outputs]

Saved == [saved |-> TRUE, outputs |-> outputs]

\* assemble_result
Report ==
    /\ status = "running" /\ << >> \in DOMAIN walks /\ walks[<< >>].phase \in Returned
    /\ status' = Outcome(walks[<< >>].phase)
    /\ snapshot' = IF status' = "suspended" THEN Saved ELSE snapshot
    /\ walks' = Without(walks, {<< >>})
    /\ UNCHANGED <<wf, runs, target, suspended, outputs, results, begun, fell>>

Move(a) ==
    \/ ArriveAtStop(a) \/ Halt(a) \/ Replay(a) \/ BeginStep(a)
    \/ StepDone(a) \/ StepSuspends(a) \/ StepFails(a) \/ PassThrough(a)
    \/ Fork(a) \/ JoinGivesUp(a) \/ JoinBranches(a) \/ TakeArm(a) \/ FallThrough(a)
    \/ EmptyLoop(a) \/ BeginLoop(a) \/ LoopRejects(a)
    \/ NextIteration(a) \/ EndLoop(a) \/ LeaveLoop(a)

Progress == Report \/ \E a \in DOMAIN walks : Move(a)

\* nobody resumes any more
Rest == status \notin {"idle", "running"} /\ UNCHANGED vars

Next == Start \/ Resume \/ Progress \/ Rest

\* the runtime polls the task and every step returns
Spec == Init /\ [][Next]_vars /\ WF_vars(Progress)

-----------------------------------------------------------------------------
(* Workflows whose walks stay in regions of their own.  The builder makes  *)
(* no others, save one that begins with a loop; an imported graph may.     *)

\* the nodes from which a merge edge into the join of a parallel node can be reached
LeadingTo ==
    [w \in DOMAIN Compiled |-> [p \in DOMAIN Compiled[w].nodes |->
        {n \in DOMAIN Compiled[w].nodes : \E e \in EdgesOf(Compiled[w]) :
            /\ e.kind = "merge" /\ e.to = JoinTable[w][p]
            /\ e.from \in Reachable(Compiled[w], n, JoinTable[w][p])}]]

\* edges join nodes, which compile checks
Connected(w) ==
    \A n \in DOMAIN Compiled[w].nodes :
        /\ Onward[w][n] \subseteq DOMAIN Compiled[w].nodes
        /\ \A i \in DOMAIN Starts[w][n] : Starts[w][n][i] \in DOMAIN Compiled[w].nodes

\* no walk meets the stop of a walk above it
Nested(w) ==
    \A n \in DOMAIN Region[w] : \A i \in DOMAIN Region[w][n] :
        \A m \in Region[w][n][i] : \A k \in DOMAIN Region[w][m] : StopOf[w][n] \notin Region[w][m][k]

\* branches share no loop
LoopsAreOwned(w) ==
    \A n \in DOMAIN Region[w] : \A i, k \in DOMAIN Region[w][n] :
        i # k => Region[w][n][i] \intersect Region[w][n][k] \intersect LoopsIn(Compiled[w]) = {}

\* only the loop leads into its body
BodiesAreOwned(w) ==
    \A l \in LoopsIn(Compiled[w]) : LET body == BodyTable[w][l] IN
        /\ Compiled[w].entry \notin body
        /\ \A n \in DOMAIN Onward[w] :
              /\ n \notin body => Onward[w][n] \intersect body = {} /\ JoinTable[w][n] \notin body
              /\ n # l /\ (n \notin body \/ n \in LoopsIn(Compiled[w])) =>
                    \A i \in DOMAIN Starts[w][n] : Starts[w][n][i] \notin body

\* branches begin with a step and lead to the join, and nothing else does
JoinsAreOwned(w) ==
    \A p \in ParallelsIn(Compiled[w]) : LET join == JoinTable[w][p] IN
        join # NoNode =>
            /\ Compiled[w].entry # join
            /\ \A n \in DOMAIN Onward[w] :
                  /\ join \notin Onward[w][n] /\ \A i \in DOMAIN Starts[w][n] : Starts[w][n][i] # join
                  /\ n \in ParallelsIn(Compiled[w]) /\ JoinTable[w][n] = join => n = p
            /\ \A i \in DOMAIN Starts[w][p] : LET first == Starts[w][p][i] IN
                  /\ Compiled[w].nodes[first].kind = "step" /\ first \in LeadingTo[w][p]
                  /\ \A l \in LoopsIn(Compiled[w]) : first \in BodyTable[w][l] => join \in BodyTable[w][l]

Structured(w) == Connected(w) /\ Nested(w) /\ LoopsAreOwned(w) /\ BodiesAreOwned(w) /\ JoinsAreOwned(w)

\* the nodes that a walk from start may pass itself
Trunk(w, start) ==
    LET nodes == DOMAIN Workflows[w].nodes IN
    {n \in nodes : \A S \in SUBSET nodes : start \in S /\ (\A m \in S : Onward[w][m] \subseteq S) => n \in S}

\* the node added last is the only one behind which a walk from the entry finds nothing
OneEnd(w) ==
    \A n \in Trunk(w, Compiled[w].entry) :
        LET def == Compiled[w]
            last == IF n \in ParallelsIn(def) THEN JoinTable[w][n] ELSE n
        IN  /\ last # NoNode
            /\ def.nodes[n].kind # "branch" /\ ThenOf(def, last) = NoNode => last = def.cursor

\* the nodes that a walk from start, or a branch that may not fail, passes if no condition is asked
Ahead(w, start) ==
    LET nodes == DOMAIN Workflows[w].nodes
        Closed(S) == \A m \in S :
            /\ Onward[w][m] \subseteq S
            /\ m \in ParallelsIn(Workflows[w]) /\ ~Settles(w, m) =>
                  \A i \in DOMAIN Starts[w][m] : Starts[w][m][i] \in S
    IN  {n \in nodes : \A S \in SUBSET nodes : start \in S /\ Closed(S) => n \in S}

\* a step outside loops is ahead of the start, or the first of a branch that may fail
StepsAreMet(w) ==
    LET met == Ahead(w, Compiled[w].entry) IN
    \/ \E n \in DOMAIN Compiled[w].nodes : Compiled[w].nodes[n].kind = "branch"
    \/ \A n \in DOMAIN Compiled[w].nodes \ LoopedNodes[w] : Compiled[w].nodes[n].kind = "step" =>
          \/ n \in met
          \/ \E p \in met \intersect ParallelsIn(Compiled[w]) :
                Settles(w, p) /\ \E i \in DOMAIN Starts[w][p] : Starts[w][p][i] = n

-----------------------------------------------------------------------------
(* Properties.                                                             *)

Stamps == [run : 1..MaxRuns, turn : 0..MaxIterations]

\* Shape of the state.
TypeOK ==
    /\ wf \in DOMAIN Compiled /\ runs \in 0..MaxRuns
    /\ status \in {"idle", "running", "success", "suspended", "failed"}
    /\ target \in Steps \union {NoNode} /\ suspended \in Steps \union {NoNode}
    /\ \A f \in {outputs, snapshot.outputs} :
          DOMAIN f \subseteq DOMAIN Def.nodes /\ \A n \in DOMAIN f : f[n] \in Stamps
    /\ DOMAIN results \subseteq Steps /\ \A n \in DOMAIN results : results[n] \in {"success", "suspended", "failed"}
    /\ begun \subseteq Steps
    /\ snapshot.saved \in BOOLEAN /\ fell \in BOOLEAN
    /\ \A a \in DOMAIN walks :
          /\ walks[a].at \in DOMAIN Def.nodes /\ walks[a].phase \in Phases
          /\ walks[a].stop \in DOMAIN Def.nodes \union {NoNode}
          /\ walks[a].turn \in 0..MaxIterations /\ walks[a].round \in 0..MaxIterations

\* the bodies of the loops
Looped == LoopedNodes[wf]

\* the branches of the parallel nodes whose join settles
Settled == SettledNodes[wf]

\* Replay (executor.rs:3-7): a run does not execute again what its snapshot holds, except for
\* the node that is resumed and the bodies of loops, which run anew from their first iteration.
ReplayShortCircuits ==
    status = "running" =>
        \A n \in begun : n \notin DOMAIN snapshot.outputs \/ n = target \/ n \in Looped

\* A suspended run has a snapshot that holds every step completed so far, outside loops,
\* and the step it reports as suspended did suspend.
SuspensionIsSaved ==
    status = "suspended" =>
        /\ suspended # NoNode /\ snapshot.saved
        /\ \A n \in DOMAIN results \ Looped : results[n] = "success" => n \in DOMAIN snapshot.outputs

\* An iteration never sees an output of an earlier iteration, or of the run before a resume.
IterationsStartClean ==
    \A a \in DOMAIN walks : walks[a].phase = "loop" =>
        \A n \in Body(walks[a].at) \intersect DOMAIN outputs :
            outputs[n] = [run |-> runs, turn |-> walks[a].round]

\* A join that was passed in this run is one that every branch of the parallel node leads to,
\* and every branch began at a node that has come to an end before: it is in the memo, or it
\* failed and the join settles.
JoinsItsBranches ==
    \A p \in ParallelsIn(Def) :
        (JoinOf(p) \in DOMAIN outputs /\ outputs[JoinOf(p)].run = runs) =>
            \A i \in DOMAIN Forks(Def, p) :
                LET n == Forks(Def, p)[i] IN
                /\ n \in LeadingTo[wf][p]
                /\ n \in DOMAIN outputs \/ (n \in Settled /\ n \in DOMAIN results)

\* Iterations and branches are kept apart: a loop's body sees no earlier iteration, and a
\* join no other branch than its own.
WalksKeepApart == IterationsStartClean /\ JoinsItsBranches

\* A run that is reported has no step under way: whatever began to execute has its result
\* in the report, even if another branch failed or suspended first.
NothingAbandoned == status \notin {"idle", "running"} => begun = DOMAIN results

\* Every step it executed completed, other than those a join may settle as null.
NoFailureHidden == \A n \in DOMAIN results : results[n] = "success" \/ n \in Settled

\* The node the builder added last was reached, unless a branch without a matching arm ended
\* the walk or the workflow begins with the body of a loop.
EndReached == Def.cursor \in DOMAIN outputs \/ fell \/ Def.entry \in Looped

\* The data given to resume reached its step, where every walk to the end passes it (no
\* branch, no list that may be empty).
ResumedStepRan ==
    target # NoNode =>
        \/ target \in begun \/ target \in Looped \/ Def.entry \in Looped
        \/ \E n \in DOMAIN Def.nodes : Def.nodes[n].kind = "branch"

\* A report is true: nothing is still under way, and success means that no failure is hidden,
\* that the workflow was walked to its end and that the resumed step was executed.
ReportIsTrue ==
    NothingAbandoned /\ (status = "success" => NoFailureHidden /\ EndReached /\ ResumedStepRan)

\* Every run that is started or resumed is reported.
EveryRunIsReported == status = "running" ~> status # "running"
=============================================================================
