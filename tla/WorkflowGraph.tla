--------------------------- MODULE WorkflowGraph ---------------------------
(***************************************************************************)
(* The definition of a workflow: crates/cersei-workflows/src/ir.rs,        *)
(* builder.rs, compile.rs, and the two graph searches of executor.rs.      *)
(*                                                                         *)
(* A definition is a table of nodes, a list of edges in the order they     *)
(* were added, an entry, and, while it is being built, the cursor behind   *)
(* which the next node goes.  Ids are given by the caller of an operator;  *)
(* the builder numbers them.                                               *)
(***************************************************************************)
EXTENDS Integers, Sequences, FiniteSets

NoNode == "no node"

LoopKinds == {"while", "foreach"}   \* DoWhile and DoUntil differ in a negation
JoinKinds == {"all_or_fail", "all_settled"}
NodeKinds == {"step", "map", "parallel", "branch"} \union JoinKinds \union LoopKinds
EdgeKinds == {"then", "fork", "merge", "when", "loop_back"}

Node(kind) == [kind |-> kind, body |-> NoNode]
Loop(mode, body) == [kind |-> mode, body |-> body]
Edge(from, kind, to) == [from |-> from, kind |-> kind, to |-> to]

NoNodes == [n \in {} |-> Node("step")]
Empty == [nodes |-> NoNodes, edges |-> << >>, entry |-> NoNode, cursor |-> NoNode]

-----------------------------------------------------------------------------
(* The builder.                                                            *)

\* the first node pushed is the entry
PushNode(def, id, node) ==
    [def EXCEPT !.nodes = [n \in DOMAIN @ \union {id} |-> IF n = id THEN node ELSE @[n]],
                !.entry = IF @ = NoNode THEN id ELSE @]

AddEdges(def, new) == [def EXCEPT !.edges = @ \o new]

Attach(def, id, node) ==
    LET pushed == PushNode(def, id, node)
        linked == IF def.cursor = NoNode THEN pushed
                  ELSE AddEdges(pushed, <<Edge(def.cursor, "then", id)>>)
    IN  [linked EXCEPT !.cursor = id]

Then(def, id) == Attach(def, id, Node("step"))
Mapped(def, id) == Attach(def, id, Node("map"))

\* the steps of a parallel or a branch, each with an edge in and an edge out
WithArms(def, from, in, arms, out, to) ==
    LET f[i \in 0..Len(arms)] ==
          IF i = 0 THEN def
          ELSE AddEdges(PushNode(f[i - 1], arms[i], Node("step")),
                        <<Edge(from, in, arms[i]), Edge(arms[i], out, to)>>)
    IN  [f[Len(arms)] EXCEPT !.cursor = to]

Parallel(def, id, join, strategy, arms) ==
    WithArms(PushNode(Attach(def, id, Node("parallel")), join, Node(strategy)),
             id, "fork", arms, "merge", join)

Branch(def, id, join, arms) ==
    WithArms(PushNode(Attach(def, id, Node("branch")), join, Node("all_settled")),
             id, "when", arms, "then", join)

\* loop_step pushes the body before the loop
Repeat(def, id, mode, body) ==
    AddEdges(Attach(PushNode(def, body, Node("step")), id, Loop(mode, body)),
             <<Edge(body, "loop_back", id)>>)

-----------------------------------------------------------------------------
(* Questions about a definition.                                           *)

Outgoing(def, n, kind) == SelectSeq(def.edges, LAMBDA e : e.from = n /\ e.kind = kind)
EdgesOf(def) == {def.edges[i] : i \in DOMAIN def.edges}

\* the single Then successor, if any
ThenOf(def, n) ==
    LET out == Outgoing(def, n, "then") IN IF out = << >> THEN NoNode ELSE out[1].to

\* nodes reachable from start by edges other than loop_back, without crossing stop
Reachable(def, start, stop) ==
    LET grow[k \in 0..Cardinality(DOMAIN def.nodes)] ==
          IF k = 0 THEN {start} \ {stop}
          ELSE LET seen == grow[k - 1] IN
               seen \union {e.to : e \in {x \in EdgesOf(def) : /\ x.from \in seen
                                                             /\ x.kind # "loop_back"
                                                             /\ x.to # stop}}
    IN  grow[Cardinality(DOMAIN def.nodes)]

Forks(def, n) == LET out == Outgoing(def, n, "fork") IN [i \in DOMAIN out |-> out[i].to]

\* the target of the first merge edge, in the order of the list, whose source
\* can be reached from a branch
FindJoin(def, n) ==
    LET reached == UNION {Reachable(def, Forks(def, n)[i], NoNode) : i \in DOMAIN Forks(def, n)}
        merges == SelectSeq(def.edges, LAMBDA e : e.kind = "merge" /\ e.from \in reached)
    IN  IF merges = << >> THEN NoNode ELSE merges[1].to

BodyOf(def, loop) == Reachable(def, def.nodes[loop].body, loop)

\* Workflow::compile accepts the definition (every step is registered)
Compiles(def) ==
    /\ DOMAIN def.nodes # {} /\ def.entry \in DOMAIN def.nodes
    /\ \A e \in EdgesOf(def) : e.from \in DOMAIN def.nodes /\ e.to \in DOMAIN def.nodes
    /\ \A n \in DOMAIN def.nodes :
          /\ def.nodes[n].kind = "branch" => Outgoing(def, n, "when") # << >>
          /\ def.nodes[n].kind \in LoopKinds => def.nodes[n].body \in DOMAIN def.nodes
=============================================================================
