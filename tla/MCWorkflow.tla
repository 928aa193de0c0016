---------------------------- MODULE MCWorkflow ----------------------------
(***************************************************************************)
(* Workflows as the builder makes them, and one that only a definition     *)
(* written by hand can have: two branches that share a node.               *)
(***************************************************************************)
EXTENDS WorkflowExecutor

Fanned(strategy) == Then(Parallel(Then(Empty, "a"), "par", "join", strategy, <<"b", "c">>), "d")

TwoForks ==
    Then(Parallel(Parallel(Empty, "p1", "j1", "all_settled", <<"a", "b">>),
                  "p2", "j2", "all_or_fail", <<"c", "d">>), "e")

Looping(mode) == Then(Repeat(Then(Empty, "a"), "loop", mode, "b"), "c")

LoopFirst == Then(Repeat(Empty, "loop", "while", "a"), "b")

Branching == Then(Mapped(Branch(Then(Empty, "a"), "branch", "arms", <<"b", "c">>), "map"), "d")

\* by hand: an else arm, and a parallel without a join inside a loop
ElseArm == AddEdges(Branching, <<Edge("branch", "then", "arms")>>)

Diamond ==
    LET steps == Parallel(Empty, "par", "join", "all_or_fail", <<"a", "b">>)
        shared == PushNode(steps, "c", Node("step"))
    IN  [shared EXCEPT !.edges = <<Edge("par", "fork", "a"), Edge("par", "fork", "b"),
                                   Edge("a", "then", "c"), Edge("b", "then", "c"),
                                   Edge("c", "merge", "join")>>]

LoopedFork ==
    LET forked == PushNode(PushNode(PushNode(Empty, "loop", Loop("foreach", "par")), "par", Node("parallel")),
                           "x", Node("step"))
        both == PushNode(forked, "y", Node("step"))
    IN  [both EXCEPT !.cursor = "loop",
                     !.edges = <<Edge("par", "fork", "x"), Edge("par", "fork", "y"),
                                 Edge("x", "loop_back", "loop"), Edge("y", "loop_back", "loop")>>]

\* a loop in a branch of a parallel node
Inner ==
    LET forked == PushNode(PushNode(PushNode(Empty, "par", Node("parallel")), "join", Node("all_settled")),
                           "a", Node("step"))
        loop == PushNode(PushNode(forked, "b", Node("step")), "loop", Loop("foreach", "b"))
        both == PushNode(PushNode(loop, "c", Node("step")), "d", Node("step"))
    IN  [both EXCEPT !.cursor = "d",
                     !.edges = <<Edge("par", "fork", "a"), Edge("a", "then", "loop"),
                                 Edge("b", "loop_back", "loop"), Edge("loop", "merge", "join"),
                                 Edge("par", "fork", "c"), Edge("c", "merge", "join"),
                                 Edge("join", "then", "d")>>]

Definitions ==
    [fail |-> Fanned("all_or_fail"), settle |-> Fanned("all_settled"), two_forks |-> TwoForks,
     while |-> Looping("while"), foreach |-> Looping("foreach"), loop_first |-> LoopFirst,
     branch |-> Branching, else_arm |-> ElseArm, diamond |-> Diamond, looped_fork |-> LoopedFork, inner |-> Inner]

\* what the theorems suppose of a workflow holds of all but one
ASSUME MostAreStructured ==
    {w \in DOMAIN Workflows : ~(Structured(w) /\ OneEnd(w) /\ StepsAreMet(w))} \subseteq {"loop_first"}
=============================================================================
