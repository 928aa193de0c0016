---------------------------- MODULE WorkflowProof ----------------------------
(***************************************************************************)
(* Suspension and replay, for every workflow that compiles: whatever its   *)
(* graph, however many branches, iterations and resumes.                   *)
(***************************************************************************)
EXTENDS WorkflowExecutor, SequenceTheorems, NaturalsInduction, WellFoundedInduction, TLAPS

IsWalk(w) ==
    w = [at |-> w.at, stop |-> w.stop, phase |-> w.phase,
         turn |-> w.turn, round |-> w.round, items |-> w.items]

\* what a walk's phase says of where it is and of the run
WalkInv ==
    \A a \in DOMAIN walks :
        /\ IsWalk(walks[a])
        /\ walks[a].phase = "execute" => walks[a].at \in Steps
        /\ walks[a].phase = "loop" => walks[a].at \in LoopsIn(Def)
        /\ walks[a].phase = "halted" => suspended # NoNode

\* outside loops the memo never shrinks: it holds the snapshot and what this run completed
MemoInv ==
    /\ status = "idle" => DOMAIN snapshot.outputs = {}
    /\ status = "running" => DOMAIN snapshot.outputs \ Looped \subseteq DOMAIN outputs
    /\ status = "running" =>
          \A n \in DOMAIN results \ Looped : results[n] = "success" => n \in DOMAIN outputs

IInv == wf \in DOMAIN Workflows /\ WalkInv /\ MemoInv /\ ReplayShortCircuits /\ SuspensionIsSaved

\* The tables hold what their names say.
LEMMA Tables ==
    ASSUME wf \in DOMAIN Workflows
    PROVE  /\ Def = Workflows[wf] /\ NoNode \notin Steps
           /\ \A n \in LoopsIn(Def) : Body(n) \subseteq Looped
<1>1. Def = Workflows[wf]
  BY DEF Def, Compiled
<1>2. NoNode \notin Steps
  BY <1>1, WorkflowAssumption DEF Steps
<1>3. ASSUME NEW n \in LoopsIn(Def) PROVE Body(n) \subseteq Looped
  <2>1. Looped = UNION {BodyTable[wf][m] : m \in LoopsIn(Workflows[wf])}
    BY DEF Looped, LoopedNodes
  <2> QED
    BY <2>1, <1>1, <1>3 DEF Body
<1> QED
  BY <1>1, <1>2, <1>3

LEMMA InitInv == Init => IInv
<1> SUFFICES ASSUME Init PROVE IInv
  OBVIOUS
<1>1. wf \in DOMAIN Workflows
  BY DEF Init, Compiled
<1>2. DOMAIN snapshot.outputs = {} /\ DOMAIN walks = {}
  BY DEF Init, Nowhere
<1> QED
  BY <1>1, <1>2 DEF Init, IInv, WalkInv, MemoInv, ReplayShortCircuits, SuspensionIsSaved

\* A walk moves and nothing else but possibly the memo, which keeps what is outside loops.
LEMMA WalkMoves ==
    ASSUME IInv, status = "running", WalkInv',
           DOMAIN outputs \ Looped \subseteq DOMAIN outputs',
           UNCHANGED <<wf, status, target, results, snapshot, begun>>
    PROVE  IInv'
<1>1. Looped' = Looped
  BY DEF Looped
<1>2. MemoInv'
  BY <1>1 DEF IInv, MemoInv
<1> QED
  BY <1>1, <1>2 DEF IInv, ReplayShortCircuits, SuspensionIsSaved

\* Phases that say nothing of where a walk is.
LEMMA Harmless ==
    ASSUME NEW w, IsWalk(w), NEW phase
    PROVE  /\ IsWalk([w EXCEPT !.phase = phase])
           /\ [w EXCEPT !.phase = phase].phase = phase /\ [w EXCEPT !.phase = phase].at = w.at
BY DEF IsWalk

LEMMA BehindIsWalk ==
    ASSUME NEW a, NEW n, IsWalk(walks[a])
    PROVE  IsWalk(Behind(a, n)) /\ Behind(a, n).phase \in {"enter", "value"}
<1>1. ASSUME NEW m, NEW s, NEW t PROVE IsWalk(Entering(m, s, t)) /\ Entering(m, s, t).phase = "enter"
  BY DEF IsWalk, Entering
<1>2. LET v == [walks[a] EXCEPT !.phase = "value"] IN IsWalk(v) /\ v.phase = "value"
  BY Harmless
<1> QED
  BY <1>1, <1>2 DEF Behind

\* One walk is replaced, others may be dropped.
LEMMA OneWalk ==
    ASSUME WalkInv, wf' = wf, NEW a, NEW w, NEW S, DOMAIN walks' \subseteq DOMAIN walks,
           \A b \in DOMAIN walks' : walks'[b] = IF b = a THEN w ELSE walks[b],
           suspended # NoNode => suspended' # NoNode,
           IsWalk(w),
           w.phase = "execute" => w.at \in Steps, w.phase = "loop" => w.at \in LoopsIn(Def),
           w.phase = "halted" => suspended' # NoNode
    PROVE  WalkInv'
<1>1. Steps' = Steps /\ LoopsIn(Def)' = LoopsIn(Def)
  BY DEF Steps, LoopsIn, Def
<1> QED
  BY <1>1 DEF WalkInv, IsWalk

\* The same for the walk a alone.
LEMMA SetKeeps ==
    ASSUME IInv, NEW a \in DOMAIN walks, NEW w, wf' = wf, suspended' = suspended, Set(a, w), IsWalk(w),
           w.phase = "execute" => w.at \in Steps, w.phase = "loop" => w.at \in LoopsIn(Def),
           w.phase = "halted" => suspended # NoNode
    PROVE  WalkInv'
<1>1. /\ DOMAIN walks' \subseteq DOMAIN walks
      /\ \A b \in DOMAIN walks' : walks'[b] = IF b = a THEN w ELSE walks[b]
  BY DEF Set
<1> QED
  BY <1>1, OneWalk DEF IInv

LEMMA SetPhaseKeeps ==
    ASSUME IInv, NEW a \in DOMAIN walks, NEW phase, wf' = wf, suspended' = suspended, SetPhase(a, phase),
           phase = "execute" => walks[a].at \in Steps, phase # "loop",
           phase = "halted" => suspended # NoNode
    PROVE  WalkInv'
<1> DEFINE w == [walks[a] EXCEPT !.phase = phase]
<1>1. IsWalk(walks[a])
  BY DEF IInv, WalkInv
<1>2. IsWalk(w) /\ w.phase = phase /\ w.at = walks[a].at
  BY <1>1, Harmless
<1>3. Set(a, w)
  BY DEF SetPhase, Set
<1> HIDE DEF w
<1> QED
  BY <1>2, <1>3, SetKeeps

\* Steps that move a walk and leave the memo alone.
LEMMA PlainMoves ==
    ASSUME IInv, NEW a \in DOMAIN walks,
           \/ ArriveAtStop(a) \/ Halt(a) \/ Replay(a) \/ FallThrough(a) \/ LoopRejects(a) \/ TakeArm(a)
    PROVE  IInv'
<1>1. UNCHANGED <<wf, status, target, results, snapshot, begun, suspended, outputs>> /\ status = "running"
  BY DEF ArriveAtStop, Halt, Replay, FallThrough, LoopRejects, TakeArm, Enters, AboutToEnter
<1>2. IsWalk(walks[a])
  BY DEF IInv, WalkInv
<1>3. WalkInv'
  <2>1. CASE ArriveAtStop(a) \/ FallThrough(a)
    BY <2>1, <1>1, SetPhaseKeeps DEF ArriveAtStop, FallThrough
  <2>2. CASE Halt(a)
    BY <2>2, <1>1, SetPhaseKeeps DEF Halt
  <2>3. CASE LoopRejects(a)
    BY <2>3, <1>1, SetPhaseKeeps DEF LoopRejects
  <2>4. CASE Replay(a)
    <3>1. Set(a, Behind(a, walks[a].at))
      BY <2>4 DEF Replay
    <3> QED
      BY <3>1, <1>1, <1>2, BehindIsWalk, SetKeeps
  <2>5. CASE TakeArm(a)
    <3>1. PICK n : Set(a, Entering(n, walks[a].stop, walks[a].turn))
      BY <2>5 DEF TakeArm
    <3>2. IsWalk(Entering(n, walks[a].stop, walks[a].turn)) /\ Entering(n, walks[a].stop, walks[a].turn).phase = "enter"
      BY DEF IsWalk, Entering
    <3> QED
      BY <3>1, <3>2, <1>1, SetKeeps
  <2> QED
    BY <2>1, <2>2, <2>3, <2>4, <2>5
<1>4. DOMAIN outputs \ Looped \subseteq DOMAIN outputs'
  BY <1>1
<1> QED
  BY <1>1, <1>3, <1>4, WalkMoves

LEMMA CompleteKeeps ==
    ASSUME IInv, NEW a \in DOMAIN walks, NEW n, wf' = wf, suspended' = suspended, Complete(a, n)
    PROVE  /\ WalkInv' /\ DOMAIN outputs' = DOMAIN outputs \union {n}
<1>1. DOMAIN outputs' = DOMAIN outputs \union {n} /\ Set(a, Behind(a, n))
  BY DEF Complete, Assign
<1>2. IsWalk(walks[a])
  BY DEF IInv, WalkInv
<1>3. IsWalk(Behind(a, n)) /\ Behind(a, n).phase \in {"enter", "value"}
  BY <1>2, BehindIsWalk
<1> QED
  BY <1>1, <1>3, SetKeeps

LEMMA MemoMoves ==
    ASSUME IInv, NEW a \in DOMAIN walks, PassThrough(a) \/ EmptyLoop(a)
    PROVE  IInv'
<1>1. /\ UNCHANGED <<wf, status, target, results, snapshot, begun, suspended>> /\ status = "running"
      /\ Complete(a, walks[a].at)
  BY DEF PassThrough, EmptyLoop, Enters, AboutToEnter
<1>2. WalkInv' /\ DOMAIN outputs \subseteq DOMAIN outputs'
  BY <1>1, CompleteKeeps
<1> QED
  BY <1>1, <1>2, WalkMoves

\* What execute is called on is not remembered.
LEMMA BeginKeeps ==
    ASSUME IInv, NEW a \in DOMAIN walks, BeginStep(a)
    PROVE  IInv'
<1> DEFINE n == walks[a].at
<1>1. /\ UNCHANGED <<wf, status, target, results, snapshot, suspended, outputs>> /\ status = "running"
      /\ begun' = begun \union {n} /\ SetPhase(a, "execute")
      /\ n \in Steps /\ (n = target \/ n \notin DOMAIN outputs)
  BY DEF BeginStep, Enters, AboutToEnter, Memoized, Steps
<1>2. WalkInv'
  BY <1>1, SetPhaseKeeps
<1>3. MemoInv' /\ Looped' = Looped
  BY <1>1 DEF IInv, MemoInv, Looped
<1>4. n = target \/ n \in Looped \/ n \notin DOMAIN snapshot.outputs
  BY <1>1 DEF IInv, MemoInv
<1>5. ReplayShortCircuits'
  BY <1>1, <1>3, <1>4 DEF IInv, ReplayShortCircuits
<1> QED
  BY <1>1, <1>2, <1>3, <1>5 DEF IInv, SuspensionIsSaved

\* What execute returns.
LEMMA OutcomeKeeps ==
    ASSUME IInv, NEW a \in DOMAIN walks, StepDone(a) \/ StepSuspends(a) \/ StepFails(a)
    PROVE  IInv'
<1> DEFINE n == walks[a].at
<1>1. UNCHANGED <<wf, status, target, snapshot, begun>> /\ status = "running" /\ walks[a].phase = "execute"
  BY DEF StepDone, StepSuspends, StepFails, Executing
<1>2. n \in Steps /\ n # NoNode /\ IsWalk(walks[a])
  BY <1>1, Tables DEF IInv, WalkInv
<1>3. Looped' = Looped
  BY <1>1 DEF Looped
<1>r. ASSUME NEW r, results' = Assign(results, n, r), r = "success" => n \in DOMAIN outputs'
      PROVE  \A m \in DOMAIN results' : results'[m] = "success" =>
                (m \in DOMAIN results /\ results[m] = "success") \/ m \in DOMAIN outputs'
  <2>1. /\ DOMAIN results' = DOMAIN results \union {n} /\ results'[n] = r
        /\ \A m \in DOMAIN results : m # n => results'[m] = results[m]
    BY <1>r DEF Assign
  <2> QED
    BY <2>1, <1>r
<1>4. WalkInv' /\ DOMAIN outputs \subseteq DOMAIN outputs'
      /\ \A m \in DOMAIN results' : results'[m] = "success" =>
             (m \in DOMAIN results /\ results[m] = "success") \/ m \in DOMAIN outputs'
  <2>1. CASE StepDone(a)
    <3>1. Complete(a, n) /\ results' = Assign(results, n, "success") /\ suspended' = suspended
      BY <2>1 DEF StepDone
    <3>2. WalkInv' /\ DOMAIN outputs' = DOMAIN outputs \union {n}
      BY <3>1, <1>1, CompleteKeeps
    <3> QED
      BY <3>1, <3>2, <1>r
  <2>2. CASE StepSuspends(a)
    <3> DEFINE w == [walks[a] EXCEPT !.phase = "halted"]
    <3>1. /\ walks' = [walks EXCEPT ![a] = w] /\ suspended' = n
          /\ results' = Assign(results, n, "suspended") /\ outputs' = outputs
      BY <2>2 DEF StepSuspends, SetPhase
    <3>2. IsWalk(w) /\ w.phase = "halted"
      BY <1>2, Harmless
    <3> HIDE DEF w
    <3>3. /\ DOMAIN walks' \subseteq DOMAIN walks
          /\ \A b \in DOMAIN walks' : walks'[b] = IF b = a THEN w ELSE walks[b]
      BY <3>1
    <3>4. WalkInv'
      BY <3>1, <3>2, <3>3, <1>1, <1>2, OneWalk DEF IInv
    <3> QED
      BY <3>1, <3>4, <1>r
  <2>3. CASE StepFails(a)
    <3>1. /\ SetPhase(a, "error") /\ suspended' = suspended
          /\ results' = Assign(results, n, "failed") /\ outputs' = outputs
      BY <2>3 DEF StepFails
    <3>2. WalkInv'
      BY <3>1, <1>1, SetPhaseKeeps
    <3> QED
      BY <3>1, <3>2, <1>r
  <2> QED
    BY <2>1, <2>2, <2>3
<1>5. MemoInv'
  BY <1>1, <1>3, <1>4 DEF IInv, MemoInv
<1> QED
  BY <1>1, <1>3, <1>4, <1>5 DEF IInv, ReplayShortCircuits, SuspensionIsSaved

\* The branches of a parallel node and the body of a loop begin.
LEMMA NewWalks ==
    ASSUME WalkInv, wf' = wf, suspended' = suspended, NEW a, NEW w, NEW New,
           DOMAIN walks' = DOMAIN walks \union New,
           \A b \in DOMAIN walks' \ ({a} \union New) : walks'[b] = walks[b],
           \A b \in New : b # a => IsWalk(walks'[b]) /\ walks'[b].phase = "enter",
           a \in DOMAIN walks' => walks'[a] = w, IsWalk(w), w.phase \in {"fork", "loop"},
           w.phase = "loop" => w.at \in LoopsIn(Def)
    PROVE  WalkInv'
<1>1. Steps' = Steps /\ LoopsIn(Def)' = LoopsIn(Def)
  BY DEF Steps, LoopsIn, Def
<1> QED
  BY <1>1 DEF WalkInv, IsWalk

LEMMA EnteringIsWalk ==
    \A n, s, t : IsWalk(Entering(n, s, t)) /\ Entering(n, s, t).phase = "enter"
BY DEF IsWalk, Entering

LEMMA ForkKeeps ==
    ASSUME IInv, NEW a \in DOMAIN walks, Fork(a)
    PROVE  IInv'
<1> DEFINE forks == Forks(Def, walks[a].at)
           join == JoinOf(walks[a].at)
           branches == {Append(a, i) : i \in DOMAIN forks}
           w == [walks[a] EXCEPT !.phase = "fork"]
<1>1. /\ UNCHANGED <<wf, status, target, results, snapshot, begun, suspended, outputs>> /\ status = "running"
      /\ walks' = [b \in DOMAIN walks \union branches |->
                      IF b = a THEN w
                      ELSE IF b \in branches THEN Entering(forks[b[Len(b)]], join, walks[a].turn)
                      ELSE walks[b]]
  BY DEF Fork, Enters, AboutToEnter
<1>2. IsWalk(w) /\ w.phase = "fork"
  BY Harmless DEF IInv, WalkInv
<1> HIDE DEF w, branches, forks, join
<1>3. /\ DOMAIN walks' = DOMAIN walks \union branches
      /\ \A b \in DOMAIN walks' \ ({a} \union branches) : walks'[b] = walks[b]
      /\ \A b \in branches : b # a => walks'[b] = Entering(forks[b[Len(b)]], join, walks[a].turn)
      /\ walks'[a] = w
  BY <1>1
<1>4. \A b \in branches : b # a => IsWalk(walks'[b]) /\ walks'[b].phase = "enter"
  BY <1>3, EnteringIsWalk
<1>5. WalkInv /\ wf' = wf /\ suspended' = suspended /\ w.phase \in {"fork", "loop"} /\ w.phase # "loop"
  BY <1>1, <1>2 DEF IInv
<1>6. WalkInv'
  BY <1>2, <1>3, <1>4, <1>5, NewWalks
<1> QED
  BY <1>1, <1>6, WalkMoves

\* Walks that have returned are collected.
LEMMA CollectKeeps ==
    ASSUME IInv, NEW a \in DOMAIN walks, NEW S, NEW w, wf' = wf, suspended' = suspended,
           walks' = [Without(walks, S) EXCEPT ![a] = w], IsWalk(w), w.phase \in {"enter", "value", "halted", "error"},
           w.phase = "halted" => suspended # NoNode
    PROVE  WalkInv'
<1>1. /\ DOMAIN walks' \subseteq DOMAIN walks
      /\ \A b \in DOMAIN walks' : walks'[b] = IF b = a THEN w ELSE walks[b]
  BY DEF Without
<1> QED
  BY <1>1, OneWalk DEF IInv

LEMMA JoinKeeps ==
    ASSUME IInv, NEW a \in DOMAIN walks, JoinGivesUp(a) \/ JoinBranches(a)
    PROVE  IInv'
<1>1. UNCHANGED <<wf, status, target, results, snapshot, begun, suspended>> /\ status = "running"
  BY DEF JoinGivesUp, JoinBranches, Collect
<1>2. IsWalk(walks[a])
  BY DEF IInv, WalkInv
<1>3. WalkInv' /\ DOMAIN outputs \subseteq DOMAIN outputs'
  <2>1. CASE JoinGivesUp(a)
    <3>1. PICK b \in Deciding(a) : Collect(a, [walks[a] EXCEPT !.phase = walks[b].phase])
      BY <2>1 DEF JoinGivesUp
    <3> DEFINE w == [walks[a] EXCEPT !.phase = walks[b].phase]
    <3>2. b \in DOMAIN walks /\ walks[b].phase \in {"halted", "error"}
      BY <3>1 DEF Deciding, Decides, Children, Below
    <3>3. IsWalk(w) /\ w.phase = walks[b].phase
      BY <1>2, Harmless
    <3>4. walks[b].phase = "halted" => suspended # NoNode
      BY <3>2 DEF IInv, WalkInv
    <3>5. walks' = [Without(walks, Below(a)) EXCEPT ![a] = w]
      BY <3>1 DEF Collect
    <3> HIDE DEF w
    <3>6. WalkInv'
      BY <1>1, <3>2, <3>3, <3>4, <3>5, CollectKeeps
    <3> QED
      BY <2>1, <3>6 DEF JoinGivesUp
  <2>2. CASE JoinBranches(a)
    <3> DEFINE join == JoinOf(walks[a].at)
    <3>1. CASE join = NoNode
      <4> DEFINE w == [walks[a] EXCEPT !.phase = "value"]
      <4>1. walks' = [Without(walks, Below(a)) EXCEPT ![a] = w] /\ outputs' = outputs
        BY <2>2, <3>1 DEF JoinBranches, Collect
      <4>2. IsWalk(w) /\ w.phase = "value"
        BY <1>2, Harmless
      <4> HIDE DEF w
      <4> QED
        BY <4>1, <4>2, <1>1, CollectKeeps
    <3>2. CASE join # NoNode
      <4> DEFINE w == Behind(a, join)
      <4>1. /\ walks' = [Without(walks, Below(a)) EXCEPT ![a] = w]
            /\ outputs' = Assign(outputs, join, Stamp(a))
        BY <2>2, <3>2 DEF JoinBranches, Collect
      <4>2. IsWalk(w) /\ w.phase \in {"enter", "value"}
        BY <1>2, BehindIsWalk
      <4> HIDE DEF w
      <4>3. WalkInv'
        BY <4>1, <4>2, <1>1, CollectKeeps
      <4> QED
        BY <4>1, <4>3 DEF Assign
    <3> QED
      BY <3>1, <3>2
  <2> QED
    BY <2>1, <2>2
<1> QED
  BY <1>1, <1>3, WalkMoves

LEMMA IterateKeeps ==
    ASSUME IInv, NEW a \in DOMAIN walks, BeginLoop(a) \/ NextIteration(a)
    PROVE  IInv'
<1> DEFINE n == walks[a].at
           body == Append(a, 1)
<1>1. /\ UNCHANGED <<wf, status, target, results, snapshot, begun, suspended>> /\ status = "running"
      /\ n \in LoopsIn(Def) /\ \E round, items : Iterate(a, round, items)
  <2>1. CASE BeginLoop(a)
    BY <2>1 DEF BeginLoop, Enters, AboutToEnter, LoopsIn
  <2>2. CASE NextIteration(a)
    BY <2>2 DEF NextIteration, BodyReturned, IInv, WalkInv
  <2> QED
    BY <2>1, <2>2
<1>2. PICK round, items : Iterate(a, round, items)
  BY <1>1
<1> DEFINE w == InLoop(walks[a], round, items)
<1>3. IsWalk(w) /\ w.phase = "loop" /\ w.at = n
  BY DEF IsWalk, InLoop
<1>4. /\ outputs' = Forget(n)
      /\ walks' = [b \in DOMAIN walks \union {body} |->
                      IF b = a THEN w
                      ELSE IF b = body THEN Entering(Def.nodes[n].body, n, round)
                      ELSE walks[b]]
  BY <1>2 DEF Iterate
<1>5. DOMAIN outputs \ Looped \subseteq DOMAIN outputs'
  <2>1. Body(n) \subseteq Looped
    BY <1>1, Tables DEF IInv
  <2> QED
    BY <1>4, <2>1 DEF Forget, Without
<1> HIDE DEF w, body
<1>6. /\ DOMAIN walks' = DOMAIN walks \union {body} /\ walks'[a] = w
      /\ \A b \in DOMAIN walks' \ ({a} \union {body}) : walks'[b] = walks[b]
      /\ body # a => walks'[body] = Entering(Def.nodes[n].body, n, round)
  BY <1>4
<1>7. \A b \in {body} : b # a => IsWalk(walks'[b]) /\ walks'[b].phase = "enter"
  BY <1>6, EnteringIsWalk
<1>8. WalkInv'
  <2>1. WalkInv /\ wf' = wf /\ suspended' = suspended /\ w.at \in LoopsIn(Def) /\ w.phase \in {"fork", "loop"}
    BY <1>1, <1>3 DEF IInv
  <2> QED
    BY <2>1, <1>3, <1>6, <1>7, NewWalks
<1> QED
  BY <1>1, <1>5, <1>8, WalkMoves

LEMMA LoopLeft ==
    ASSUME IInv, NEW a \in DOMAIN walks, EndLoop(a) \/ LeaveLoop(a)
    PROVE  IInv'
<1>1. UNCHANGED <<wf, status, target, results, snapshot, begun, suspended>> /\ status = "running"
  BY DEF EndLoop, LeaveLoop, BodyReturned
<1>2. IsWalk(walks[a])
  BY DEF IInv, WalkInv
<1>3. WalkInv' /\ DOMAIN outputs \subseteq DOMAIN outputs'
  <2>1. CASE EndLoop(a)
    <3> DEFINE w == Behind(a, walks[a].at)
    <3>1. /\ walks' = [Without(walks, {Append(a, 1)}) EXCEPT ![a] = w]
          /\ outputs' = Assign(outputs, walks[a].at, Stamp(a))
      BY <2>1 DEF EndLoop
    <3>2. IsWalk(w) /\ w.phase \in {"enter", "value"}
      BY <1>2, BehindIsWalk
    <3> HIDE DEF w
    <3>3. WalkInv'
      BY <3>1, <3>2, <1>1, CollectKeeps
    <3> QED
      BY <3>1, <3>3 DEF Assign
  <2>2. CASE LeaveLoop(a)
    <3> DEFINE b == Append(a, 1)
               w == [walks[a] EXCEPT !.phase = walks[b].phase]
    <3>1. /\ walks' = [Without(walks, {b}) EXCEPT ![a].phase = walks[b].phase]
          /\ walks[b].phase \in {"halted", "error"} /\ b \in DOMAIN walks /\ outputs' = outputs
      BY <2>2 DEF LeaveLoop, BodyReturned
    <3>2. IsWalk(w) /\ w.phase = walks[b].phase
      BY <1>2, Harmless
    <3>3. walks[b].phase = "halted" => suspended # NoNode
      BY <3>1 DEF IInv, WalkInv
    <3>4. /\ DOMAIN walks' \subseteq DOMAIN walks
          /\ \A c \in DOMAIN walks' : walks'[c] = IF c = a THEN w ELSE walks[c]
      BY <3>1 DEF Without
    <3> HIDE DEF w
    <3>5. WalkInv'
      BY <3>1, <3>2, <3>3, <3>4, <1>1, OneWalk DEF IInv
    <3> QED
      BY <3>1, <3>5
  <2> QED
    BY <2>1, <2>2
<1> QED
  BY <1>1, <1>3, WalkMoves

\* A run is reported, started or resumed.
LEMMA ReportKeeps ==
    ASSUME IInv, Report
    PROVE  IInv'
<1>1. /\ status = "running" /\ << >> \in DOMAIN walks /\ walks[<< >>].phase \in Returned
      /\ status' = Outcome(walks[<< >>].phase)
      /\ snapshot' = IF status' = "suspended" THEN Saved ELSE snapshot
      /\ walks' = Without(walks, {<< >>})
      /\ UNCHANGED <<wf, target, suspended, outputs, results, begun>>
  BY DEF Report
<1>2. status' \in {"success", "suspended", "failed"}
      /\ (status' = "suspended" => walks[<< >>].phase = "halted")
  BY <1>1 DEF Outcome, Returned
<1>3. WalkInv'
  <2>1. Steps' = Steps /\ LoopsIn(Def)' = LoopsIn(Def)
    BY <1>1 DEF Steps, LoopsIn, Def
  <2> QED
    BY <1>1, <2>1 DEF IInv, WalkInv, Without, IsWalk
<1>4. Looped' = Looped
  BY <1>1 DEF Looped
<1>5. SuspensionIsSaved'
  BY <1>1, <1>2, <1>4 DEF IInv, WalkInv, MemoInv, SuspensionIsSaved, Saved
<1> QED
  BY <1>1, <1>2, <1>3, <1>5 DEF IInv, MemoInv, ReplayShortCircuits

LEMMA RunKeeps ==
    ASSUME IInv, Start \/ Resume
    PROVE  IInv'
<1>1. PICK n, preload : Run(n, preload) /\ DOMAIN snapshot.outputs \ Looped \subseteq DOMAIN preload
  <2>1. CASE Start
    BY <2>1 DEF Start, IInv, MemoInv
  <2>2. CASE Resume
    BY <2>2 DEF Resume
  <2> QED
    BY <2>1, <2>2
<1>2. /\ status' = "running" /\ outputs' = preload /\ DOMAIN results' = {} /\ begun' = {}
      /\ walks' = [a \in {<< >>} |-> Entering(Def.entry, NoNode, 0)] /\ UNCHANGED <<wf, snapshot>>
  BY <1>1 DEF Run, Nowhere
<1>3. WalkInv'
  BY <1>2, EnteringIsWalk DEF WalkInv, IsWalk
<1>4. Looped' = Looped
  BY <1>2 DEF Looped
<1> QED
  BY <1>1, <1>2, <1>3, <1>4 DEF IInv, MemoInv, ReplayShortCircuits, SuspensionIsSaved

LEMMA StepInv == IInv /\ [Next]_vars => IInv'
<1> SUFFICES ASSUME IInv, [Next]_vars PROVE IInv'
  OBVIOUS
<1>1. CASE Start \/ Resume
  BY <1>1, RunKeeps
<1>2. CASE Report
  BY <1>2, ReportKeeps
<1>3. ASSUME NEW a \in DOMAIN walks, Move(a) PROVE IInv'
  BY <1>3, PlainMoves, MemoMoves, BeginKeeps, OutcomeKeeps, ForkKeeps, JoinKeeps, IterateKeeps, LoopLeft
     DEF Move
<1>4. CASE UNCHANGED vars
  <2>1. WalkInv'
    BY <1>4 DEF vars, IInv, WalkInv, Steps, LoopsIn, Def, IsWalk
  <2>2. Looped' = Looped
    BY <1>4 DEF vars, Looped
  <2> QED
    BY <1>4, <2>1, <2>2 DEF vars, IInv, MemoInv, ReplayShortCircuits, SuspensionIsSaved
<1> QED
  BY <1>1, <1>2, <1>3, <1>4 DEF Next, Progress, Rest

LEMMA AlwaysInv == Spec => []IInv
<1> QED
  BY InitInv, StepInv, PTL DEF Spec

\* What a run remembers from its snapshot it does not execute again (executor.rs:3-7), in any
\* workflow: the memo loses nothing but the bodies of loops.
THEOREM ReplayNeverRepeats == Spec => []ReplayShortCircuits
BY AlwaysInv, PTL DEF IInv

\* A run reported as suspended can be resumed without losing a completed step, in any workflow.
THEOREM SuspensionLosesNothing == Spec => []SuspensionIsSaved
BY AlwaysInv, PTL DEF IInv

-----------------------------------------------------------------------------
(* Nothing is left behind: a walk waits for all walks below it.            *)

\* the numbers of branches, and of the body of a loop
Index ==
    {1} \union UNION {UNION {DOMAIN Forks(Workflows[w], n) : n \in DOMAIN Workflows[w].nodes} :
                         w \in DOMAIN Workflows}

LEMMA OneIsIndex == 1 \in Index
BY DEF Index

\* b lies below a in the tree of walks
Under(b, a) == Len(b) > Len(a) /\ SubSeq(b, 1, Len(a)) = a

LEMMA UnderByEntry ==
    ASSUME NEW a \in Seq(Index), NEW b \in Seq(Index)
    PROVE  Under(b, a) <=> Len(b) > Len(a) /\ \A i \in 1..Len(a) : b[i] = a[i]
<1>1. CASE Len(b) > Len(a)
  <2>1. SubSeq(b, 1, Len(a)) \in Seq(Index) /\ Len(SubSeq(b, 1, Len(a))) = Len(a)
        /\ \A i \in 1..Len(a) : SubSeq(b, 1, Len(a))[i] = b[i]
    BY <1>1
  <2> QED
    BY <1>1, <2>1 DEF Under
<1> QED
  BY <1>1 DEF Under

LEMMA UnderChild ==
    ASSUME NEW a \in Seq(Index), NEW i \in Index, NEW p \in Seq(Index)
    PROVE  Under(Append(a, i), p) <=> (p = a \/ Under(a, p))
<1> DEFINE c == Append(a, i)
<1>1. c \in Seq(Index) /\ Len(c) = Len(a) + 1 /\ c[Len(a) + 1] = i /\ \A j \in 1..Len(a) : c[j] = a[j]
  OBVIOUS
<1> HIDE DEF c
<1>2. ASSUME Under(c, p) PROVE p = a \/ Under(a, p)
  <2>1. Len(c) > Len(p) /\ \A j \in 1..Len(p) : c[j] = p[j]
    BY <1>1, <1>2, UnderByEntry
  <2>2. CASE Len(p) = Len(a)
    <3>1. \A j \in 1..Len(a) : p[j] = a[j]
      BY <1>1, <2>1, <2>2
    <3> QED
      BY <2>2, <3>1, SeqEqual
  <2>3. CASE Len(p) < Len(a)
    BY <1>1, <2>1, <2>3, UnderByEntry
  <2> QED
    BY <1>1, <2>1, <2>2, <2>3
<1>3. ASSUME p = a \/ Under(a, p) PROVE Under(c, p)
  <2>1. CASE p = a
    BY <1>1, <2>1, UnderByEntry
  <2>2. CASE Under(a, p)
    <3>1. Len(a) > Len(p) /\ \A j \in 1..Len(p) : a[j] = p[j]
      BY <2>2, UnderByEntry
    <3>2. Len(c) > Len(p) /\ \A j \in 1..Len(p) : c[j] = p[j]
      BY <1>1, <3>1
    <3> QED
      BY <1>1, <3>2, UnderByEntry
  <2> QED
    BY <1>3, <2>1, <2>2
<1> QED
  BY <1>2, <1>3 DEF c

LEMMA UnderTwice ==
    ASSUME NEW a \in Seq(Index), NEW b \in Seq(Index), NEW c \in Seq(Index), Under(c, b), Under(b, a)
    PROVE  Under(c, a)
<1>1. Len(c) > Len(b) /\ (\A i \in 1..Len(b) : c[i] = b[i]) /\ Len(b) > Len(a) /\ \A i \in 1..Len(a) : b[i] = a[i]
  BY UnderByEntry
<1>2. Len(c) > Len(a) /\ \A i \in 1..Len(a) : c[i] = a[i]
  BY <1>1
<1> QED
  BY <1>2, UnderByEntry

LEMMA ChildBetween ==
    ASSUME NEW a \in Seq(Index), NEW b \in Seq(Index), Under(b, a)
    PROVE  LET c == Append(a, b[Len(a) + 1]) IN
           c \in Seq(Index) /\ Under(c, a) /\ (b = c \/ Under(b, c))
<1> DEFINE c == Append(a, b[Len(a) + 1])
<1>1. Len(b) > Len(a) /\ \A i \in 1..Len(a) : b[i] = a[i]
  BY UnderByEntry
<1>2. b[Len(a) + 1] \in Index
  BY <1>1
<1>3. /\ c \in Seq(Index) /\ Len(c) = Len(a) + 1 /\ \A j \in 1..Len(a) : c[j] = a[j]
      /\ c[Len(a) + 1] = b[Len(a) + 1]
  BY <1>2
<1> HIDE DEF c
<1>4. ASSUME NEW j \in 1..Len(c) PROVE b[j] = c[j]
  <2>1. j \in 1..Len(a) \/ j = Len(a) + 1
    BY <1>3
  <2> QED
    BY <2>1, <1>1, <1>3
<1>5. b = c \/ Under(b, c)
  <2>1. CASE Len(b) = Len(c)
    BY <2>1, <1>3, <1>4, SeqEqual
  <2>2. CASE Len(b) > Len(c)
    BY <2>2, <1>3, <1>4, UnderByEntry
  <2> QED
    BY <1>1, <1>3, <2>1, <2>2
<1>6. Under(c, a)
  <2>1. Len(c) > Len(a) /\ \A j \in 1..Len(a) : c[j] = a[j]
    BY <1>3
  <2> QED
    BY <1>3, <2>1, UnderByEntry
<1> QED
  BY <1>3, <1>5, <1>6 DEF c
\* Whatever lies above a walk waits for it: a loop for its body, which is walked once at a time.
Tree ==
    \A b \in DOMAIN walks :
        /\ b \in Seq(Index)
        /\ \A a \in Seq(Index) : Under(b, a) =>
              /\ a \in DOMAIN walks /\ walks[a].phase \in {"fork", "loop"}
              /\ walks[a].phase = "loop" => b[Len(a) + 1] = 1

\* What has begun has its result or is being executed by some walk.
Accounted ==
    /\ DOMAIN results \subseteq begun
    /\ \A n \in begun \ DOMAIN results :
          \E a \in DOMAIN walks : walks[a].phase = "execute" /\ walks[a].at = n
    /\ \A a \in DOMAIN walks : walks[a].phase = "execute" => walks[a].at \in begun
    /\ status # "running" => DOMAIN walks = {}

\* The walks that execute a step go on doing so, and no other begins.
SameExecutions ==
    /\ \A b \in DOMAIN walks : walks[b].phase = "execute" =>
          b \in DOMAIN walks' /\ walks'[b].phase = "execute" /\ walks'[b].at = walks[b].at
    /\ \A b \in DOMAIN walks' : walks'[b].phase = "execute" =>
          b \in DOMAIN walks /\ walks[b].phase = "execute" /\ walks'[b].at = walks[b].at

LEMMA AccountsStay ==
    ASSUME Accounted, SameExecutions, status = "running", UNCHANGED <<status, results, begun>>
    PROVE  Accounted'
BY DEF Accounted, SameExecutions

\* A walk that waits for nobody moves.
LEMMA LeafMoves ==
    ASSUME Tree, NEW a \in DOMAIN walks, NEW w, walks[a].phase \notin {"fork", "loop"},
           walks' = [walks EXCEPT ![a] = w]
    PROVE  Tree'
<1> SUFFICES ASSUME NEW b \in DOMAIN walks, NEW p \in Seq(Index), Under(b, p)
             PROVE  /\ p \in DOMAIN walks /\ walks'[p].phase \in {"fork", "loop"}
                    /\ walks'[p].phase = "loop" => b[Len(p) + 1] = 1
  BY DEF Tree
<1>1. /\ p \in DOMAIN walks /\ walks[p].phase \in {"fork", "loop"}
      /\ walks[p].phase = "loop" => b[Len(p) + 1] = 1
  BY DEF Tree
<1> QED
  BY <1>1

\* Walks begin below a walk that waits from now on, or that waits for the body of its loop again.
LEMMA SomeBegin ==
    ASSUME Tree, NEW a \in DOMAIN walks, NEW I \in SUBSET Index,
           DOMAIN walks' = DOMAIN walks \union {Append(a, i) : i \in I},
           \A b \in DOMAIN walks : b # a /\ b \notin {Append(a, i) : i \in I} => walks'[b] = walks[b],
           walks'[a].phase \in {"fork", "loop"}, walks'[a].phase = "loop" => I \subseteq {1},
           walks[a].phase \in {"fork", "loop"} => walks[a].phase = "loop" /\ walks'[a].phase = "loop",
           \A i \in I : Append(a, i) \in DOMAIN walks => walks[Append(a, i)].phase \notin {"fork", "loop"}
    PROVE  Tree'
<1> DEFINE New == {Append(a, i) : i \in I}
<1>1. a \in Seq(Index)
  BY DEF Tree
<1>2. ASSUME NEW b \in DOMAIN walks, NEW p \in Seq(Index), Under(b, p)
      PROVE  /\ p \in DOMAIN walks' /\ walks'[p].phase \in {"fork", "loop"}
             /\ walks'[p].phase = "loop" => b[Len(p) + 1] = 1
  <2>1. /\ p \in DOMAIN walks /\ walks[p].phase \in {"fork", "loop"}
        /\ walks[p].phase = "loop" => b[Len(p) + 1] = 1
    BY <1>2 DEF Tree
  <2>2. p \notin New
    BY <2>1
  <2> QED
    BY <2>1, <2>2
<1>3. ASSUME NEW i \in I, NEW p \in Seq(Index), Under(Append(a, i), p)
      PROVE  /\ p \in DOMAIN walks' /\ walks'[p].phase \in {"fork", "loop"}
             /\ walks'[p].phase = "loop" => Append(a, i)[Len(p) + 1] = 1
  <2>1. p = a \/ Under(a, p)
    BY <1>1, <1>3, UnderChild
  <2>2. CASE p = a
    <3>1. Append(a, i)[Len(a) + 1] = i
      BY <1>1
    <3> QED
      BY <2>2, <3>1
  <2>3. CASE Under(a, p)
    <3>1. /\ p \in DOMAIN walks /\ walks[p].phase \in {"fork", "loop"}
          /\ walks[p].phase = "loop" => a[Len(p) + 1] = 1
      BY <2>3 DEF Tree
    <3>2. Len(p) < Len(a)
      BY <2>3, <1>1, UnderByEntry
    <3>3. p # a /\ \A j \in I : p # Append(a, j)
      BY <1>1, <3>2
    <3>4. walks'[p] = walks[p]
      BY <3>1, <3>3
    <3>5. Append(a, i)[Len(p) + 1] = a[Len(p) + 1]
      BY <1>1, <3>2
    <3> QED
      BY <3>1, <3>4, <3>5
  <2> QED
    BY <2>1, <2>2, <2>3
<1>4. ASSUME NEW b \in DOMAIN walks'
      PROVE  /\ b \in Seq(Index)
             /\ \A p \in Seq(Index) : Under(b, p) =>
                   /\ p \in DOMAIN walks' /\ walks'[p].phase \in {"fork", "loop"}
                   /\ walks'[p].phase = "loop" => b[Len(p) + 1] = 1
  <2>1. CASE b \in DOMAIN walks
    BY <2>1, <1>2 DEF Tree
  <2>2. CASE b \in New
    <3>1. PICK i \in I : b = Append(a, i)
      BY <2>2
    <3>2. b \in Seq(Index)
      BY <3>1, <1>1
    <3> QED
      BY <3>1, <3>2, <1>3
  <2> QED
    BY <2>1, <2>2
<1> QED
  BY <1>4 DEF Tree

\* All walks below a walk end.
LEMMA SomeEnd ==
    ASSUME Tree, NEW a \in DOMAIN walks, NEW w,
           walks' = [Without(walks, Below(a)) EXCEPT ![a] = w]
    PROVE  Tree'
<1>1. a \in Seq(Index)
  BY DEF Tree
<1>2. Below(a) = {b \in DOMAIN walks : Under(b, a)}
  BY DEF Below, Under
<1>3. /\ DOMAIN walks' = DOMAIN walks \ Below(a)
      /\ \A b \in DOMAIN walks' : b # a => walks'[b] = walks[b]
  BY DEF Without
<1> SUFFICES ASSUME NEW b \in DOMAIN walks', NEW p \in Seq(Index), Under(b, p)
             PROVE  /\ p \in DOMAIN walks' /\ walks'[p].phase \in {"fork", "loop"}
                    /\ walks'[p].phase = "loop" => b[Len(p) + 1] = 1
  BY <1>3 DEF Tree
<1>4. /\ p \in DOMAIN walks /\ walks[p].phase \in {"fork", "loop"} /\ b \in Seq(Index)
      /\ walks[p].phase = "loop" => b[Len(p) + 1] = 1
  BY <1>3 DEF Tree
<1>5. ~Under(b, a)
  BY <1>2, <1>3
<1>6. p # a /\ ~Under(p, a)
  BY <1>1, <1>4, <1>5, UnderTwice
<1> QED
  BY <1>2, <1>3, <1>4, <1>6

\* When those directly below a walk have returned, nobody else is below it.
LEMMA BelowReturned ==
    ASSUME Tree, NEW a \in DOMAIN walks,
           \A i \in Index : Append(a, i) \in DOMAIN walks => walks[Append(a, i)].phase \in Returned
    PROVE  \A b \in Below(a) : walks[b].phase \in Returned /\ b = Append(a, b[Len(a) + 1]) /\ b[Len(a) + 1] \in Index
<1> SUFFICES ASSUME NEW b \in Below(a)
             PROVE  walks[b].phase \in Returned /\ b = Append(a, b[Len(a) + 1]) /\ b[Len(a) + 1] \in Index
  OBVIOUS
<1> DEFINE c == Append(a, b[Len(a) + 1])
<1>1. a \in Seq(Index) /\ b \in Seq(Index) /\ b \in DOMAIN walks /\ Under(b, a)
  BY DEF Tree, Below, Under
<1>2. c \in Seq(Index) /\ Under(c, a) /\ (b = c \/ Under(b, c))
  BY <1>1, ChildBetween
<1>3. b[Len(a) + 1] \in Index
  <2>1. Len(b) > Len(a)
    BY <1>1, UnderByEntry
  <2> QED
    BY <1>1, <2>1
<1>4. CASE b = c
  BY <1>1, <1>3, <1>4
<1>5. CASE Under(b, c)
  <2>1. c \in DOMAIN walks /\ walks[c].phase \in {"fork", "loop"}
    BY <1>1, <1>2, <1>5 DEF Tree
  <2> QED
    BY <2>1, <1>3 DEF Returned
<1> QED
  BY <1>2, <1>4, <1>5

\* What begins a walk, moves one or ends those below it, as seen by those that execute.
LEMMA LeafExecutes ==
    ASSUME NEW a \in DOMAIN walks, NEW w, walks[a].phase # "execute", w.phase # "execute",
           walks' = [walks EXCEPT ![a] = w]
    PROVE  SameExecutions
BY DEF SameExecutions

LEMMA EndExecutes ==
    ASSUME NEW a \in DOMAIN walks, NEW w, walks[a].phase # "execute", w.phase # "execute",
           \A b \in Below(a) : walks[b].phase # "execute",
           walks' = [Without(walks, Below(a)) EXCEPT ![a] = w]
    PROVE  SameExecutions
BY DEF SameExecutions, Without

NInv == IInv /\ Tree /\ Accounted

\* Steps by which one walk moves.
LEMMA OneKeeps ==
    ASSUME NInv, NEW a \in DOMAIN walks,
           \/ ArriveAtStop(a) \/ Halt(a) \/ Replay(a) \/ FallThrough(a) \/ LoopRejects(a) \/ TakeArm(a)
           \/ PassThrough(a) \/ EmptyLoop(a)
    PROVE  Tree' /\ Accounted'
<1>1. status = "running" /\ walks[a].phase = "enter" /\ UNCHANGED <<status, results, begun>>
  BY DEF ArriveAtStop, Halt, Replay, FallThrough, LoopRejects, TakeArm, PassThrough, EmptyLoop,
         Enters, AboutToEnter
<1>2. IsWalk(walks[a])
  BY DEF NInv, IInv, WalkInv
<1>3. PICK w : walks' = [walks EXCEPT ![a] = w] /\ w.phase # "execute"
  <2>1. ASSUME NEW phase, SetPhase(a, phase), phase # "execute"
        PROVE  \E w : walks' = [walks EXCEPT ![a] = w] /\ w.phase # "execute"
    <3>1. [walks[a] EXCEPT !.phase = phase].phase = phase
      BY <1>2, Harmless
    <3> QED
      BY <2>1, <3>1 DEF SetPhase
  <2>2. CASE ArriveAtStop(a) \/ FallThrough(a)
    BY <2>1, <2>2 DEF ArriveAtStop, FallThrough
  <2>3. CASE Halt(a)
    BY <2>1, <2>3 DEF Halt
  <2>4. CASE LoopRejects(a)
    BY <2>1, <2>4 DEF LoopRejects
  <2>5. CASE Replay(a) \/ PassThrough(a) \/ EmptyLoop(a)
    <3>1. Set(a, Behind(a, walks[a].at))
      BY <2>5 DEF Replay, PassThrough, EmptyLoop, Complete
    <3>2. Behind(a, walks[a].at).phase # "execute"
      BY <1>2, BehindIsWalk
    <3> QED
      BY <3>1, <3>2 DEF Set
  <2>6. CASE TakeArm(a)
    <3>1. PICK n : Set(a, Entering(n, walks[a].stop, walks[a].turn))
      BY <2>6 DEF TakeArm
    <3>2. Entering(n, walks[a].stop, walks[a].turn).phase # "execute"
      BY EnteringIsWalk
    <3> QED
      BY <3>1, <3>2 DEF Set
  <2> QED
    BY <2>2, <2>3, <2>4, <2>5, <2>6
<1>4. Tree'
  BY <1>1, <1>3, LeafMoves DEF NInv
<1>5. SameExecutions
  BY <1>1, <1>3, LeafExecutes
<1> QED
  BY <1>1, <1>4, <1>5, AccountsStay DEF NInv

LEMMA StepKeeps ==
    ASSUME NInv, NEW a \in DOMAIN walks, BeginStep(a) \/ StepDone(a) \/ StepSuspends(a) \/ StepFails(a)
    PROVE  Tree' /\ Accounted'
<1> DEFINE n == walks[a].at
<1>1. IsWalk(walks[a]) /\ status = "running" /\ status' = status
  BY DEF NInv, IInv, WalkInv, BeginStep, StepDone, StepSuspends, StepFails, Executing, Enters, AboutToEnter
<1>p. \A phase : [walks[a] EXCEPT !.phase = phase].phase = phase /\ [walks[a] EXCEPT !.phase = phase].at = n
  BY <1>1, Harmless
<1>2. CASE BeginStep(a)
  <2> DEFINE w == [walks[a] EXCEPT !.phase = "execute"]
  <2>1. /\ walks[a].phase = "enter" /\ walks' = [walks EXCEPT ![a] = w] /\ w.phase = "execute" /\ w.at = n
        /\ begun' = begun \union {n} /\ results' = results
    BY <1>2, <1>p DEF BeginStep, Enters, AboutToEnter, SetPhase
  <2> HIDE DEF w
  <2>2. Tree'
    BY <2>1, LeafMoves DEF NInv
  <2> QED
    BY <1>1, <2>1, <2>2 DEF NInv, Accounted
<1>3. CASE StepDone(a) \/ StepSuspends(a) \/ StepFails(a)
  <2>1. PICK w, r : /\ walks' = [walks EXCEPT ![a] = w] /\ w.phase # "execute"
                    /\ results' = Assign(results, n, r)
    <3>1. CASE StepDone(a)
      <4>1. Set(a, Behind(a, n)) /\ results' = Assign(results, n, "success")
        BY <3>1 DEF StepDone, Complete
      <4>2. Behind(a, n).phase # "execute"
        BY <1>1, BehindIsWalk
      <4> QED
        BY <4>1, <4>2 DEF Set
    <3>2. CASE StepSuspends(a)
      BY <3>2, <1>p DEF StepSuspends, SetPhase
    <3>3. CASE StepFails(a)
      BY <3>3, <1>p DEF StepFails, SetPhase
    <3> QED
      BY <1>3, <3>1, <3>2, <3>3
  <2>2. walks[a].phase = "execute" /\ begun' = begun
    BY <1>3 DEF StepDone, StepSuspends, StepFails, Executing
  <2>3. Tree'
    BY <2>1, <2>2, LeafMoves DEF NInv
  <2>4. DOMAIN results' = DOMAIN results \union {n}
    BY <2>1 DEF Assign
  <2> QED
    BY <1>1, <2>1, <2>2, <2>3, <2>4 DEF NInv, Accounted
<1> QED
  BY <1>2, <1>3

LEMMA ForksKeep ==
    ASSUME NInv, NEW a \in DOMAIN walks, Fork(a)
    PROVE  Tree' /\ Accounted'
<1> DEFINE forks == Forks(Def, walks[a].at)
           join == JoinOf(walks[a].at)
           w == [walks[a] EXCEPT !.phase = "fork"]
           I == DOMAIN forks
           New == {Append(a, i) : i \in I}
<1>1. /\ status = "running" /\ UNCHANGED <<status, results, begun>> /\ walks[a].phase = "enter"
      /\ walks' = [b \in DOMAIN walks \union New |->
                      IF b = a THEN w
                      ELSE IF b \in New THEN Entering(forks[b[Len(b)]], join, walks[a].turn)
                      ELSE walks[b]]
  BY DEF Fork, Enters, AboutToEnter
<1>2. w.phase = "fork"
  BY Harmless DEF NInv, IInv, WalkInv
<1>3. I \in SUBSET Index
  <2>1. walks[a].at \in DOMAIN Def.nodes /\ wf \in DOMAIN Workflows /\ Def = Workflows[wf]
    BY Tables DEF Fork, Enters, NInv, IInv
  <2> QED
    BY <2>1 DEF Index
<1>4. a \in Seq(Index)
  BY DEF NInv, Tree
<1>5. ASSUME NEW i \in I PROVE Append(a, i) \notin DOMAIN walks
  <2>1. Append(a, i) \in Seq(Index) /\ Under(Append(a, i), a)
    BY <1>3, <1>4, UnderChild
  <2> QED
    BY <1>1, <1>4, <2>1 DEF NInv, Tree
<1> HIDE DEF w, I, forks, join
<1>6. /\ DOMAIN walks' = DOMAIN walks \union New /\ walks'[a] = w
      /\ \A b \in DOMAIN walks : b # a /\ b \notin New => walks'[b] = walks[b]
      /\ \A b \in New : b # a => walks'[b].phase = "enter"
  BY <1>1, EnteringIsWalk
<1>7. Tree'
  BY <1>1, <1>2, <1>3, <1>5, <1>6, SomeBegin DEF NInv
<1>8. SameExecutions
  BY <1>1, <1>2, <1>5, <1>6 DEF SameExecutions
<1> QED
  BY <1>1, <1>7, <1>8, AccountsStay DEF NInv

LEMMA LoopsKeep ==
    ASSUME NInv, NEW a \in DOMAIN walks, BeginLoop(a) \/ NextIteration(a)
    PROVE  Tree' /\ Accounted'
<1> DEFINE n == walks[a].at
           body == Append(a, 1)
<1>1. status = "running" /\ UNCHANGED <<status, results, begun>> /\ \E round, items : Iterate(a, round, items)
  BY DEF BeginLoop, NextIteration, Enters, AboutToEnter, BodyReturned
<1>2. PICK round, items : Iterate(a, round, items)
  BY <1>1
<1>3. \/ walks[a].phase = "enter" /\ body \notin DOMAIN walks
      \/ walks[a].phase = "loop" /\ body \in DOMAIN walks /\ walks[body].phase = "value"
  <2>1. CASE BeginLoop(a)
    <3>1. a \in Seq(Index) /\ walks[a].phase = "enter"
      BY <2>1 DEF NInv, Tree, BeginLoop, Enters, AboutToEnter
    <3>2. body \in Seq(Index) /\ Under(body, a)
      BY <3>1, OneIsIndex, UnderChild
    <3> QED
      BY <3>1, <3>2 DEF NInv, Tree
  <2>2. CASE NextIteration(a)
    BY <2>2 DEF NextIteration, BodyReturned
  <2> QED
    BY <2>1, <2>2
<1> DEFINE w == InLoop(walks[a], round, items)
<1>4. w.phase = "loop"
  BY DEF InLoop
<1>5. walks' = [b \in DOMAIN walks \union {body} |->
                   IF b = a THEN w
                   ELSE IF b = body THEN Entering(Def.nodes[n].body, n, round)
                   ELSE walks[b]]
  BY <1>2 DEF Iterate
<1>6. {Append(a, i) : i \in {1}} = {body}
  OBVIOUS
<1> HIDE DEF w, body
<1>7. /\ DOMAIN walks' = DOMAIN walks \union {body} /\ walks'[a] = w
      /\ \A b \in DOMAIN walks : b # a /\ b # body => walks'[b] = walks[b]
      /\ body # a => walks'[body].phase = "enter"
  BY <1>5, EnteringIsWalk
<1>8. Tree'
  <2> DEFINE I == {1}
  <2>1. I \in SUBSET Index /\ I \subseteq {1} /\ {Append(a, i) : i \in I} = {body}
    BY <1>6, OneIsIndex
  <2>2. \A i \in I : Append(a, i) \in DOMAIN walks => walks[Append(a, i)].phase \notin {"fork", "loop"}
    BY <1>3 DEF body
  <2> HIDE DEF I
  <2> QED
    BY <1>3, <1>4, <1>7, <2>1, <2>2, SomeBegin DEF NInv
<1>9. SameExecutions
  BY <1>3, <1>4, <1>7 DEF SameExecutions
<1> QED
  BY <1>1, <1>8, <1>9, AccountsStay DEF NInv

LEMMA JoinsKeep ==
    ASSUME NInv, NEW a \in DOMAIN walks, JoinGivesUp(a) \/ JoinBranches(a)
    PROVE  Tree' /\ Accounted'
<1>1. /\ status = "running" /\ UNCHANGED <<status, results, begun>> /\ walks[a].phase = "fork"
      /\ AllReturned(a) /\ IsWalk(walks[a]) /\ a \in Seq(Index)
  BY DEF JoinGivesUp, JoinBranches, Collect, NInv, IInv, WalkInv, Tree
<1>2. PICK w : walks' = [Without(walks, Below(a)) EXCEPT ![a] = w] /\ w.phase # "execute"
  <2>1. CASE JoinGivesUp(a)
    <3>1. PICK b \in Deciding(a) : Collect(a, [walks[a] EXCEPT !.phase = walks[b].phase])
      BY <2>1 DEF JoinGivesUp
    <3>2. walks[b].phase \in {"halted", "error"}
      BY DEF Deciding, Decides
    <3>3. [walks[a] EXCEPT !.phase = walks[b].phase].phase = walks[b].phase
      BY <1>1, Harmless
    <3> QED
      BY <3>1, <3>2, <3>3 DEF Collect
  <2>2. CASE JoinBranches(a)
    <3>1. [walks[a] EXCEPT !.phase = "value"].phase # "execute"
      BY <1>1, Harmless
    <3>2. Behind(a, JoinOf(walks[a].at)).phase # "execute"
      BY <1>1, BehindIsWalk
    <3> QED
      BY <2>2, <3>1, <3>2 DEF JoinBranches, Collect
  <2> QED
    BY <2>1, <2>2
<1>3. ASSUME NEW i \in Index, Append(a, i) \in DOMAIN walks PROVE walks[Append(a, i)].phase \in Returned
  <2>1. Under(Append(a, i), a) /\ Len(Append(a, i)) = Len(a) + 1
    BY <1>1, UnderChild
  <2>2. Append(a, i) \in Children(a)
    BY <1>1, <1>3, <2>1 DEF Children, Below, Under
  <2> QED
    BY <1>1, <2>2 DEF AllReturned
<1>4. \A b \in Below(a) : walks[b].phase # "execute"
  BY <1>3, BelowReturned DEF NInv, Returned
<1>5. Tree' /\ SameExecutions
  BY <1>1, <1>2, <1>4, SomeEnd, EndExecutes DEF NInv
<1> QED
  BY <1>1, <1>5, AccountsStay DEF NInv

\* Below a loop whose body has returned there is only the body.
LEMMA BodyIsAlone ==
    ASSUME Tree, NEW a \in DOMAIN walks, walks[a].phase = "loop",
           Append(a, 1) \in DOMAIN walks, walks[Append(a, 1)].phase \in Returned
    PROVE  Below(a) = {Append(a, 1)}
<1> DEFINE body == Append(a, 1)
<1>1. a \in Seq(Index)
  BY DEF Tree
<1>2. ASSUME NEW b \in DOMAIN walks, Under(b, a)
      PROVE  b[Len(a) + 1] = 1
  BY <1>1, <1>2 DEF Tree
<1>3. ASSUME NEW i \in Index, Append(a, i) \in DOMAIN walks PROVE walks[Append(a, i)].phase \in Returned
  <2>1. Under(Append(a, i), a) /\ Append(a, i)[Len(a) + 1] = i
    BY <1>1, UnderChild
  <2> QED
    BY <1>1, <1>2, <1>3, <2>1
<1>4. ASSUME NEW b \in Below(a) PROVE b = body
  <2>1. b = Append(a, b[Len(a) + 1])
    BY <1>3, BelowReturned
  <2>2. b[Len(a) + 1] = 1
    BY <1>2 DEF Below, Under
  <2> QED
    BY <2>1, <2>2
<1>5. Under(body, a)
  BY <1>1, OneIsIndex, UnderChild
<1> QED
  BY <1>1, <1>4, <1>5 DEF Below, Under

LEMMA LoopLeftKeeps ==
    ASSUME NInv, NEW a \in DOMAIN walks, EndLoop(a) \/ LeaveLoop(a)
    PROVE  Tree' /\ Accounted'
<1> DEFINE body == Append(a, 1)
<1>1. /\ status = "running" /\ UNCHANGED <<status, results, begun>> /\ walks[a].phase = "loop"
      /\ body \in DOMAIN walks /\ walks[body].phase \in Returned
      /\ IsWalk(walks[a]) /\ a \in Seq(Index)
  BY DEF EndLoop, LeaveLoop, BodyReturned, Returned, NInv, IInv, WalkInv, Tree
<1>4. Below(a) = {body}
  BY <1>1, BodyIsAlone DEF NInv
<1>5. PICK w : walks' = [Without(walks, Below(a)) EXCEPT ![a] = w] /\ w.phase # "execute"
  <2>1. CASE EndLoop(a)
    <3>1. Behind(a, walks[a].at).phase # "execute"
      BY <1>1, BehindIsWalk
    <3> QED
      BY <2>1, <1>4, <3>1 DEF EndLoop
  <2>2. CASE LeaveLoop(a)
    <3> DEFINE w == [walks[a] EXCEPT !.phase = walks[body].phase]
    <3>1. w.phase = walks[body].phase
      BY <1>1, Harmless
    <3>2. a \in DOMAIN Without(walks, {body}) /\ Without(walks, {body})[a] = walks[a]
      <4>1. a # body
        BY <1>1
      <4> QED
        BY <4>1 DEF Without
    <3>3. walks' = [Without(walks, {body}) EXCEPT ![a] = w]
      BY <2>2, <3>2 DEF LeaveLoop
    <3> QED
      BY <1>1, <1>4, <3>1, <3>3 DEF Returned
  <2> QED
    BY <2>1, <2>2
<1>6. Tree' /\ SameExecutions
  BY <1>1, <1>4, <1>5, SomeEnd, EndExecutes DEF NInv, Returned
<1> QED
  BY <1>1, <1>6, AccountsStay DEF NInv

\* When the root has returned, it is the only walk.
LEMMA RootIsLast ==
    ASSUME Tree, << >> \in DOMAIN walks, walks[<< >>].phase \in Returned
    PROVE  DOMAIN walks = {<< >>}
<1> SUFFICES ASSUME NEW b \in DOMAIN walks, b # << >> PROVE FALSE
  OBVIOUS
<1>1. b \in Seq(Index) /\ << >> \in Seq(Index) /\ Len(b) > 0
  BY DEF Tree
<1>2. Under(b, << >>)
  <2>1. Len(<< >>) = 0 /\ Len(b) > 0 /\ \A i \in 1..0 : b[i] = << >>[i]
    BY <1>1
  <2> QED
    BY <1>1, <2>1, UnderByEntry
<1> QED
  BY <1>1, <1>2 DEF Tree, Returned

LEMMA NInvInit == Init => NInv
<1> SUFFICES ASSUME Init PROVE Tree /\ Accounted
  BY InitInv DEF NInv
<1>1. DOMAIN walks = {} /\ begun = {} /\ DOMAIN results = {}
  BY DEF Init, Nowhere
<1> QED
  BY <1>1 DEF Tree, Accounted

LEMMA NInvStep == NInv /\ [Next]_vars => NInv'
<1> SUFFICES ASSUME NInv, [Next]_vars PROVE Tree' /\ Accounted'
  BY StepInv DEF NInv
<1>1. CASE Start \/ Resume
  <2>1. PICK n, preload : Run(n, preload)
    BY <1>1 DEF Start, Resume
  <2>2. /\ status' = "running" /\ DOMAIN results' = {} /\ begun' = {} /\ DOMAIN walks' = {<< >>}
        /\ walks'[<< >>].phase = "enter"
    BY <2>1, EnteringIsWalk DEF Run, Nowhere
  <2>3. Tree'
    <3>1. << >> \in Seq(Index) /\ Len(<< >>) = 0
      OBVIOUS
    <3>2. \A a \in Seq(Index) : ~Under(<< >>, a)
      BY <3>1 DEF Under
    <3> QED
      BY <2>2, <3>1, <3>2 DEF Tree
  <2> QED
    BY <2>2, <2>3 DEF Accounted
<1>2. CASE Report
  <2>1. DOMAIN walks = {<< >>} /\ walks[<< >>].phase # "execute"
    BY <1>2, RootIsLast DEF NInv, Report, Returned
  <2>2. DOMAIN walks' = {} /\ UNCHANGED <<results, begun>>
    BY <1>2, <2>1 DEF Report, Without
  <2> QED
    BY <2>1, <2>2 DEF NInv, Tree, Accounted
<1>3. ASSUME NEW a \in DOMAIN walks, Move(a) PROVE Tree' /\ Accounted'
  BY <1>3, OneKeeps, StepKeeps, ForksKeep, LoopsKeep, JoinsKeep, LoopLeftKeeps DEF Move
<1>4. CASE UNCHANGED vars
  BY <1>4 DEF vars, NInv, Tree, Accounted
<1> QED
  BY <1>1, <1>2, <1>3, <1>4 DEF Next, Progress, Rest

\* A run that is reported has nothing under way, in any workflow: every step on which it called
\* execute has its result in the report, whatever failed or suspended beside it (executor.rs).
THEOREM ReportsAreComplete == Spec => []NothingAbandoned
<1>1. NInv => NothingAbandoned
  BY DEF NInv, Accounted, NothingAbandoned
<1> QED
  BY <1>1, NInvInit, NInvStep, PTL DEF Spec

-----------------------------------------------------------------------------
(* Walks stay in regions of their own, in a structured workflow.           *)

Nodes == DOMAIN Def.nodes

\* A walk bounded by what it was begun at, and the walks it waits for.
Placed ==
    \A a \in DOMAIN walks :
        /\ walks[a].at \in Nodes
        /\ walks[a].phase = "fork" => walks[a].at \in ParallelsIn(Def)
        /\ walks[a].phase \in {"execute", "fork", "loop"} => walks[a].at # walks[a].stop
        /\ walks[a].phase = "fork" => \A i \in DOMAIN Region[wf][walks[a].at] : Append(a, i) \in DOMAIN walks
        /\ \A i \in Index : Append(a, i) \in DOMAIN walks =>
              /\ i \in DOMAIN Region[wf][walks[a].at]
              /\ walks[Append(a, i)].stop = StopOf[wf][walks[a].at]

\* Whoever is below a walk is in the region of the branch it belongs to.
InRegion ==
    \A a, b \in DOMAIN walks : Under(b, a) =>
        walks[b].at = walks[b].stop \/ walks[b].at \in Region[wf][walks[a].at][b[Len(a) + 1]]

\* Whoever is in the body of a loop was sent there by a walk at the loop, for its present iteration.
InBody ==
    \A a \in DOMAIN walks : \A l \in LoopsIn(Def) : walks[a].at \in Body(l) =>
        \E b \in DOMAIN walks : /\ Under(a, b) /\ walks[b].phase = "loop" /\ walks[b].at = l
                                /\ walks[a].turn = walks[b].round

OffJoins ==
    \A a \in DOMAIN walks : \A p \in ParallelsIn(Def) : JoinOf(p) # NoNode => walks[a].at # JoinOf(p)

\* No stamp is of a later run.
Stamped ==
    /\ runs \in Nat
    /\ \A f \in {outputs, snapshot.outputs} :
          NoNode \notin DOMAIN f /\ \A n \in DOMAIN f : f[n].run \in Nat /\ f[n].run <= runs

\* A branch has its first step behind it, or is still there.
Passed ==
    \A a \in DOMAIN walks : walks[a].phase = "fork" /\ JoinOf(walks[a].at) # NoNode =>
        \A i \in DOMAIN Region[wf][walks[a].at] :
            LET c == walks[Append(a, i)]
                first == Starts[wf][walks[a].at][i]
            IN  \/ c.at = first /\ c.phase \in {"enter", "execute"}
                \/ c.phase = "halted"
                \/ first \in DOMAIN outputs
                \/ c.phase = "error" /\ first \in DOMAIN results

\* What the tables hold.
LEMMA Regions ==
    ASSUME wf \in DOMAIN Workflows
    PROVE  /\ Def = Workflows[wf] /\ Def = Compiled[wf] /\ NoNode \notin Nodes
           /\ DOMAIN Region[wf] = Nodes /\ DOMAIN Onward[wf] = Nodes
           /\ \A n \in Nodes :
                 /\ DOMAIN Region[wf][n] = DOMAIN Starts[wf][n]
                 /\ \A i \in DOMAIN Region[wf][n] : Region[wf][n][i] = Scope(Onward[wf], Starts[wf], Starts[wf][n][i], StopOf[wf][n])
           /\ \A n \in ParallelsIn(Def) :
                 n \in Nodes /\ n \notin LoopsIn(Def) /\ Starts[wf][n] = Forks(Def, n) /\ StopOf[wf][n] = JoinOf(n)
           /\ \A n \in LoopsIn(Def) :
                 n \in Nodes /\ n \notin ParallelsIn(Def) /\ Starts[wf][n] = <<Def.nodes[n].body>> /\ StopOf[wf][n] = n
<1>1. Def = Workflows[wf] /\ Def = Compiled[wf]
  BY DEF Def, Compiled
<1>2. NoNode \notin Nodes
  BY <1>1, WorkflowAssumption DEF Nodes
<1>3. DOMAIN Region[wf] = Nodes /\ DOMAIN Onward[wf] = Nodes
  BY <1>1 DEF Region, RegionsIn, Onward, OnwardIn, Nodes
<1>4. ASSUME NEW n \in Nodes
      PROVE  /\ DOMAIN Region[wf][n] = DOMAIN Starts[wf][n]
             /\ \A i \in DOMAIN Region[wf][n] : Region[wf][n][i] = Scope(Onward[wf], Starts[wf], Starts[wf][n][i], StopOf[wf][n])
  <2>1. Region[wf][n] = [i \in DOMAIN Starts[wf][n] |-> Scope(Onward[wf], Starts[wf], Starts[wf][n][i], StopOf[wf][n])]
    BY <1>1, <1>3, <1>4 DEF Region, RegionsIn, Nodes
  <2> QED
    BY <2>1
<1>5. ASSUME NEW n \in ParallelsIn(Def)
      PROVE  n \in Nodes /\ n \notin LoopsIn(Def) /\ Starts[wf][n] = Forks(Def, n) /\ StopOf[wf][n] = JoinOf(n)
  BY <1>1, <1>5 DEF ParallelsIn, LoopsIn, LoopKinds, Nodes, Starts, StartsIn, StopOf, StopsIn, JoinOf
<1>6. ASSUME NEW n \in LoopsIn(Def)
      PROVE  n \in Nodes /\ n \notin ParallelsIn(Def) /\ Starts[wf][n] = <<Def.nodes[n].body>> /\ StopOf[wf][n] = n
  BY <1>1, <1>6 DEF ParallelsIn, LoopsIn, LoopKinds, Nodes, Starts, StartsIn, StopOf, StopsIn
<1> QED
  BY <1>1, <1>2, <1>3, <1>4, <1>5, <1>6

\* A region holds what a walk in it can come to.
LEMMA RegionCloses ==
    ASSUME wf \in DOMAIN Workflows, Connected(wf), NEW n \in Nodes, NEW i \in DOMAIN Region[wf][n]
    PROVE  /\ Starts[wf][n][i] \in Region[wf][n][i] \union {StopOf[wf][n]}
           /\ StopOf[wf][n] \notin Region[wf][n][i] /\ Region[wf][n][i] \subseteq Nodes
           /\ \A m \in Region[wf][n][i] :
                 /\ Onward[wf][m] \subseteq Region[wf][n][i] \union {StopOf[wf][n]}
                 /\ \A k \in DOMAIN Starts[wf][m] : Starts[wf][m][k] \in Region[wf][n][i] \union {StopOf[wf][n]}
<1> DEFINE start == Starts[wf][n][i]
           stop == StopOf[wf][n]
           R == Region[wf][n][i]
           nodes == Nodes \ {stop}
           Closed(S) == /\ start \in S \union {stop}
                        /\ \A m \in S : /\ Onward[wf][m] \subseteq S \union {stop}
                                       /\ \A k \in DOMAIN Starts[wf][m] : Starts[wf][m][k] \in S \union {stop}
<1>1. R = {m \in nodes : \A S \in SUBSET nodes : Closed(S) => m \in S}
  <2>1. R = Scope(Onward[wf], Starts[wf], start, stop) /\ Nodes = DOMAIN Onward[wf]
    BY Regions DEF Nodes
  <2> QED
    BY <2>1 DEF Scope
<1>2. \A m \in Nodes : /\ Onward[wf][m] \subseteq Nodes
                       /\ \A k \in DOMAIN Starts[wf][m] : Starts[wf][m][k] \in Nodes
  BY Regions DEF Connected, Nodes
<1>3. start \in Nodes
  BY <1>2, Regions
<1> HIDE DEF start, stop, R
<1>4. start \in R \union {stop}
  BY <1>1, <1>3
<1>5. stop \notin R /\ R \subseteq Nodes
  BY <1>1
<1>6. ASSUME NEW m \in R
      PROVE  /\ Onward[wf][m] \subseteq R \union {stop}
             /\ \A k \in DOMAIN Starts[wf][m] : Starts[wf][m][k] \in R \union {stop}
  <2>1. m \in Nodes
    BY <1>5
  <2>2. ASSUME NEW t \in Onward[wf][m], t # stop PROVE t \in R
    <3>1. t \in nodes
      BY <1>2, <2>1, <2>2
    <3>2. ASSUME NEW S \in SUBSET nodes, Closed(S) PROVE t \in S
      BY <1>1, <1>6, <2>2, <3>2
    <3> QED
      BY <1>1, <3>1, <3>2
  <2>3. ASSUME NEW k \in DOMAIN Starts[wf][m], Starts[wf][m][k] # stop PROVE Starts[wf][m][k] \in R
    <3>1. Starts[wf][m][k] \in nodes
      BY <1>2, <2>1, <2>3
    <3>2. ASSUME NEW S \in SUBSET nodes, Closed(S) PROVE Starts[wf][m][k] \in S
      BY <1>1, <1>6, <2>3, <3>2
    <3> QED
      BY <1>1, <3>1, <3>2
  <2> QED
    BY <2>2, <2>3
<1> QED
  BY <1>4, <1>5, <1>6 DEF start, stop, R

LEMMA LeastNat ==
    ASSUME NEW T, T \subseteq Nat, T # {}
    PROVE  \E x \in T : \A y \in T : x <= y
<1> DEFINE R == OpToRel(<, Nat)
<1>1. IsWellFoundedOn(R, Nat)
  BY NatLessThanWellFounded
<1>2. \A x, y \in Nat : (<<y, x>> \in R) <=> y < x
  BY SMT DEF R, OpToRel
<1> HIDE DEF R
<1>3. PICK x \in T : \A y \in T : ~ (<<y, x>> \in R)
  BY <1>1, WFMin
<1>4. \A y \in T : x <= y
  <2> TAKE y \in T
  <2>1. ~ (<<y, x>> \in R) /\ x \in Nat /\ y \in Nat
    BY <1>3
  <2>2. ~ (y < x)
    BY <2>1, <1>2
  <2> QED
    BY <2>1, <2>2
<1> QED
  BY <1>4

\* Two walks neither of which is above the other are below different branches of a third.
LEMMA PathsPart ==
    ASSUME NEW a \in Seq(Index), NEW b \in Seq(Index), a # b, ~Under(a, b), ~Under(b, a)
    PROVE  \E p \in Seq(Index) : Under(a, p) /\ Under(b, p) /\ a[Len(p) + 1] # b[Len(p) + 1]
<1> DEFINE T == {i \in Nat : 1 <= i /\ i <= Len(a) /\ i <= Len(b) /\ a[i] # b[i]}
<1>1. T # {}
  <2> SUFFICES ASSUME T = {} PROVE FALSE
    OBVIOUS
  <2>1. \A i \in Nat : 1 <= i /\ i <= Len(a) /\ i <= Len(b) => a[i] = b[i]
    OBVIOUS
  <2>2. CASE Len(a) = Len(b)
    <3>1. \A i \in 1..Len(a) : a[i] = b[i]
      BY <2>1, <2>2
    <3> QED
      BY <2>2, <3>1, SeqEqual
  <2>3. CASE Len(a) > Len(b)
    <3>1. \A i \in 1..Len(b) : a[i] = b[i]
      BY <2>1, <2>3
    <3> QED
      BY <2>3, <3>1, UnderByEntry
  <2>4. CASE Len(b) > Len(a)
    <3>1. \A i \in 1..Len(a) : b[i] = a[i]
      BY <2>1, <2>4
    <3> QED
      BY <2>4, <3>1, UnderByEntry
  <2> QED
    BY <2>2, <2>3, <2>4
<1>2. PICK i \in T : \A j \in T : i <= j
  BY <1>1, LeastNat
<1> DEFINE p == SubSeq(a, 1, i - 1)
<1>3. i \in Nat /\ 1 <= i /\ i <= Len(a) /\ i <= Len(b) /\ a[i] # b[i]
  OBVIOUS
<1>4. p \in Seq(Index) /\ Len(p) = i - 1 /\ \A j \in 1..Len(p) : p[j] = a[j]
  BY <1>3
<1>5. \A j \in 1..Len(p) : p[j] = b[j]
  <2> TAKE j \in 1..Len(p)
  <2>1. j \in Nat /\ 1 <= j /\ j < i /\ j <= Len(a) /\ j <= Len(b)
    BY <1>3, <1>4
  <2>2. j \notin T
    BY <1>2, <2>1
  <2> QED
    BY <1>4, <2>1, <2>2
<1> HIDE DEF p
<1>6. Under(a, p) /\ Under(b, p)
  BY <1>3, <1>4, <1>5, UnderByEntry
<1> QED
  BY <1>3, <1>4, <1>6

\* Between a walk and one above it is the parent of the former.
LEMMA Parent ==
    ASSUME NEW a \in Seq(Index), NEW p \in Seq(Index), Under(a, p)
    PROVE  \E q \in Seq(Index), j \in Index :
              /\ a = Append(q, j) /\ (q = p \/ Under(q, p))
              /\ a[Len(q) + 1] = j /\ (Under(q, p) => q[Len(p) + 1] = a[Len(p) + 1])
<1>1. Len(a) > Len(p) /\ Len(a) \in Nat /\ Len(p) \in Nat
  BY UnderByEntry
<1> DEFINE q == SubSeq(a, 1, Len(a) - 1)
           j == a[Len(a)]
<1>2. q \in Seq(Index) /\ Len(q) = Len(a) - 1 /\ (\A i \in 1..Len(q) : q[i] = a[i]) /\ j \in Index
  <2> DEFINE m == Len(a) - 1
  <2>1. m \in Nat /\ m <= Len(a) /\ Len(a) \in 1..Len(a)
    BY <1>1
  <2> HIDE DEF m
  <2>2. SubSeq(a, 1, m) \in Seq(Index) /\ Len(SubSeq(a, 1, m)) = m /\ \A i \in 1..m : SubSeq(a, 1, m)[i] = a[i]
    BY <2>1
  <2>3. j \in Index
    BY <2>1
  <2> QED
    BY <2>2, <2>3 DEF m
<1>l. j = a[Len(a)]
  OBVIOUS
<1> HIDE DEF q, j
<1>3. Append(q, j) \in Seq(Index) /\ Len(Append(q, j)) = Len(a) /\ \A i \in 1..Len(a) : Append(q, j)[i] = a[i]
  BY <1>1, <1>2, <1>l
<1>4. a = Append(q, j)
  BY <1>3, SeqEqual
<1>5. q = p \/ Under(q, p)
  BY <1>2, <1>4, UnderChild
<1>6. Under(q, p) => q[Len(p) + 1] = a[Len(p) + 1]
  <2>1. Under(q, p) => Len(p) + 1 \in 1..Len(q)
    BY <1>1, <1>2, UnderByEntry
  <2> QED
    BY <1>2, <2>1
<1> QED
  BY <1>1, <1>2, <1>l, <1>4, <1>5, <1>6

LEMMA ChildIsUnder ==
    ASSUME NEW a \in Seq(Index), NEW i \in Index
    PROVE  /\ Append(a, i) \in Seq(Index) /\ Under(Append(a, i), a) /\ Append(a, i)[Len(a) + 1] = i
           /\ Append(a, i) # a /\ ~Under(a, Append(a, i)) /\ Len(Append(a, i)) = Len(a) + 1 /\ ~Under(a, a)
<1>1. /\ Append(a, i) \in Seq(Index) /\ Append(a, i)[Len(a) + 1] = i /\ Len(Append(a, i)) = Len(a) + 1
      /\ Append(a, i) # a /\ Len(a) \in Nat
  OBVIOUS
<1>2. Under(Append(a, i), a)
  BY UnderChild
<1>3. \A b : Under(a, b) => Len(a) > Len(b)
  BY DEF Under
<1>4. ~(Len(a) > Len(Append(a, i))) /\ ~(Len(a) > Len(a))
  BY <1>1
<1> QED
  BY <1>1, <1>2, <1>3, <1>4

\* Branches are numbered by the index set.
LEMMA StartIsIndex ==
    ASSUME wf \in DOMAIN Workflows, NEW n \in Nodes, NEW i \in DOMAIN Region[wf][n]
    PROVE  i \in Index /\ (n \in ParallelsIn(Def) \/ (n \in LoopsIn(Def) /\ i = 1))
<1>1. i \in DOMAIN Starts[wf][n] /\ Def = Workflows[wf]
  BY Regions
<1>2. CASE n \in ParallelsIn(Def)
  <2>1. i \in DOMAIN Forks(Workflows[wf], n) /\ n \in DOMAIN Workflows[wf].nodes
    BY <1>1, <1>2, Regions DEF Nodes
  <2> QED
    BY <1>2, <2>1 DEF Index
<1>3. CASE n \in LoopsIn(Def)
  BY <1>1, <1>3, Regions, OneIsIndex
<1>4. CASE n \notin ParallelsIn(Def) /\ n \notin LoopsIn(Def)
  <2>1. Starts[wf][n] = << >>
    BY <1>1, <1>4 DEF Starts, StartsIn, Nodes
  <2> QED
    BY <1>1, <2>1
<1> QED
  BY <1>2, <1>3, <1>4

\* No two walks are at one loop.
LEMMA Alone ==
    ASSUME IInv, Tree, Structured(wf), Placed, InRegion, NEW a \in DOMAIN walks, NEW b \in DOMAIN walks,
           walks[a].at = walks[b].at, walks[a].at \in LoopsIn(Def),
           walks[a].at # walks[a].stop, walks[b].at # walks[b].stop
    PROVE  a = b
<1>1. wf \in DOMAIN Workflows /\ Connected(wf) /\ LoopsAreOwned(wf) /\ a \in Seq(Index) /\ b \in Seq(Index)
  BY DEF IInv, Tree, Structured
<1>2. ASSUME NEW c \in DOMAIN walks, NEW d \in DOMAIN walks, Under(c, d), walks[c].at = walks[d].at,
             walks[c].at \in LoopsIn(Def), walks[c].at # walks[c].stop
      PROVE  FALSE
  <2> DEFINE n == walks[d].at
             i == c[Len(d) + 1]
  <2>1. n \in Nodes /\ walks[c].at \in Region[wf][n][i]
    BY <1>2 DEF Placed, InRegion
  <2>2. d \in Seq(Index) /\ c \in Seq(Index)
    BY DEF Tree
  <2>3. walks[d].phase \in {"fork", "loop"} /\ (walks[d].phase = "loop" => i = 1)
    BY <1>2, <2>2 DEF Tree
  <2>4. n \notin ParallelsIn(Def) /\ StopOf[wf][n] = n /\ DOMAIN Region[wf][n] = {1}
    BY <1>1, <1>2, <2>1, Regions
  <2>5. i \in DOMAIN Region[wf][n]
    BY <2>3, <2>4 DEF Placed
  <2>6. n \notin Region[wf][n][i]
    BY <1>1, <2>1, <2>4, <2>5, RegionCloses
  <2> QED
    BY <1>2, <2>1, <2>6
<1> SUFFICES ASSUME a # b PROVE FALSE
  OBVIOUS
<1>3. ~Under(a, b) /\ ~Under(b, a)
  BY <1>2
<1>4. PICK p \in Seq(Index) : Under(a, p) /\ Under(b, p) /\ a[Len(p) + 1] # b[Len(p) + 1]
  BY <1>1, <1>3, PathsPart
<1> DEFINE n == walks[p].at
           i == a[Len(p) + 1]
           k == b[Len(p) + 1]
           R == Region[wf][n]
<1>5. p \in DOMAIN walks /\ n \in Nodes /\ walks[p].phase = "fork" /\ n \in ParallelsIn(Def)
  BY <1>4 DEF Tree, Placed
<1>6. walks[a].at \in R[i] /\ walks[b].at \in R[k]
  BY <1>4, <1>5 DEF InRegion
<1>7. i \in DOMAIN R /\ k \in DOMAIN R
  <2>1. ASSUME NEW c \in DOMAIN walks, Under(c, p) PROVE c[Len(p) + 1] \in DOMAIN R
    <3>1. c \in Seq(Index)
      BY DEF Tree
    <3> DEFINE d == Append(p, c[Len(p) + 1])
    <3>2. d \in Seq(Index) /\ (c = d \/ Under(c, d))
      BY <2>1, <3>1, ChildBetween
    <3>3. d \in DOMAIN walks
      BY <2>1, <3>1, <3>2 DEF Tree
    <3>4. c[Len(p) + 1] \in Index
      <4>1. Len(p) + 1 \in 1..Len(c)
        BY <2>1, <3>1, UnderByEntry
      <4> QED
        BY <3>1, <4>1
    <3> QED
      BY <1>5, <3>3, <3>4 DEF Placed
  <2> QED
    BY <1>4, <2>1
<1>8. n \in DOMAIN Region[wf] /\ Def = Compiled[wf]
  BY <1>1, <1>5, Regions
<1> HIDE DEF n, i, k
<1> QED
  BY <1>1, <1>4, <1>6, <1>7, <1>8 DEF LoopsAreOwned, n, i, k

\* Where a walk may go on.
LEMMA OnwardIs ==
    ASSUME wf \in DOMAIN Workflows, NEW n \in Nodes
    PROVE  /\ n \notin ParallelsIn(Def) /\ ThenOf(Def, n) # NoNode => ThenOf(Def, n) \in Onward[wf][n]
           /\ n \in ParallelsIn(Def) /\ JoinOf(n) # NoNode /\ ThenOf(Def, JoinOf(n)) # NoNode =>
                 ThenOf(Def, JoinOf(n)) \in Onward[wf][n]
           /\ Def.nodes[n].kind = "branch" =>
                 \A i \in DOMAIN Outgoing(Def, n, "when") : Outgoing(Def, n, "when")[i].to \in Onward[wf][n]
<1> DEFINE last == IF n \in ParallelsIn(Def) THEN JoinOf(n) ELSE n
           arms == IF Def.nodes[n].kind = "branch" THEN Outgoing(Def, n, "when") ELSE << >>
<1>1. Onward[wf][n] = {m \in {ThenOf(Def, last)} \ {NoNode} : last # NoNode} \union {arms[i].to : i \in DOMAIN arms}
  BY Regions DEF Onward, OnwardIn, Nodes, JoinOf
<1>2. NoNode \notin Nodes
  BY Regions
<1> QED
  BY <1>1, <1>2

\* the node behind which a walk that has entered n goes on
Last(n) == IF n \in ParallelsIn(Def) THEN JoinOf(n) ELSE n

\* Without arms there is at most one.
LEMMA OnwardOnly ==
    ASSUME wf \in DOMAIN Workflows, NEW n \in Nodes, Def.nodes[n].kind # "branch", NEW m \in Onward[wf][n]
    PROVE  m # NoNode /\ m = ThenOf(Def, Last(n)) /\ Last(n) # NoNode
<1> DEFINE last == IF n \in ParallelsIn(Def) THEN JoinOf(n) ELSE n
           arms == IF Def.nodes[n].kind = "branch" THEN Outgoing(Def, n, "when") ELSE << >>
<1>1. Onward[wf][n] = {k \in {ThenOf(Def, last)} \ {NoNode} : last # NoNode} \union {arms[i].to : i \in DOMAIN arms}
  BY Regions DEF Onward, OnwardIn, Nodes, JoinOf
<1>2. arms = << >>
  OBVIOUS
<1> QED
  BY <1>1, <1>2 DEF Last

\* Walk a goes on as w, and the walks below it, all of them returned, are dropped.
Advances(a, w) ==
    /\ status = "running" /\ UNCHANGED <<wf, status, runs, snapshot>>
    /\ walks[a].phase \notin Returned /\ \A b \in Below(a) : walks[b].phase \in Returned
    /\ DOMAIN walks' = DOMAIN walks \ Below(a) /\ walks'[a] = w
    /\ \A b \in DOMAIN walks' : b # a => walks'[b] = walks[b]
    /\ w.stop = walks[a].stop /\ w.turn = walks[a].turn
    /\ \/ w.at = walks[a].at /\ w.phase \in {"value", "halted", "error"}
       \/ w.at = walks[a].at /\ w.phase = "execute" /\ walks[a].phase = "enter" /\ w.at # w.stop
       \/ w.at \in Onward[wf][walks[a].at] /\ w.phase = "enter" /\ walks[a].at # w.stop
    /\ DOMAIN results \subseteq DOMAIN results'
    /\ \/ outputs' = outputs
       \/ outputs' = Assign(outputs, walks[a].at, Stamp(a))
       \/ /\ walks[a].phase = "fork" /\ JoinOf(walks[a].at) # NoNode /\ Deciding(a) = {} /\ AllReturned(a)
          /\ outputs' = Assign(outputs, JoinOf(walks[a].at), Stamp(a))
    /\ walks[a].phase \in {"enter", "execute"} /\ walks[a].at \in Steps /\ walks[a].at # w.stop =>
          \/ w.phase \in {"execute", "halted"} \/ walks[a].at \in DOMAIN outputs'
          \/ w.phase = "error" /\ walks[a].at \in DOMAIN results'

LEMMA PhaseOnly ==
    ASSUME NEW w, IsWalk(w), NEW phase
    PROVE  LET v == [w EXCEPT !.phase = phase] IN
           v.phase = phase /\ v.at = w.at /\ v.stop = w.stop /\ v.turn = w.turn
BY DEF IsWalk

LEMMA EnteringIs ==
    \A n, s, t : LET v == Entering(n, s, t) IN v.at = n /\ v.stop = s /\ v.turn = t /\ v.phase = "enter"
BY DEF Entering

LEMMA BehindIs ==
    ASSUME NEW a, NEW n, IsWalk(walks[a])
    PROVE  LET v == Behind(a, n) IN
           /\ v.stop = walks[a].stop /\ v.turn = walks[a].turn
           /\ \/ v.at = walks[a].at /\ v.phase = "value"
              \/ v.at = ThenOf(Def, n) /\ ThenOf(Def, n) # NoNode /\ v.phase = "enter"
<1>1. CASE ThenOf(Def, n) # NoNode /\ ThenOf(Def, n) # walks[a].stop
  <2>1. Behind(a, n) = Entering(ThenOf(Def, n), walks[a].stop, walks[a].turn)
    BY <1>1 DEF Behind
  <2> QED
    BY <1>1, <2>1, EnteringIs
<1>2. CASE ~(ThenOf(Def, n) # NoNode /\ ThenOf(Def, n) # walks[a].stop)
  <2>1. Behind(a, n) = [walks[a] EXCEPT !.phase = "value"]
    BY <1>2 DEF Behind
  <2> QED
    BY <2>1, PhaseOnly
<1> QED
  BY <1>1, <1>2

\* Nobody is below a walk that does not wait.
LEMMA LeafIsAlone ==
    ASSUME Tree, NEW a \in DOMAIN walks, walks[a].phase \notin {"fork", "loop"}
    PROVE  Below(a) = {}
BY DEF Tree, Below, Under

LEMMA PlainForms ==
    ASSUME NInv, NEW a \in DOMAIN walks,
           \/ ArriveAtStop(a) \/ Halt(a) \/ Replay(a) \/ BeginStep(a) \/ PassThrough(a) \/ EmptyLoop(a)
           \/ FallThrough(a) \/ LoopRejects(a) \/ TakeArm(a)
    PROVE  \E w : Advances(a, w)
<1> DEFINE n == walks[a].at
<1>1. /\ status = "running" /\ UNCHANGED <<wf, status, runs, snapshot, results>> /\ walks[a].phase = "enter"
      /\ wf \in DOMAIN Workflows /\ IsWalk(walks[a])
  BY DEF ArriveAtStop, Halt, Replay, BeginStep, PassThrough, EmptyLoop, FallThrough, LoopRejects, TakeArm,
         Enters, AboutToEnter, NInv, IInv, WalkInv
<1>2. Below(a) = {} /\ walks[a].phase \notin Returned
  BY <1>1, LeafIsAlone DEF NInv, Returned
<1>3. ASSUME NEW w, walks' = [walks EXCEPT ![a] = w]
      PROVE  /\ DOMAIN walks' = DOMAIN walks \ Below(a) /\ walks'[a] = w
             /\ \A b \in DOMAIN walks' : b # a => walks'[b] = walks[b]
  BY <1>2, <1>3
<1>4. ASSUME NEW phase \in {"value", "halted", "error", "execute"}, SetPhase(a, phase), outputs' = outputs,
             phase = "execute" => n # walks[a].stop,
             n \in Steps /\ n # walks[a].stop => phase \in {"execute", "halted"}
      PROVE  \E w : Advances(a, w)
  <2> DEFINE w == [walks[a] EXCEPT !.phase = phase]
  <2>1. w.phase = phase /\ w.at = n /\ w.stop = walks[a].stop /\ w.turn = walks[a].turn
    BY <1>1, PhaseOnly
  <2>2. walks' = [walks EXCEPT ![a] = w]
    BY <1>4 DEF SetPhase
  <2> HIDE DEF w
  <2>3. Advances(a, w)
    BY <1>1, <1>2, <1>3, <1>4, <2>1, <2>2 DEF Advances
  <2> QED
    BY <2>3
<1>5. ASSUME n \in Nodes, n \notin ParallelsIn(Def), Set(a, Behind(a, n)), n # walks[a].stop,
             \/ outputs' = outputs /\ n \in DOMAIN outputs
             \/ outputs' = Assign(outputs, n, Stamp(a))
      PROVE  \E w : Advances(a, w)
  <2> DEFINE w == Behind(a, n)
  <2>1. /\ w.stop = walks[a].stop /\ w.turn = walks[a].turn
        /\ \/ w.at = n /\ w.phase = "value"
           \/ w.at = ThenOf(Def, n) /\ ThenOf(Def, n) # NoNode /\ w.phase = "enter"
    BY <1>1, BehindIs
  <2>2. walks' = [walks EXCEPT ![a] = w] /\ n \in DOMAIN outputs'
    BY <1>5 DEF Set, Assign
  <2>3. ThenOf(Def, n) # NoNode => ThenOf(Def, n) \in Onward[wf][n]
    BY <1>1, <1>5, OnwardIs
  <2> HIDE DEF w
  <2>4. Advances(a, w)
    BY <1>1, <1>2, <1>3, <1>5, <2>1, <2>2, <2>3 DEF Advances
  <2> QED
    BY <2>4
<1>6. CASE ArriveAtStop(a)
  BY <1>4, <1>6 DEF ArriveAtStop
<1>7. CASE Halt(a)
  BY <1>4, <1>7 DEF Halt
<1>8. CASE BeginStep(a)
  BY <1>4, <1>8 DEF BeginStep, Enters
<1>9. CASE FallThrough(a)
  BY <1>4, <1>9 DEF FallThrough, Enters, Steps
<1>10. CASE LoopRejects(a)
  BY <1>4, <1>10 DEF LoopRejects, Enters, Steps
<1>11. CASE Replay(a)
  BY <1>5, <1>11 DEF Replay, Enters, Memoized, ParallelsIn, Nodes
<1>12. CASE PassThrough(a) \/ EmptyLoop(a)
  <2>1. /\ n \in Nodes /\ Def.nodes[n].kind \in {"map", "foreach"} \union JoinKinds /\ n # walks[a].stop
        /\ Complete(a, n)
    BY <1>12 DEF PassThrough, EmptyLoop, Enters, Nodes
  <2> QED
    BY <1>5, <2>1 DEF Complete, ParallelsIn, JoinKinds
<1>13. CASE TakeArm(a)
  <2>1. n \in Nodes /\ Def.nodes[n].kind = "branch" /\ n # walks[a].stop /\ outputs' = outputs
    BY <1>13 DEF TakeArm, Enters, Nodes
  <2>2. PICK m : /\ Set(a, Entering(m, walks[a].stop, walks[a].turn))
                 /\ \/ \E i \in DOMAIN Outgoing(Def, n, "when") : m = Outgoing(Def, n, "when")[i].to
                    \/ m = ThenOf(Def, n) /\ m # NoNode
    BY <1>13 DEF TakeArm
  <2>3. m \in Onward[wf][n] /\ n \notin Steps
    BY <1>1, <2>1, <2>2, OnwardIs DEF ParallelsIn, Steps
  <2> DEFINE w == Entering(m, walks[a].stop, walks[a].turn)
  <2>4. w.at = m /\ w.stop = walks[a].stop /\ w.turn = walks[a].turn /\ w.phase = "enter"
    BY EnteringIs
  <2>5. walks' = [walks EXCEPT ![a] = w]
    BY <2>2 DEF Set
  <2> HIDE DEF w
  <2>6. Advances(a, w)
    BY <1>1, <1>2, <1>3, <2>1, <2>3, <2>4, <2>5 DEF Advances
  <2> QED
    BY <2>6
<1> QED
  BY <1>6, <1>7, <1>8, <1>9, <1>10, <1>11, <1>12, <1>13

LEMMA OutcomeForms ==
    ASSUME NInv, Placed, NEW a \in DOMAIN walks, StepDone(a) \/ StepSuspends(a) \/ StepFails(a)
    PROVE  \E w : Advances(a, w)
<1> DEFINE n == walks[a].at
<1>1. /\ status = "running" /\ UNCHANGED <<wf, status, runs, snapshot>> /\ walks[a].phase = "execute"
      /\ wf \in DOMAIN Workflows /\ IsWalk(walks[a]) /\ n \in Steps /\ n \in Nodes /\ n \notin ParallelsIn(Def)
  BY DEF StepDone, StepSuspends, StepFails, Executing, NInv, IInv, WalkInv, Steps, Nodes, ParallelsIn
<1>2. Below(a) = {} /\ walks[a].phase \notin Returned /\ n # walks[a].stop
  BY <1>1, LeafIsAlone DEF NInv, Returned, Placed
<1>3. PICK w, r : /\ walks' = [walks EXCEPT ![a] = w] /\ results' = Assign(results, n, r)
                  /\ w.stop = walks[a].stop /\ w.turn = walks[a].turn
                  /\ \/ w.at = n /\ w.phase = "value" /\ outputs' = Assign(outputs, n, Stamp(a))
                     \/ /\ w.at \in Onward[wf][n] /\ w.phase = "enter"
                        /\ outputs' = Assign(outputs, n, Stamp(a))
                     \/ w.at = n /\ w.phase \in {"halted", "error"} /\ outputs' = outputs
  <2>1. CASE StepDone(a)
    <3>1. /\ walks' = [walks EXCEPT ![a] = Behind(a, n)] /\ results' = Assign(results, n, "success")
          /\ outputs' = Assign(outputs, n, Stamp(a))
      BY <2>1 DEF StepDone, Complete, Set
    <3>2. ThenOf(Def, n) # NoNode => ThenOf(Def, n) \in Onward[wf][n]
      BY <1>1, OnwardIs
    <3>3. LET v == Behind(a, n) IN
          /\ v.stop = walks[a].stop /\ v.turn = walks[a].turn
          /\ \/ v.at = n /\ v.phase = "value"
             \/ v.at = ThenOf(Def, n) /\ ThenOf(Def, n) # NoNode /\ v.phase = "enter"
      BY <1>1, BehindIs
    <3> QED
      BY <3>1, <3>2, <3>3
  <2>2. CASE StepSuspends(a)
    <3> DEFINE v == [walks[a] EXCEPT !.phase = "halted"]
    <3>1. v.phase = "halted" /\ v.at = n /\ v.stop = walks[a].stop /\ v.turn = walks[a].turn
      BY <1>1, PhaseOnly
    <3>2. walks' = [walks EXCEPT ![a] = v] /\ results' = Assign(results, n, "suspended") /\ outputs' = outputs
      BY <2>2 DEF StepSuspends, SetPhase
    <3> QED
      BY <3>1, <3>2
  <2>3. CASE StepFails(a)
    <3> DEFINE v == [walks[a] EXCEPT !.phase = "error"]
    <3>1. v.phase = "error" /\ v.at = n /\ v.stop = walks[a].stop /\ v.turn = walks[a].turn
      BY <1>1, PhaseOnly
    <3>2. walks' = [walks EXCEPT ![a] = v] /\ results' = Assign(results, n, "failed") /\ outputs' = outputs
      BY <2>3 DEF StepFails, SetPhase
    <3> QED
      BY <3>1, <3>2
  <2> QED
    BY <2>1, <2>2, <2>3
<1>4. n \in DOMAIN results' /\ DOMAIN results \subseteq DOMAIN results'
      /\ (outputs' = Assign(outputs, n, Stamp(a)) => n \in DOMAIN outputs')
  BY <1>3 DEF Assign
<1>5. Advances(a, w)
  BY <1>1, <1>2, <1>3, <1>4 DEF Advances
<1> QED
  BY <1>5

\* A walk whose branches or body have returned.
LEMMA WaitForms ==
    ASSUME NInv, Placed, NEW a \in DOMAIN walks, JoinGivesUp(a) \/ JoinBranches(a) \/ EndLoop(a) \/ LeaveLoop(a)
    PROVE  \E w : Advances(a, w)
<1> DEFINE n == walks[a].at
           join == JoinOf(n)
<1>1. /\ status = "running" /\ UNCHANGED <<wf, status, runs, snapshot, results>>
      /\ walks[a].phase \in {"fork", "loop"}
      /\ wf \in DOMAIN Workflows /\ IsWalk(walks[a]) /\ a \in Seq(Index)
  BY DEF JoinGivesUp, JoinBranches, EndLoop, LeaveLoop, BodyReturned, Collect, NInv, IInv, WalkInv, Tree
<1>2. n \in Nodes /\ n # walks[a].stop /\ walks[a].phase \notin Returned
  BY <1>1 DEF Placed, Returned
<1>3. a \notin Below(a)
  BY <1>1 DEF Below
<1>4. ASSUME NEW w, NEW S, S = Below(a), walks' = [Without(walks, S) EXCEPT ![a] = w]
      PROVE  /\ DOMAIN walks' = DOMAIN walks \ Below(a) /\ walks'[a] = w
             /\ \A b \in DOMAIN walks' : b # a => walks'[b] = walks[b]
  BY <1>3, <1>4 DEF Without
<1>5. CASE JoinGivesUp(a) \/ JoinBranches(a)
  <2>1. AllReturned(a) /\ walks[a].phase = "fork" /\ n \in ParallelsIn(Def)
    BY <1>5 DEF JoinGivesUp, JoinBranches, Collect, Placed
  <2>2. \A b \in Below(a) : walks[b].phase \in Returned
    <3>1. ASSUME NEW i \in Index, Append(a, i) \in DOMAIN walks PROVE walks[Append(a, i)].phase \in Returned
      <4>1. Append(a, i) \in Children(a)
        BY <1>1, <3>1, ChildIsUnder DEF Children, Below, Under
      <4> QED
        BY <2>1, <4>1 DEF AllReturned
    <3> QED
      BY <3>1, BelowReturned DEF NInv
  <2>3. CASE JoinGivesUp(a)
    <3>1. PICK b \in Deciding(a) : Collect(a, [walks[a] EXCEPT !.phase = walks[b].phase])
      BY <2>3 DEF JoinGivesUp
    <3> DEFINE w == [walks[a] EXCEPT !.phase = walks[b].phase]
    <3>2. walks[b].phase \in {"halted", "error"}
      BY DEF Deciding, Decides
    <3>3. w.phase = walks[b].phase /\ w.at = n /\ w.stop = walks[a].stop /\ w.turn = walks[a].turn
      BY <1>1, PhaseOnly
    <3>4. walks' = [Without(walks, Below(a)) EXCEPT ![a] = w] /\ outputs' = outputs
      BY <2>3, <3>1 DEF Collect, JoinGivesUp
    <3> HIDE DEF w
    <3>5. Advances(a, w)
      BY <1>1, <1>2, <1>4, <2>2, <3>2, <3>3, <3>4 DEF Advances
    <3> QED
      BY <3>5
  <2>4. CASE JoinBranches(a) /\ join = NoNode
    <3> DEFINE w == [walks[a] EXCEPT !.phase = "value"]
    <3>1. w.phase = "value" /\ w.at = n /\ w.stop = walks[a].stop /\ w.turn = walks[a].turn
      BY <1>1, PhaseOnly
    <3>2. walks' = [Without(walks, Below(a)) EXCEPT ![a] = w] /\ outputs' = outputs
      BY <2>4 DEF Collect, JoinBranches
    <3> HIDE DEF w
    <3>3. Advances(a, w)
      BY <1>1, <1>2, <1>4, <2>1, <2>2, <3>1, <3>2 DEF Advances
    <3> QED
      BY <3>3
  <2>5. CASE JoinBranches(a) /\ join # NoNode
    <3> DEFINE w == Behind(a, join)
    <3>1. /\ w.stop = walks[a].stop /\ w.turn = walks[a].turn
          /\ \/ w.at = n /\ w.phase = "value"
             \/ w.at = ThenOf(Def, join) /\ ThenOf(Def, join) # NoNode /\ w.phase = "enter"
      BY <1>1, BehindIs
    <3>2. ThenOf(Def, join) # NoNode => ThenOf(Def, join) \in Onward[wf][n]
      BY <1>1, <1>2, <2>1, <2>5, OnwardIs
    <3>3. /\ walks' = [Without(walks, Below(a)) EXCEPT ![a] = w] /\ Deciding(a) = {}
          /\ outputs' = Assign(outputs, join, Stamp(a))
      BY <2>5 DEF Collect, JoinBranches
    <3> HIDE DEF w
    <3>4. Advances(a, w)
      BY <1>1, <1>2, <1>4, <2>1, <2>2, <2>5, <3>1, <3>2, <3>3 DEF Advances
    <3> QED
      BY <3>4
  <2> QED
    BY <1>5, <2>3, <2>4, <2>5
<1>6. CASE EndLoop(a) \/ LeaveLoop(a)
  <2> DEFINE body == Append(a, 1)
  <2>1. /\ walks[a].phase = "loop" /\ body \in DOMAIN walks /\ walks[body].phase \in Returned
        /\ n \notin ParallelsIn(Def)
    <3>1. walks[a].phase = "loop" /\ n \in LoopsIn(Def)
      BY <1>6 DEF EndLoop, LeaveLoop, BodyReturned, NInv, IInv, WalkInv
    <3> QED
      BY <1>1, <1>6, <3>1, Regions DEF EndLoop, LeaveLoop, BodyReturned, Returned
  <2>2. Below(a) = {body}
    BY <2>1, BodyIsAlone DEF NInv
  <2>3. CASE EndLoop(a)
    <3> DEFINE w == Behind(a, n)
    <3>1. /\ w.stop = walks[a].stop /\ w.turn = walks[a].turn
          /\ \/ w.at = n /\ w.phase = "value"
             \/ w.at = ThenOf(Def, n) /\ ThenOf(Def, n) # NoNode /\ w.phase = "enter"
      BY <1>1, BehindIs
    <3>2. ThenOf(Def, n) # NoNode => ThenOf(Def, n) \in Onward[wf][n]
      BY <1>1, <1>2, <2>1, OnwardIs
    <3>3. walks' = [Without(walks, Below(a)) EXCEPT ![a] = w] /\ outputs' = Assign(outputs, n, Stamp(a))
      BY <2>2, <2>3 DEF EndLoop
    <3> HIDE DEF w
    <3>4. Advances(a, w)
      BY <1>1, <1>2, <1>4, <2>1, <2>2, <3>1, <3>2, <3>3 DEF Advances
    <3> QED
      BY <3>4
  <2>4. CASE LeaveLoop(a)
    <3> DEFINE w == [walks[a] EXCEPT !.phase = walks[body].phase]
    <3>1. w.phase = walks[body].phase /\ w.at = n /\ w.stop = walks[a].stop /\ w.turn = walks[a].turn
      BY <1>1, PhaseOnly
    <3>2. a \in DOMAIN Without(walks, {body}) /\ Without(walks, {body})[a] = walks[a]
      BY <1>3, <2>2 DEF Without
    <3>3. /\ walks' = [Without(walks, Below(a)) EXCEPT ![a] = w] /\ outputs' = outputs
          /\ walks[body].phase \in {"halted", "error"}
      BY <2>2, <2>4, <3>2 DEF LeaveLoop, BodyReturned
    <3> HIDE DEF w
    <3>4. Advances(a, w)
      BY <1>1, <1>2, <1>4, <2>1, <2>2, <3>1, <3>3 DEF Advances
    <3> QED
      BY <3>4
  <2> QED
    BY <1>6, <2>3, <2>4
<1> QED
  BY <1>5, <1>6

Apart ==
    /\ Placed /\ InRegion /\ InBody /\ OffJoins /\ Stamped /\ Passed
    /\ IterationsStartClean /\ JoinsItsBranches

LEMMA SameTables ==
    ASSUME wf' = wf
    PROVE  /\ Def' = Def /\ Nodes' = Nodes /\ Steps' = Steps
           /\ LoopsIn(Def)' = LoopsIn(Def) /\ ParallelsIn(Def)' = ParallelsIn(Def)
           /\ \A n : JoinOf(n)' = JoinOf(n) /\ Body(n)' = Body(n)
BY DEF Def, Nodes, Steps, LoopsIn, ParallelsIn, JoinOf, Body

\* Who is left when a walk advances, and who waits for whom.
LEMMA Remaining ==
    ASSUME Tree, NEW a \in DOMAIN walks, NEW w, Advances(a, w)
    PROVE  /\ a \in DOMAIN walks' /\ a \in Seq(Index) /\ DOMAIN walks' \subseteq DOMAIN walks
           /\ \A c \in DOMAIN walks' : c \in Seq(Index) /\ ~Under(c, a)
           /\ \A b \in DOMAIN walks : walks[b].phase \in {"fork", "loop"} => b \in DOMAIN walks'
           /\ \A c \in DOMAIN walks', b \in Seq(Index) : Under(c, b) =>
                 /\ b \in DOMAIN walks' /\ b # a /\ b \in DOMAIN walks /\ walks'[b] = walks[b]
                 /\ walks[b].phase \in {"fork", "loop"}
<1>1. DOMAIN walks' = DOMAIN walks \ Below(a) /\ \A b \in Below(a) : walks[b].phase \in Returned
  BY DEF Advances
<1>2. Below(a) = {b \in DOMAIN walks : Under(b, a)}
  BY DEF Below, Under
<1>3. a \in Seq(Index) /\ ~Under(a, a)
  BY OneIsIndex, ChildIsUnder DEF Tree
<1>4. \A c \in DOMAIN walks' : c \in Seq(Index) /\ ~Under(c, a)
  BY <1>1, <1>2 DEF Tree
<1>5. \A b \in DOMAIN walks : walks[b].phase \in {"fork", "loop"} => b \in DOMAIN walks'
  BY <1>1 DEF Returned
<1>6. ASSUME NEW c \in DOMAIN walks', NEW b \in Seq(Index), Under(c, b)
      PROVE  /\ b \in DOMAIN walks' /\ b # a /\ b \in DOMAIN walks /\ walks'[b] = walks[b]
             /\ walks[b].phase \in {"fork", "loop"}
  <2>1. b \in DOMAIN walks /\ walks[b].phase \in {"fork", "loop"}
    BY <1>1, <1>6 DEF Tree
  <2>2. b \in DOMAIN walks' /\ b # a
    BY <2>1, <1>4, <1>5, <1>6
  <2> QED
    BY <2>1, <2>2 DEF Advances
<1> QED
  BY <1>1, <1>2, <1>3, <1>4, <1>5, <1>6

LEMMA AdvancePlaces ==
    ASSUME IInv, Tree, Connected(wf), Placed, NEW a \in DOMAIN walks, NEW w, Advances(a, w)
    PROVE  Placed'
<1>1. wf \in DOMAIN Workflows /\ wf' = wf /\ a \in Seq(Index)
  BY DEF IInv, Advances, Tree
<1>2. w.at \in Nodes
  <2>1. walks[a].at \in Nodes
    BY DEF Placed
  <2>2. Onward[wf][walks[a].at] \subseteq Nodes
    BY <1>1, <2>1, Regions DEF Connected, Nodes
  <2> QED
    BY <2>1, <2>2 DEF Advances
<1>3. w.phase \in {"value", "halted", "error", "execute", "enter"} /\ (w.phase = "execute" => w.at # w.stop)
      /\ w.stop = walks[a].stop
  BY DEF Advances
<1>4. \A i \in Index : Append(a, i) \notin DOMAIN walks'
  BY <1>1, Remaining, ChildIsUnder
<1>5. ASSUME NEW b \in DOMAIN walks', b # a
      PROVE  /\ walks'[b].at \in Nodes
             /\ walks'[b].phase = "fork" => walks'[b].at \in ParallelsIn(Def)
             /\ walks'[b].phase \in {"execute", "fork", "loop"} => walks'[b].at # walks'[b].stop
             /\ walks'[b].phase = "fork" =>
                   \A i \in DOMAIN Region[wf][walks'[b].at] : Append(b, i) \in DOMAIN walks'
             /\ \A i \in Index : Append(b, i) \in DOMAIN walks' =>
                   /\ i \in DOMAIN Region[wf][walks'[b].at]
                   /\ walks'[Append(b, i)].stop = StopOf[wf][walks'[b].at]
  <2>1. b \in DOMAIN walks /\ walks'[b] = walks[b] /\ b \in Seq(Index) /\ ~Under(b, a)
    BY <1>5, Remaining DEF Advances
  <2>2. ASSUME NEW i \in DOMAIN Region[wf][walks[b].at], walks[b].phase = "fork"
        PROVE  Append(b, i) \in DOMAIN walks'
    <3>1. i \in Index /\ Append(b, i) \in DOMAIN walks
      BY <1>1, <2>1, <2>2, StartIsIndex DEF Placed
    <3>2. ~Under(Append(b, i), a)
      BY <1>1, <1>5, <2>1, <3>1, UnderChild
    <3> QED
      BY <3>1, <3>2 DEF Advances, Below, Under
  <2>3. ASSUME NEW i \in Index, Append(b, i) \in DOMAIN walks'
        PROVE  /\ i \in DOMAIN Region[wf][walks[b].at]
               /\ walks'[Append(b, i)].stop = StopOf[wf][walks[b].at]
    <3>1. Append(b, i) \in DOMAIN walks
      BY <2>3, Remaining
    <3>2. i \in DOMAIN Region[wf][walks[b].at] /\ walks[Append(b, i)].stop = StopOf[wf][walks[b].at]
      BY <2>1, <2>3, <3>1 DEF Placed
    <3> QED
      BY <1>3, <2>3, <3>2 DEF Advances
  <2> QED
    BY <2>1, <2>2, <2>3 DEF Placed
<1>6. walks'[a] = w
  BY DEF Advances
<1> QED
  BY <1>1, <1>2, <1>3, <1>4, <1>5, <1>6, SameTables DEF Placed

LEMMA AdvanceInRegion ==
    ASSUME IInv, Tree, Connected(wf), Nested(wf), Placed, InRegion, NEW a \in DOMAIN walks, NEW w, Advances(a, w)
    PROVE  InRegion'
<1> SUFFICES ASSUME NEW p \in DOMAIN walks', NEW c \in DOMAIN walks', Under(c, p)
             PROVE  walks'[c].at = walks'[c].stop \/ walks'[c].at \in Region[wf][walks'[p].at][c[Len(p) + 1]]
  BY DEF InRegion, Advances
<1>1. /\ p \in DOMAIN walks /\ p # a /\ walks'[p] = walks[p] /\ walks[p].phase \in {"fork", "loop"}
      /\ p \in Seq(Index) /\ c \in Seq(Index) /\ c \in DOMAIN walks
  BY Remaining
<1>2. walks[c].at = walks[c].stop \/ walks[c].at \in Region[wf][walks[p].at][c[Len(p) + 1]]
  BY <1>1 DEF InRegion
<1>3. CASE c # a
  BY <1>1, <1>2, <1>3 DEF Advances
<1>4. CASE c = a /\ w.at = walks[a].at
  BY <1>1, <1>2, <1>4 DEF Advances
<1>5. CASE c = a /\ w.at # walks[a].at
  <2> DEFINE n == w.at
             m == walks[p].at
             i == c[Len(p) + 1]
  <2>1. /\ walks'[c] = w /\ n \in Onward[wf][walks[a].at] /\ walks[a].at # walks[a].stop
        /\ w.stop = walks[a].stop /\ wf \in DOMAIN Workflows
    BY <1>5 DEF Advances, IInv
  <2>2. PICK q \in Seq(Index), j \in Index :
           /\ a = Append(q, j) /\ (q = p \/ Under(q, p))
           /\ a[Len(q) + 1] = j /\ (Under(q, p) => q[Len(p) + 1] = a[Len(p) + 1])
    BY <1>1, <1>5, Parent
  <2> DEFINE k == walks[q].at
  <2>3. /\ q \in DOMAIN walks /\ walks[q].phase \in {"fork", "loop"} /\ Under(a, q)
        /\ k \in Nodes /\ k # walks[q].stop /\ j \in DOMAIN Region[wf][k] /\ walks[a].stop = StopOf[wf][k]
    <3>1. Under(a, q)
      BY <2>2, ChildIsUnder
    <3>2. q \in DOMAIN walks /\ walks[q].phase \in {"fork", "loop"}
      BY <2>2, <3>1 DEF Tree
    <3> QED
      BY <2>2, <3>1, <3>2 DEF Placed
  <2>4. walks[a].at \in Region[wf][k][j]
    BY <2>1, <2>2, <2>3 DEF InRegion
  <2>5. n \in Region[wf][k][j] \union {StopOf[wf][k]}
    BY <2>1, <2>3, <2>4, RegionCloses
  <2>6. CASE n = StopOf[wf][k]
    BY <2>1, <2>3, <2>6
  <2>7. CASE q = p /\ n # StopOf[wf][k]
    BY <1>1, <1>5, <2>1, <2>2, <2>5, <2>7
  <2>8. CASE Under(q, p) /\ n # StopOf[wf][k]
    <3>1. walks[a].at \in Region[wf][m][i] /\ k \in Region[wf][m][i]
      BY <1>1, <1>2, <1>5, <2>1, <2>2, <2>3, <2>8 DEF InRegion
    <3>2. i \in DOMAIN Region[wf][m] /\ m \in Nodes
      <4> DEFINE d == Append(p, q[Len(p) + 1])
      <4>1. d \in Seq(Index) /\ (a = d \/ Under(a, d)) /\ i \in Index
        <5>1. d \in Seq(Index) /\ (q = d \/ Under(q, d))
          BY <1>1, <2>2, <2>8, ChildBetween
        <5>2. a = d \/ Under(a, d)
          BY <1>5, <2>2, <2>8, <1>1, ChildBetween
        <5>3. Len(p) + 1 \in 1..Len(a)
          BY <1>1, <1>5, UnderByEntry
        <5> QED
          BY <1>1, <1>5, <5>1, <5>2, <5>3
      <4>2. d \in DOMAIN walks
        BY <1>1, <1>5, <4>1 DEF Tree
      <4> QED
        BY <1>1, <1>5, <2>2, <2>8, <4>1, <4>2 DEF Placed
    <3>3. n \in Region[wf][m][i] \union {StopOf[wf][m]}
      BY <2>1, <3>1, <3>2, RegionCloses
    <3>4. StopOf[wf][m] \notin Region[wf][k][j]
      BY <2>1, <2>3, <3>1, <3>2, Regions DEF Nested
    <3> QED
      BY <1>1, <2>1, <2>5, <2>8, <3>3, <3>4
  <2> QED
    BY <2>2, <2>6, <2>7, <2>8
<1> QED
  BY <1>3, <1>4, <1>5

LEMMA AdvanceMemo ==
    ASSUME NEW a \in DOMAIN walks, NEW w, Advances(a, w)
    PROVE  /\ DOMAIN outputs \subseteq DOMAIN outputs'
           /\ \A n \in DOMAIN outputs' :
                 \/ n \in DOMAIN outputs /\ outputs'[n] = outputs[n]
                 \/ outputs'[n] = Stamp(a) /\ n = walks[a].at
                 \/ /\ outputs'[n] = Stamp(a) /\ n = JoinOf(walks[a].at) /\ n # NoNode
                    /\ walks[a].phase = "fork" /\ Deciding(a) = {} /\ AllReturned(a)
BY DEF Advances, Assign

LEMMA AdvanceInBody ==
    ASSUME IInv, Tree, BodiesAreOwned(wf), Placed, InBody, NEW a \in DOMAIN walks, NEW w, Advances(a, w)
    PROVE  InBody'
<1>1. wf' = wf /\ wf \in DOMAIN Workflows /\ walks'[a] = w
  BY DEF Advances, IInv
<1> SUFFICES ASSUME NEW c \in DOMAIN walks', NEW l \in LoopsIn(Def), walks'[c].at \in Body(l)
             PROVE  \E b \in DOMAIN walks' : /\ Under(c, b) /\ walks'[b].phase = "loop" /\ walks'[b].at = l
                                             /\ walks'[c].turn = walks'[b].round
  BY <1>1, SameTables DEF InBody
<1>2. c \in DOMAIN walks /\ walks'[c].turn = walks[c].turn
  BY Remaining DEF Advances
<1>3. walks[c].at \in Body(l)
  <2>1. CASE walks'[c].at = walks[c].at
    BY <2>1
  <2>2. CASE walks'[c].at # walks[c].at
    <3>1. c = a /\ w.at \in Onward[wf][walks[a].at]
      BY <1>1, <2>2 DEF Advances
    <3>2. walks[a].at \in Nodes
      BY DEF Placed
    <3> QED
      BY <1>1, <3>1, <3>2, Regions DEF BodiesAreOwned, Body
  <2> QED
    BY <2>1, <2>2
<1>4. PICK b \in DOMAIN walks : /\ Under(c, b) /\ walks[b].phase = "loop" /\ walks[b].at = l
                                /\ walks[c].turn = walks[b].round
  BY <1>2, <1>3 DEF InBody
<1>5. b \in Seq(Index)
  BY DEF Tree
<1>6. b \in DOMAIN walks' /\ walks'[b] = walks[b]
  BY <1>4, <1>5, Remaining
<1> QED
  BY <1>2, <1>4, <1>6

LEMMA AdvanceOffJoins ==
    ASSUME IInv, Tree, JoinsAreOwned(wf), Placed, OffJoins, NEW a \in DOMAIN walks, NEW w, Advances(a, w)
    PROVE  OffJoins'
<1>1. wf' = wf /\ wf \in DOMAIN Workflows /\ walks'[a] = w /\ DOMAIN walks' \subseteq DOMAIN walks
  BY Remaining DEF Advances, IInv
<1> SUFFICES ASSUME NEW c \in DOMAIN walks', NEW p \in ParallelsIn(Def), JoinOf(p) # NoNode
             PROVE  walks'[c].at # JoinOf(p)
  BY <1>1, SameTables DEF OffJoins
<1>2. CASE walks'[c].at = walks[c].at
  BY <1>1, <1>2 DEF OffJoins
<1>3. CASE walks'[c].at # walks[c].at
  <2>1. c = a /\ w.at \in Onward[wf][walks[a].at]
    BY <1>1, <1>3 DEF Advances
  <2>2. walks[a].at \in Nodes
    BY DEF Placed
  <2> QED
    BY <1>1, <2>1, <2>2, Regions DEF JoinsAreOwned, JoinOf
<1> QED
  BY <1>2, <1>3

LEMMA AdvancePasses ==
    ASSUME IInv, Tree, JoinsAreOwned(wf), Placed, OffJoins, Passed, NEW a \in DOMAIN walks, NEW w, Advances(a, w)
    PROVE  Passed'
<1>1. wf' = wf /\ wf \in DOMAIN Workflows /\ walks'[a] = w
  BY DEF Advances, IInv
<1> SUFFICES ASSUME NEW b \in DOMAIN walks', walks'[b].phase = "fork", JoinOf(walks'[b].at) # NoNode,
                    NEW i \in DOMAIN Region[wf][walks'[b].at]
             PROVE  LET c == walks'[Append(b, i)]
                        first == Starts[wf][walks'[b].at][i]
                    IN  \/ c.at = first /\ c.phase \in {"enter", "execute"}
                        \/ c.phase = "halted"
                        \/ first \in DOMAIN outputs'
                        \/ c.phase = "error" /\ first \in DOMAIN results'
  BY <1>1, SameTables DEF Passed
<1>2. b # a
  BY <1>1 DEF Advances
<1>3. b \in DOMAIN walks /\ b \in Seq(Index) /\ walks'[b] = walks[b] /\ ~Under(b, a) /\ a \in Seq(Index)
  BY <1>2, Remaining DEF Advances
<1> DEFINE c == Append(b, i)
           p == walks[b].at
           first == Starts[wf][p][i]
<1>4. p \in ParallelsIn(Def) /\ p \in Nodes /\ i \in Index /\ c \in DOMAIN walks
  BY <1>1, <1>3, StartIsIndex DEF Placed
<1>5. c \in DOMAIN walks' /\ c \in Seq(Index)
  <2>1. ~Under(c, a) /\ c \in Seq(Index)
    BY <1>2, <1>3, <1>4, UnderChild, ChildIsUnder
  <2> QED
    BY <1>4, <2>1 DEF Advances, Below, Under
<1>6. \/ walks[c].at = first /\ walks[c].phase \in {"enter", "execute"}
      \/ walks[c].phase = "halted"
      \/ first \in DOMAIN outputs
      \/ walks[c].phase = "error" /\ first \in DOMAIN results
  BY <1>3, <1>4 DEF Passed
<1>7. DOMAIN outputs \subseteq DOMAIN outputs' /\ DOMAIN results \subseteq DOMAIN results'
  BY AdvanceMemo DEF Advances
<1>8. CASE c # a
  BY <1>3, <1>5, <1>6, <1>7, <1>8 DEF Advances
<1>9. CASE c = a
  <2>1. CASE first \in DOMAIN outputs
    BY <1>3, <1>7, <2>1
  <2>2. CASE walks[c].at = first /\ walks[c].phase \in {"enter", "execute"}
    <3>1. walks[a].stop = JoinOf(p) /\ JoinOf(p) # NoNode /\ walks[a].stop = w.stop
      <4>1. walks[c].stop = StopOf[wf][p]
        BY <1>3, <1>4 DEF Placed
      <4>2. StopOf[wf][p] = JoinOf(p)
        BY <1>1, <1>4, Regions
      <4>3. w.stop = walks[a].stop
        BY DEF Advances
      <4> QED
        BY <1>3, <1>9, <4>1, <4>2, <4>3
    <3>2. walks[a].at # w.stop
      BY <1>4, <3>1 DEF OffJoins
    <3>3. first \in Steps
      <4>1. i \in DOMAIN Starts[wf][p] /\ first \in Nodes
        <5>1. i \in DOMAIN Region[wf][p] /\ walks[c].at \in Nodes
          BY <1>3, <1>4 DEF Placed
        <5> QED
          BY <1>1, <1>4, <2>2, <5>1, Regions
      <4> QED
        BY <1>1, <1>3, <1>4, <4>1, Regions DEF JoinsAreOwned, JoinOf, Steps, Nodes
    <3> QED
      BY <1>1, <1>3, <1>9, <2>2, <3>2, <3>3 DEF Advances
  <2>3. walks[c].phase \notin {"halted", "error"}
    BY <1>9 DEF Advances, Returned
  <2> QED
    BY <1>6, <2>1, <2>2, <2>3
<1> QED
  BY <1>8, <1>9

LEMMA AdvanceStamps ==
    ASSUME IInv, Placed, Stamped, NEW a \in DOMAIN walks, NEW w, Advances(a, w)
    PROVE  Stamped'
<1>1. wf \in DOMAIN Workflows /\ UNCHANGED <<wf, runs, snapshot>>
  BY DEF Advances, IInv
<1>2. walks[a].at # NoNode
  BY <1>1, Regions DEF Placed
<1>3. Stamp(a).run = runs
  BY DEF Stamp
<1>4. ASSUME NEW n \in DOMAIN outputs'
      PROVE  n # NoNode /\ outputs'[n].run \in Nat /\ outputs'[n].run <= runs
  <2>1. CASE n \in DOMAIN outputs /\ outputs'[n] = outputs[n]
    BY <2>1 DEF Stamped
  <2>2. CASE outputs'[n] = Stamp(a) /\ n # NoNode
    BY <1>3, <2>2 DEF Stamped
  <2> QED
    BY <1>2, <1>4, <2>1, <2>2, AdvanceMemo
<1>5. /\ NoNode \notin DOMAIN snapshot.outputs
      /\ \A n \in DOMAIN snapshot.outputs : snapshot.outputs[n].run \in Nat /\ snapshot.outputs[n].run <= runs
  BY DEF Stamped
<1>6. runs \in Nat
  BY DEF Stamped
<1> QED
  BY <1>1, <1>4, <1>5, <1>6 DEF Stamped

\* What a walk completes in the body of a loop belongs to the iteration under way.
LEMMA AdvanceIsClean ==
    ASSUME IInv, Tree, Structured(wf), Apart, NEW a \in DOMAIN walks, NEW w, Advances(a, w)
    PROVE  IterationsStartClean'
<1>1. wf \in DOMAIN Workflows /\ UNCHANGED <<wf, runs>> /\ walks'[a] = w /\ w.phase # "loop"
  BY DEF Advances, IInv
<1> SUFFICES ASSUME NEW b \in DOMAIN walks', walks'[b].phase = "loop",
                    NEW n \in Body(walks'[b].at) \intersect DOMAIN outputs'
             PROVE  outputs'[n] = [run |-> runs, turn |-> walks'[b].round]
  BY <1>1, SameTables DEF IterationsStartClean
<1>2. b \in DOMAIN walks /\ walks'[b] = walks[b] /\ walks[b].phase = "loop"
  BY <1>1, Remaining DEF Advances
<1> DEFINE l == walks[b].at
<1>3. l \in LoopsIn(Def) /\ walks[b].at # walks[b].stop
  BY <1>2 DEF IInv, WalkInv, Apart, Placed
<1>4. CASE n \in DOMAIN outputs /\ outputs'[n] = outputs[n]
  BY <1>2, <1>4 DEF Apart, IterationsStartClean
<1>5. CASE outputs'[n] = Stamp(a) /\ (n = walks[a].at \/ n = JoinOf(walks[a].at))
  <2>1. walks[a].at \in Nodes
    BY DEF Apart, Placed
  <2>2. walks[a].at \in Body(l)
    BY <1>1, <1>2, <1>3, <1>5, <2>1, Regions DEF Structured, BodiesAreOwned, Body, JoinOf
  <2>3. PICK d \in DOMAIN walks : /\ Under(a, d) /\ walks[d].phase = "loop" /\ walks[d].at = l
                                  /\ walks[a].turn = walks[d].round
    BY <1>3, <2>2 DEF Apart, InBody
  <2>4. walks[d].at # walks[d].stop
    BY <2>3 DEF Apart, Placed
  <2>5. d = b
    BY <1>2, <1>3, <2>3, <2>4, Alone DEF Apart
  <2> QED
    BY <1>2, <1>5, <2>3, <2>5 DEF Stamp
<1> QED
  BY <1>4, <1>5, AdvanceMemo

\* A join that is passed has its branches.
LEMMA AdvanceJoins ==
    ASSUME IInv, Tree, Structured(wf), Apart, NEW a \in DOMAIN walks, NEW w, Advances(a, w)
    PROVE  JoinsItsBranches'
<1>1. wf \in DOMAIN Workflows /\ UNCHANGED <<wf, runs>> /\ Def = Compiled[wf]
  BY Regions DEF Advances, IInv
<1> SUFFICES ASSUME NEW p \in ParallelsIn(Def), JoinOf(p) \in DOMAIN outputs', outputs'[JoinOf(p)].run = runs,
                    NEW i \in DOMAIN Forks(Def, p)
             PROVE  LET n == Forks(Def, p)[i] IN
                    n \in LeadingTo[wf][p] /\ (n \in DOMAIN outputs' \/ (n \in Settled /\ n \in DOMAIN results'))
  BY <1>1, SameTables DEF JoinsItsBranches, Settled
<1> DEFINE join == JoinOf(p)
           first == Forks(Def, p)[i]
<1>2. DOMAIN outputs \subseteq DOMAIN outputs' /\ DOMAIN results \subseteq DOMAIN results'
  BY AdvanceMemo DEF Advances
<1>3. CASE join \in DOMAIN outputs /\ outputs'[join] = outputs[join]
  BY <1>2, <1>3 DEF Apart, JoinsItsBranches
<1>4. CASE outputs'[join] = Stamp(a) /\ join = walks[a].at
  <2>1. join # NoNode
    BY <1>1, <1>4, Regions DEF Apart, Placed
  <2> QED
    BY <1>4, <2>1 DEF Apart, OffJoins
<1>5. CASE /\ join = JoinOf(walks[a].at) /\ join # NoNode
           /\ walks[a].phase = "fork" /\ Deciding(a) = {} /\ AllReturned(a)
  <2>1. walks[a].at \in ParallelsIn(Def) /\ a \in Seq(Index)
    BY <1>5 DEF Apart, Placed, Tree
  <2>2. walks[a].at = p /\ p \in Nodes /\ Starts[wf][p] = Forks(Def, p) /\ StopOf[wf][p] = join
        /\ DOMAIN Region[wf][p] = DOMAIN Starts[wf][p]
    BY <1>1, <1>5, <2>1, Regions DEF Structured, JoinsAreOwned, JoinOf
  <2>3. first \in LeadingTo[wf][p] /\ first # join
    BY <1>1, <1>5, <2>2, Regions DEF Structured, JoinsAreOwned, JoinOf
  <2>4. i \in Index /\ i \in DOMAIN Region[wf][p] /\ Append(a, i) \in DOMAIN walks
    BY <1>1, <1>5, <2>2, StartIsIndex DEF Apart, Placed
  <2> DEFINE c == walks[Append(a, i)]
  <2>5. Append(a, i) \in Children(a)
    BY <2>1, <2>4, ChildIsUnder DEF Children, Below, Under
  <2>6. c.phase \in Returned /\ ~Decides(p, c.phase)
    BY <1>5, <2>2, <2>5 DEF AllReturned, Deciding
  <2>7. first \in DOMAIN outputs \/ (c.phase = "error" /\ first \in DOMAIN results)
    <3>1. c.phase \notin {"enter", "execute", "halted"}
      BY <2>6 DEF Returned, Decides
    <3> QED
      BY <1>5, <2>2, <2>4, <3>1 DEF Apart, Passed
  <2>8. CASE c.phase = "error"
    <3>1. Settles(wf, p)
      BY <1>1, <1>5, <2>6, <2>8, Regions DEF Decides, Strategy, JoinKinds, JoinOf, Settles
    <3>2. first \in Region[wf][p][i]
      BY <1>1, <2>2, <2>3, <2>4, RegionCloses DEF Structured
    <3>3. first \in Settled
      <4>1. SettledNodes[wf] = UNION {UNION {Region[wf][q][k] : k \in DOMAIN Region[wf][q]} :
                                         q \in {r \in ParallelsIn(Def) : Settles(wf, r)}}
        BY <1>1, Regions DEF SettledNodes, SettledIn
      <4> QED
        BY <2>4, <3>1, <3>2, <4>1 DEF Settled
    <3> QED
      BY <1>2, <2>3, <2>7, <3>3
  <2> QED
    BY <1>2, <2>3, <2>7, <2>8
<1> QED
  BY <1>3, <1>4, <1>5, AdvanceMemo

LEMMA AdvanceApart ==
    ASSUME IInv, Tree, Structured(wf), Apart, NEW a \in DOMAIN walks, NEW w, Advances(a, w)
    PROVE  Apart'
<1>1. Connected(wf) /\ Nested(wf) /\ BodiesAreOwned(wf) /\ JoinsAreOwned(wf)
  BY DEF Structured
<1> QED
  BY <1>1, AdvancePlaces, AdvanceInRegion, AdvanceInBody, AdvanceOffJoins, AdvanceStamps, AdvancePasses,
     AdvanceIsClean, AdvanceJoins DEF Apart

\* Walk a waits as w for new walks, one for every start of its node.
Begins(a, w, New) ==
    /\ New = {Append(a, i) : i \in DOMAIN Region[wf][walks[a].at]}
    /\ UNCHANGED <<wf, runs, results, snapshot>>
    /\ DOMAIN walks' = DOMAIN walks \union New /\ walks'[a] = w /\ a \notin New
    /\ \A b \in DOMAIN walks : b # a /\ b \notin New => walks'[b] = walks[b]
    /\ \A c \in DOMAIN walks : Under(c, a) \/ c \in New => c \in New /\ walks[c].phase \in Returned
    /\ w.at = walks[a].at /\ w.stop = walks[a].stop /\ w.turn = walks[a].turn /\ w.at # w.stop
    /\ walks[a].phase \notin Returned
    /\ \/ w.phase = "fork" /\ w.at \in ParallelsIn(Def) /\ outputs' = outputs
       \/ w.phase = "loop" /\ w.at \in LoopsIn(Def) /\ outputs' = Forget(w.at)
    /\ \A i \in DOMAIN Region[wf][w.at] : LET c == walks'[Append(a, i)] IN
          /\ c.at = Starts[wf][w.at][i] /\ c.stop = StopOf[wf][w.at] /\ c.phase = "enter"
          /\ c.turn = IF w.phase = "loop" THEN w.round ELSE w.turn

LEMMA ForkBegins ==
    ASSUME NInv, NEW a \in DOMAIN walks, Fork(a)
    PROVE  \E w, New : Begins(a, w, New)
<1> DEFINE n == walks[a].at
           forks == Forks(Def, n)
           New == {Append(a, i) : i \in DOMAIN Region[wf][n]}
           w == [walks[a] EXCEPT !.phase = "fork"]
<1>1. /\ UNCHANGED <<wf, runs, results, snapshot, outputs>> /\ walks[a].phase = "enter"
      /\ n \in ParallelsIn(Def) /\ n \in Nodes /\ n # walks[a].stop
      /\ wf \in DOMAIN Workflows /\ IsWalk(walks[a]) /\ a \in Seq(Index)
  BY DEF Fork, Enters, AboutToEnter, NInv, IInv, WalkInv, Tree, ParallelsIn, Nodes
<1>2. Starts[wf][n] = forks /\ StopOf[wf][n] = JoinOf(n) /\ DOMAIN Region[wf][n] = DOMAIN forks
  BY <1>1, Regions
<1>3. walks' = [b \in DOMAIN walks \union New |->
                   IF b = a THEN w
                   ELSE IF b \in New THEN Entering(forks[b[Len(b)]], JoinOf(n), walks[a].turn)
                   ELSE walks[b]]
  BY <1>2 DEF Fork
<1>4. w.phase = "fork" /\ w.at = n /\ w.stop = walks[a].stop /\ w.turn = walks[a].turn
  BY <1>1, PhaseOnly
<1>5. \A c \in DOMAIN walks : ~Under(c, a)
  BY <1>1 DEF NInv, Tree
<1>6. ASSUME NEW i \in DOMAIN Region[wf][n]
      PROVE  Append(a, i) # a /\ Append(a, i) \notin DOMAIN walks /\ Append(a, i)[Len(Append(a, i))] = i
  <2>1. i \in Index
    BY <1>1, StartIsIndex
  <2> QED
    BY <1>1, <1>5, <2>1, ChildIsUnder
<1> HIDE DEF w
<1>7. ASSUME NEW i \in DOMAIN Region[wf][n]
      PROVE  walks'[Append(a, i)] = Entering(forks[i], JoinOf(n), walks[a].turn)
  <2>1. Append(a, i) \in New
    OBVIOUS
  <2> QED
    BY <1>3, <1>6, <2>1
<1>8. a \notin New /\ \A c \in New : c \notin DOMAIN walks
  BY <1>6
<1>9. ASSUME NEW i \in DOMAIN Region[wf][w.at]
      PROVE  LET c == walks'[Append(a, i)] IN
             /\ c.at = Starts[wf][w.at][i] /\ c.stop = StopOf[wf][w.at] /\ c.phase = "enter"
             /\ c.turn = IF w.phase = "loop" THEN w.round ELSE w.turn
  BY <1>2, <1>4, <1>7, EnteringIs
<1> HIDE DEF New
<1>10. /\ DOMAIN walks' = DOMAIN walks \union New /\ walks'[a] = w
       /\ \A b \in DOMAIN walks : b # a /\ b \notin New => walks'[b] = walks[b]
  BY <1>3
<1>11. Begins(a, w, New)
  BY <1>1, <1>4, <1>5, <1>8, <1>9, <1>10 DEF Begins, Returned, New
<1> QED
  BY <1>11

LEMMA LoopBegins ==
    ASSUME NInv, Placed, NEW a \in DOMAIN walks, BeginLoop(a) \/ NextIteration(a)
    PROVE  \E w, New : Begins(a, w, New)
<1> DEFINE n == walks[a].at
           body == Append(a, 1)
           New == {Append(a, i) : i \in DOMAIN Region[wf][n]}
<1>1. /\ UNCHANGED <<wf, runs, results, snapshot>> /\ \E round, items : Iterate(a, round, items)
      /\ wf \in DOMAIN Workflows /\ a \in Seq(Index)
  BY DEF BeginLoop, NextIteration, Enters, AboutToEnter, BodyReturned, NInv, IInv, Tree
<1>2. /\ n \in LoopsIn(Def) /\ n # walks[a].stop /\ walks[a].phase \notin Returned
      /\ \A c \in DOMAIN walks : Under(c, a) => c = body /\ walks[c].phase \in Returned
  <2>1. CASE BeginLoop(a)
    <3>1. walks[a].phase = "enter" /\ n \in LoopsIn(Def) /\ n # walks[a].stop
      BY <2>1 DEF BeginLoop, Enters, AboutToEnter, LoopsIn
    <3> QED
      BY <1>1, <3>1 DEF NInv, Tree, Returned
  <2>2. CASE NextIteration(a)
    <3>1. walks[a].phase = "loop" /\ body \in DOMAIN walks /\ walks[body].phase \in Returned
      BY <2>2 DEF NextIteration, BodyReturned, Returned
    <3>2. Below(a) = {body}
      BY <3>1, BodyIsAlone DEF NInv
    <3> QED
      BY <3>1, <3>2 DEF NInv, IInv, WalkInv, Placed, Below, Under, Returned
  <2> QED
    BY <2>1, <2>2
<1>3. Starts[wf][n] = <<Def.nodes[n].body>> /\ StopOf[wf][n] = n /\ DOMAIN Region[wf][n] = {1} /\ n \in Nodes
  BY <1>1, <1>2, Regions
<1>4. New = {body}
  BY <1>3
<1>5. PICK round, items : Iterate(a, round, items)
  BY <1>1
<1> DEFINE w == InLoop(walks[a], round, items)
<1>6. w.phase = "loop" /\ w.at = n /\ w.stop = walks[a].stop /\ w.turn = walks[a].turn /\ w.round = round
  BY DEF InLoop
<1>7. body # a /\ Under(body, a)
  BY <1>1, OneIsIndex, ChildIsUnder
<1>8. /\ outputs' = Forget(n)
      /\ walks' = [b \in DOMAIN walks \union {body} |->
                      IF b = a THEN w
                      ELSE IF b = body THEN Entering(Def.nodes[n].body, n, round)
                      ELSE walks[b]]
  BY <1>5 DEF Iterate
<1> HIDE DEF w, body
<1>9. /\ DOMAIN walks' = DOMAIN walks \union {body} /\ walks'[a] = w
      /\ \A b \in DOMAIN walks : b # a /\ b # body => walks'[b] = walks[b]
      /\ walks'[body] = Entering(Def.nodes[n].body, n, round)
  BY <1>7, <1>8
<1>10. ASSUME NEW i \in DOMAIN Region[wf][w.at]
       PROVE  LET c == walks'[Append(a, i)] IN
              /\ c.at = Starts[wf][w.at][i] /\ c.stop = StopOf[wf][w.at] /\ c.phase = "enter"
              /\ c.turn = IF w.phase = "loop" THEN w.round ELSE w.turn
  <2>1. i = 1 /\ walks'[Append(a, i)] = Entering(Def.nodes[n].body, n, round)
    BY <1>3, <1>6, <1>9 DEF body
  <2>2. Starts[wf][n][1] = Def.nodes[n].body
    BY <1>3
  <2> QED
    BY <1>3, <1>6, <2>1, <2>2, EnteringIs
<1>11. Begins(a, w, New)
  <2>1. New = {Append(a, i) : i \in DOMAIN Region[wf][walks[a].at]}
    OBVIOUS
  <2> HIDE DEF New
  <2> QED
    BY <1>1, <1>2, <1>4, <1>6, <1>7, <1>8, <1>9, <1>10, <2>1 DEF Begins
<1> QED
  BY <1>11

\* The branch of a walk that another belongs to is one of its node's.
LEMMA BranchOf ==
    ASSUME Tree, Placed, NEW c \in DOMAIN walks, NEW p \in Seq(Index), Under(c, p)
    PROVE  /\ p \in DOMAIN walks /\ walks[p].phase \in {"fork", "loop"} /\ walks[p].at \in Nodes
           /\ c[Len(p) + 1] \in DOMAIN Region[wf][walks[p].at]
<1>1. c \in Seq(Index) /\ p \in DOMAIN walks /\ walks[p].phase \in {"fork", "loop"}
  BY DEF Tree
<1> DEFINE d == Append(p, c[Len(p) + 1])
<1>2. d \in Seq(Index) /\ (c = d \/ Under(c, d))
  BY <1>1, ChildBetween
<1>3. c[Len(p) + 1] \in Index
  <2>1. Len(p) + 1 \in 1..Len(c)
    BY <1>1, UnderByEntry
  <2> QED
    BY <1>1, <2>1
<1>4. d \in DOMAIN walks
  BY <1>2 DEF Tree
<1> QED
  BY <1>1, <1>3, <1>4 DEF Placed

\* Who is there when walks begin, and who waits for whom.
LEMMA Started ==
    ASSUME IInv, Tree, Placed, NEW a \in DOMAIN walks, NEW w, NEW New, Begins(a, w, New)
    PROVE  /\ a \in Seq(Index) /\ walks[a].at \in Nodes /\ wf \in DOMAIN Workflows /\ wf' = wf
           /\ \A c \in New : \E i \in DOMAIN Region[wf][walks[a].at] :
                 c = Append(a, i) /\ i \in Index /\ c \in Seq(Index) /\ c \in DOMAIN walks'
           /\ \A b \in DOMAIN walks : walks[b].phase \in {"fork", "loop"} => b \notin New
           /\ \A c \in DOMAIN walks, b \in Seq(Index) : Under(c, b) /\ c \notin New =>
                 /\ b \in DOMAIN walks /\ b # a /\ b \notin New /\ walks'[b] = walks[b]
                 /\ walks[b].phase \in {"fork", "loop"}
           /\ \A c \in New, b \in Seq(Index) : Under(c, b) =>
                 \/ b = a
                 \/ Under(a, b) /\ b \in DOMAIN walks /\ b # a /\ b \notin New /\ walks'[b] = walks[b]
           /\ \A b \in DOMAIN walks, i \in Index : b # a => Append(b, i) \notin New
<1>1. a \in Seq(Index) /\ walks[a].at \in Nodes /\ wf \in DOMAIN Workflows /\ wf' = wf /\ ~Under(a, a)
  BY OneIsIndex, ChildIsUnder DEF Tree, Placed, IInv, Begins
<1>2. ASSUME NEW c \in New
      PROVE  \E i \in DOMAIN Region[wf][walks[a].at] :
                c = Append(a, i) /\ i \in Index /\ c \in Seq(Index) /\ c \in DOMAIN walks'
  <2>1. PICK i \in DOMAIN Region[wf][walks[a].at] : c = Append(a, i)
    BY DEF Begins
  <2>2. i \in Index
    BY <1>1, StartIsIndex
  <2> QED
    BY <1>1, <2>1, <2>2, ChildIsUnder DEF Begins
<1>3. \A b \in DOMAIN walks : walks[b].phase \in {"fork", "loop"} => b \notin New
  BY DEF Begins, Returned
<1>4. ASSUME NEW c \in DOMAIN walks, NEW b \in Seq(Index), Under(c, b), c \notin New
      PROVE  /\ b \in DOMAIN walks /\ b # a /\ b \notin New /\ walks'[b] = walks[b]
             /\ walks[b].phase \in {"fork", "loop"}
  <2>1. b \in DOMAIN walks /\ walks[b].phase \in {"fork", "loop"}
    BY <1>4 DEF Tree
  <2>2. b # a /\ b \notin New
    BY <1>3, <1>4, <2>1 DEF Begins
  <2> QED
    BY <2>1, <2>2 DEF Begins
<1>5. ASSUME NEW c \in New, NEW b \in Seq(Index), Under(c, b)
      PROVE  \/ b = a
             \/ Under(a, b) /\ b \in DOMAIN walks /\ b # a /\ b \notin New /\ walks'[b] = walks[b]
  <2>1. b = a \/ Under(a, b)
    <3>1. PICK i \in Index : c = Append(a, i)
      BY <1>2
    <3> QED
      BY <1>1, <1>5, <3>1, UnderChild
  <2>2. a \notin New
    BY DEF Begins
  <2> QED
    BY <1>4, <2>1, <2>2
<1>6. ASSUME NEW b \in DOMAIN walks, NEW i \in Index, b # a PROVE Append(b, i) \notin New
  <2> SUFFICES ASSUME NEW k \in Index, Append(b, i) = Append(a, k) PROVE FALSE
    BY <1>2
  <2>1. b \in Seq(Index)
    BY DEF Tree
  <2>2. Len(Append(b, i)) = Len(b) + 1 /\ Len(Append(a, k)) = Len(a) + 1
    BY <1>1, <2>1
  <2>3. Len(a) = Len(b) /\ \A j \in 1..Len(a) : a[j] = Append(a, k)[j] /\ b[j] = Append(b, i)[j]
    BY <1>1, <2>1, <2>2
  <2> QED
    BY <1>1, <1>6, <2>1, <2>3, SeqEqual
<1> QED
  BY <1>1, <1>2, <1>3, <1>4, <1>5, <1>6

LEMMA BeginPlaces ==
    ASSUME IInv, Tree, Connected(wf), Placed, NEW a \in DOMAIN walks, NEW w, NEW New, Begins(a, w, New)
    PROVE  Placed'
<1> DEFINE n == walks[a].at
<1>1. /\ a \in Seq(Index) /\ n \in Nodes /\ wf \in DOMAIN Workflows /\ wf' = wf /\ walks'[a] = w
      /\ w.at = n /\ w.phase \in {"fork", "loop"} /\ n # w.stop /\ w.stop = walks[a].stop
      /\ (w.phase = "fork" => n \in ParallelsIn(Def))
      /\ New = {Append(a, i) : i \in DOMAIN Region[wf][n]} /\ New \subseteq DOMAIN walks'
  BY Started DEF Begins
<1>2. ASSUME NEW i \in DOMAIN Region[wf][n]
      PROVE  LET c == walks'[Append(a, i)] IN
             /\ c.at \in Nodes /\ c.stop = StopOf[wf][n] /\ c.phase = "enter"
  <2>1. Starts[wf][n][i] \in Nodes
    BY <1>1, Regions DEF Connected, Nodes
  <2> QED
    BY <1>1, <2>1 DEF Begins
<1>3. ASSUME NEW c \in New, NEW i \in Index PROVE Append(c, i) \notin DOMAIN walks'
  <2>1. PICK k \in Index : c = Append(a, k) /\ c \in Seq(Index)
    BY Started
  <2>2. /\ Len(c) = Len(a) + 1 /\ Len(Append(c, i)) = Len(c) + 1 /\ Under(Append(c, i), c)
        /\ Append(c, i) \in Seq(Index)
    BY <1>1, <2>1, ChildIsUnder
  <2>3. Under(Append(c, i), a)
    BY <1>1, <2>1, <2>2, ChildIsUnder, UnderTwice
  <2>4. Append(c, i) \notin New
    <3>1. \A d \in New : Len(d) = Len(a) + 1
      BY <1>1, Started, ChildIsUnder
    <3> QED
      BY <1>1, <2>1, <2>2, <3>1
  <2> QED
    BY <2>3, <2>4 DEF Begins
<1>4. ASSUME NEW b \in DOMAIN walks, b # a, b \notin New
      PROVE  /\ walks'[b] = walks[b] /\ walks[b].at \in Nodes
             /\ walks[b].phase = "fork" => walks[b].at \in ParallelsIn(Def)
             /\ walks[b].phase \in {"execute", "fork", "loop"} => walks[b].at # walks[b].stop
             /\ walks[b].phase = "fork" => \A i \in DOMAIN Region[wf][walks[b].at] : Append(b, i) \in DOMAIN walks'
             /\ \A i \in Index : Append(b, i) \in DOMAIN walks' =>
                   /\ i \in DOMAIN Region[wf][walks[b].at]
                   /\ walks'[Append(b, i)].stop = StopOf[wf][walks[b].at]
  <2>1. walks'[b] = walks[b] /\ DOMAIN walks \subseteq DOMAIN walks'
    BY <1>4 DEF Begins
  <2>2. ASSUME NEW i \in Index, Append(b, i) \in DOMAIN walks'
        PROVE  /\ i \in DOMAIN Region[wf][walks[b].at]
               /\ walks'[Append(b, i)].stop = StopOf[wf][walks[b].at]
    <3>1. Append(b, i) \notin New
      BY <1>4, Started
    <3>2. Append(b, i) \in DOMAIN walks /\ walks'[Append(b, i)].stop = walks[Append(b, i)].stop
      BY <1>1, <2>2, <3>1 DEF Begins
    <3> QED
      BY <3>2 DEF Placed
  <2> QED
    BY <2>1, <2>2 DEF Placed
<1>5. ASSUME NEW c \in New
      PROVE  /\ walks'[c].at \in Nodes /\ walks'[c].phase = "enter"
             /\ \A i \in Index : Append(c, i) \notin DOMAIN walks'
  BY <1>1, <1>2, <1>3
<1>6. ASSUME NEW i \in Index, Append(a, i) \in DOMAIN walks'
      PROVE  i \in DOMAIN Region[wf][n] /\ walks'[Append(a, i)].stop = StopOf[wf][n]
  <2>1. Append(a, i) \in New
    <3>1. Under(Append(a, i), a)
      BY <1>1, ChildIsUnder
    <3> QED
      BY <1>6, <3>1 DEF Begins
  <2>2. PICK k \in DOMAIN Region[wf][n] : Append(a, i) = Append(a, k) /\ k \in Index
    <3>1. PICK k \in DOMAIN Region[wf][n] : Append(a, i) = Append(a, k)
      BY <1>1, <2>1
    <3> QED
      BY <1>1, <3>1, StartIsIndex
  <2>3. i = k
    BY <1>1, <2>2, ChildIsUnder
  <2> QED
    BY <1>2, <2>2, <2>3
<1>7. \A i \in DOMAIN Region[wf][n] : Append(a, i) \in DOMAIN walks'
  BY <1>1
<1>8. ASSUME NEW b \in DOMAIN walks'
      PROVE  /\ walks'[b].at \in Nodes
             /\ walks'[b].phase = "fork" => walks'[b].at \in ParallelsIn(Def)
             /\ walks'[b].phase \in {"execute", "fork", "loop"} => walks'[b].at # walks'[b].stop
             /\ walks'[b].phase = "fork" =>
                   \A i \in DOMAIN Region[wf][walks'[b].at] : Append(b, i) \in DOMAIN walks'
             /\ \A i \in Index : Append(b, i) \in DOMAIN walks' =>
                   /\ i \in DOMAIN Region[wf][walks'[b].at]
                   /\ walks'[Append(b, i)].stop = StopOf[wf][walks'[b].at]
  <2>1. CASE b = a
    BY <1>1, <1>6, <1>7, <2>1
  <2>2. CASE b \in New
    BY <1>5, <2>2
  <2>3. CASE b \in DOMAIN walks /\ b # a /\ b \notin New
    BY <1>4, <2>3
  <2> QED
    BY <1>8, <2>1, <2>2, <2>3 DEF Begins
<1> QED
  BY <1>1, <1>8, SameTables DEF Placed

LEMMA BeginInRegion ==
    ASSUME IInv, Tree, Connected(wf), Nested(wf), Placed, InRegion,
           NEW a \in DOMAIN walks, NEW w, NEW New, Begins(a, w, New)
    PROVE  InRegion'
<1> SUFFICES ASSUME NEW p \in DOMAIN walks', NEW c \in DOMAIN walks', Under(c, p)
             PROVE  walks'[c].at = walks'[c].stop \/ walks'[c].at \in Region[wf][walks'[p].at][c[Len(p) + 1]]
  BY DEF InRegion, Begins
<1> DEFINE n == walks[a].at
<1>1. /\ a \in Seq(Index) /\ n \in Nodes /\ wf \in DOMAIN Workflows /\ p \in Seq(Index)
      /\ w.at = n /\ w.at # w.stop /\ w.stop = walks[a].stop /\ walks'[a] = w /\ a \notin New
  <2>1. p \in Seq(Index)
    <3>1. p \in DOMAIN walks \/ p \in New
      BY DEF Begins
    <3> QED
      BY <3>1, Started DEF Tree
  <2>2. a \in Seq(Index) /\ n \in Nodes /\ wf \in DOMAIN Workflows
    BY Started
  <2> QED
    BY <2>1, <2>2 DEF Begins
<1>2. CASE c \notin New
  <2>1. c \in DOMAIN walks /\ walks'[c].at = walks[c].at /\ walks'[c].stop = walks[c].stop
    BY <1>1, <1>2 DEF Begins
  <2>2. p \in DOMAIN walks /\ walks'[p] = walks[p]
    BY <1>1, <1>2, <2>1, Started
  <2> QED
    BY <2>1, <2>2 DEF InRegion
<1>3. CASE c \in New
  <2>1. PICK i \in DOMAIN Region[wf][n] : c = Append(a, i) /\ i \in Index
    BY <1>3, Started
  <2>2. walks'[c].at = Starts[wf][n][i] /\ walks'[c].stop = StopOf[wf][n]
    BY <1>1, <2>1 DEF Begins
  <2>3. walks'[c].at = walks'[c].stop \/ walks'[c].at \in Region[wf][n][i]
    BY <1>1, <2>2, RegionCloses
  <2>4. CASE p = a
    BY <1>1, <2>1, <2>3, <2>4, ChildIsUnder
  <2>5. CASE p # a
    <3> DEFINE m == walks[p].at
               k == a[Len(p) + 1]
    <3>1. Under(a, p) /\ p \in DOMAIN walks /\ walks'[p] = walks[p]
      BY <1>1, <1>3, <2>5, Started
    <3>2. m \in Nodes /\ k \in DOMAIN Region[wf][m]
      BY <1>1, <3>1, BranchOf
    <3>3. n \in Region[wf][m][k]
      BY <1>1, <3>1 DEF InRegion
    <3>4. Starts[wf][n][i] \in Region[wf][m][k] \union {StopOf[wf][m]}
      <4>1. i \in DOMAIN Starts[wf][n]
        BY <1>1, Regions
      <4> QED
        BY <1>1, <3>2, <3>3, <4>1, RegionCloses
    <3>5. StopOf[wf][m] \notin Region[wf][n][i]
      BY <1>1, <3>2, <3>3, Regions DEF Nested
    <3>6. c[Len(p) + 1] = k
      <4>1. Len(p) + 1 \in 1..Len(a)
        BY <1>1, <3>1, UnderByEntry
      <4> QED
        BY <1>1, <2>1, <4>1
    <3> QED
      BY <2>2, <2>3, <3>1, <3>4, <3>5, <3>6
  <2> QED
    BY <2>4, <2>5
<1> QED
  BY <1>2, <1>3

LEMMA BeginInBody ==
    ASSUME IInv, Tree, BodiesAreOwned(wf), Placed, InBody,
           NEW a \in DOMAIN walks, NEW w, NEW New, Begins(a, w, New)
    PROVE  InBody'
<1> DEFINE n == walks[a].at
<1>1. /\ a \in Seq(Index) /\ n \in Nodes /\ wf \in DOMAIN Workflows /\ wf' = wf
  BY Started
<1>2. /\ w.at = n /\ w.turn = walks[a].turn /\ walks'[a] = w /\ a \notin New
      /\ DOMAIN walks' = DOMAIN walks \union New
      /\ \A b \in DOMAIN walks : b # a /\ b \notin New => walks'[b] = walks[b]
      /\ \A b \in DOMAIN walks : Under(b, a) => b \in New
      /\ \/ w.phase = "fork" /\ n \in ParallelsIn(Def)
         \/ w.phase = "loop" /\ n \in LoopsIn(Def)
  BY DEF Begins
<1> SUFFICES ASSUME NEW c \in DOMAIN walks', NEW l \in LoopsIn(Def), walks'[c].at \in Body(l)
             PROVE  \E b \in DOMAIN walks' : /\ Under(c, b) /\ walks'[b].phase = "loop" /\ walks'[b].at = l
                                             /\ walks'[c].turn = walks'[b].round
  BY <1>1, SameTables DEF InBody
<1>3. ASSUME NEW d \in DOMAIN walks, d \notin New, walks[d].at \in Body(l)
      PROVE  \E b \in DOMAIN walks' : /\ Under(d, b) /\ walks'[b].phase = "loop" /\ walks'[b].at = l
                                      /\ walks[d].turn = walks'[b].round
  <2>1. PICK b \in DOMAIN walks : /\ Under(d, b) /\ walks[b].phase = "loop" /\ walks[b].at = l
                                  /\ walks[d].turn = walks[b].round
    BY <1>3 DEF InBody
  <2>2. b \in Seq(Index)
    BY DEF Tree
  <2>3. walks'[b] = walks[b]
    BY <1>3, <2>1, <2>2, Started
  <2> QED
    BY <1>2, <2>1, <2>3
<1>4. CASE c \notin New
  <2>1. c \in DOMAIN walks /\ walks'[c].at = walks[c].at /\ walks'[c].turn = walks[c].turn
    BY <1>2, <1>4
  <2> QED
    BY <1>3, <1>4, <2>1
<1>5. CASE c \in New
  <2>1. PICK i \in DOMAIN Region[wf][n] : c = Append(a, i) /\ i \in Index
    BY <1>5, Started
  <2>2. /\ walks'[c].at = Starts[wf][n][i]
        /\ walks'[c].turn = IF w.phase = "loop" THEN w.round ELSE w.turn
    BY <1>2, <2>1 DEF Begins
  <2>3. i \in DOMAIN Starts[wf][n] /\ Under(c, a)
    BY <1>1, <2>1, Regions, ChildIsUnder
  <2>4. CASE n = l
    <3>1. w.phase = "loop" /\ w.at = l
      BY <1>1, <1>2, <2>4, Regions
    <3> QED
      BY <1>2, <2>2, <2>3, <3>1
  <2>5. CASE n # l
    <3>1. walks[a].at \in Body(l) /\ n \notin LoopsIn(Def)
      BY <1>1, <2>2, <2>3, <2>5, Regions DEF BodiesAreOwned, Body
    <3>2. PICK b \in DOMAIN walks' : /\ Under(a, b) /\ walks'[b].phase = "loop" /\ walks'[b].at = l
                                     /\ walks[a].turn = walks'[b].round
      BY <1>2, <1>3, <3>1
    <3>3. b \in Seq(Index)
      <4>1. b \in DOMAIN walks \/ b \in New
        BY <1>2
      <4> QED
        BY <4>1, Started DEF Tree
    <3>4. Under(c, b)
      BY <1>1, <2>1, <3>2, <3>3, UnderChild
    <3> QED
      BY <1>2, <2>2, <3>1, <3>2, <3>4
  <2> QED
    BY <2>4, <2>5
<1> QED
  BY <1>4, <1>5

LEMMA NewWalksEnter ==
    ASSUME NEW a \in DOMAIN walks, NEW w, NEW New, Begins(a, w, New), NEW b \in New
    PROVE  walks'[b].phase = "enter"
<1>1. PICK i \in DOMAIN Region[wf][walks[a].at] : b = Append(a, i)
  BY DEF Begins
<1>2. walks'[Append(a, i)].phase = "enter"
  BY <1>1 DEF Begins
<1> QED
  BY <1>1, <1>2

\* What is forgotten is in the body of the loop.
LEMMA BeginMemo ==
    ASSUME NEW a \in DOMAIN walks, NEW w, NEW New, Begins(a, w, New)
    PROVE  /\ DOMAIN outputs' \subseteq DOMAIN outputs
           /\ \A n \in DOMAIN outputs' : outputs'[n] = outputs[n]
           /\ \A n \in DOMAIN outputs \ DOMAIN outputs' :
                 w.at \in LoopsIn(Def) /\ n \in Body(w.at) /\ outputs' = Forget(w.at)
           /\ w.phase = "loop" => Body(w.at) \intersect DOMAIN outputs' = {}
<1>1. CASE w.phase = "fork" /\ outputs' = outputs
  BY <1>1
<1>2. CASE w.phase = "loop" /\ w.at \in LoopsIn(Def) /\ outputs' = Forget(w.at)
  BY <1>2 DEF Forget, Without
<1> QED
  BY <1>1, <1>2 DEF Begins

LEMMA BeginOffJoins ==
    ASSUME IInv, Tree, JoinsAreOwned(wf), Placed, OffJoins,
           NEW a \in DOMAIN walks, NEW w, NEW New, Begins(a, w, New)
    PROVE  OffJoins'
<1>1. walks[a].at \in Nodes /\ wf \in DOMAIN Workflows /\ wf' = wf
  BY Started
<1> SUFFICES ASSUME NEW c \in DOMAIN walks', NEW p \in ParallelsIn(Def), JoinOf(p) # NoNode
             PROVE  walks'[c].at # JoinOf(p)
  BY <1>1, SameTables DEF OffJoins
<1>2. CASE c \notin New
  <2>1. c \in DOMAIN walks /\ walks'[c].at = walks[c].at
    BY <1>2 DEF Begins
  <2> QED
    BY <2>1 DEF OffJoins
<1>3. CASE c \in New
  <2>1. PICK i \in DOMAIN Region[wf][walks[a].at] : c = Append(a, i)
    BY <1>3, Started
  <2>2. walks'[c].at = Starts[wf][walks[a].at][i]
    BY <2>1 DEF Begins
  <2> QED
    BY <1>1, <2>1, <2>2, Regions DEF JoinsAreOwned, JoinOf
<1> QED
  BY <1>2, <1>3

LEMMA BeginStamps ==
    ASSUME Stamped, NEW a \in DOMAIN walks, NEW w, NEW New, Begins(a, w, New)
    PROVE  Stamped'
<1>1. UNCHANGED <<runs, snapshot>>
  BY DEF Begins
<1>2. DOMAIN outputs' \subseteq DOMAIN outputs /\ \A n \in DOMAIN outputs' : outputs'[n] = outputs[n]
  BY BeginMemo
<1> QED
  BY <1>1, <1>2 DEF Stamped

\* While a parallel node waits for its branches, no loop whose body it is in begins anew.
LEMMA ForksAreKept ==
    ASSUME IInv, Tree, Structured(wf), Placed, InRegion, InBody,
           NEW a \in DOMAIN walks, NEW w, NEW New, Begins(a, w, New), w.at \in LoopsIn(Def),
           NEW b \in DOMAIN walks, walks[b].phase = "fork"
    PROVE  walks[b].at \notin Body(w.at)
<1> SUFFICES ASSUME walks[b].at \in Body(w.at) PROVE FALSE
  OBVIOUS
<1>1. walks[a].at = w.at /\ w.at # walks[a].stop
  BY DEF Begins
<1>2. PICK d \in DOMAIN walks : Under(b, d) /\ walks[d].phase = "loop" /\ walks[d].at = w.at
  BY DEF InBody
<1>3. walks[d].at # walks[d].stop
  BY <1>2 DEF Placed
<1>4. d = a
  BY <1>1, <1>2, <1>3, Alone
<1>5. b \in New /\ walks[b].phase \in Returned
  BY <1>2, <1>4 DEF Begins
<1> QED
  BY <1>5 DEF Returned

LEMMA BeginPasses ==
    ASSUME IInv, Tree, Structured(wf), Apart, NEW a \in DOMAIN walks, NEW w, NEW New, Begins(a, w, New)
    PROVE  Passed'
<1>1. /\ a \in Seq(Index) /\ walks[a].at \in Nodes /\ wf \in DOMAIN Workflows /\ wf' = wf
  BY Started DEF Apart
<1>2. /\ w.at = walks[a].at /\ walks'[a] = w /\ results' = results /\ walks[a].phase \notin Returned
      /\ DOMAIN walks' = DOMAIN walks \union New
      /\ \A b \in DOMAIN walks : b # a /\ b \notin New => walks'[b] = walks[b]
      /\ \A i \in DOMAIN Region[wf][w.at] :
            Append(a, i) \in New /\ walks'[Append(a, i)].at = Starts[wf][w.at][i] /\ walks'[Append(a, i)].phase = "enter"
      /\ w.at \notin Steps
  BY DEF Begins, ParallelsIn, LoopsIn, LoopKinds, Steps
<1> SUFFICES ASSUME NEW b \in DOMAIN walks', walks'[b].phase = "fork", JoinOf(walks'[b].at) # NoNode,
                    NEW i \in DOMAIN Region[wf][walks'[b].at]
             PROVE  LET c == walks'[Append(b, i)]
                        first == Starts[wf][walks'[b].at][i]
                    IN  \/ c.at = first /\ c.phase \in {"enter", "execute"}
                        \/ c.phase = "halted"
                        \/ first \in DOMAIN outputs'
                        \/ c.phase = "error" /\ first \in DOMAIN results'
  BY <1>1, SameTables DEF Passed
<1>3. CASE b = a
  BY <1>2, <1>3
<1>4. CASE b \in New
  <2>1. walks'[b].phase = "enter"
    BY <1>4, NewWalksEnter
  <2> QED
    BY <2>1
<1>5. CASE b # a /\ b \notin New
  <2> DEFINE c == Append(b, i)
             p == walks[b].at
             first == Starts[wf][p][i]
  <2>1. b \in DOMAIN walks /\ walks'[b] = walks[b] /\ b \in Seq(Index)
    BY <1>2, <1>5 DEF Tree
  <2>2. p \in ParallelsIn(Def) /\ p \in Nodes /\ i \in Index /\ c \in DOMAIN walks /\ i \in DOMAIN Starts[wf][p]
    BY <1>1, <2>1, StartIsIndex, Regions DEF Apart, Placed
  <2>3. c \notin New
    BY <1>5, <2>1, <2>2, Started DEF Apart
  <2>4. \/ walks[c].at = first /\ walks[c].phase \in {"enter", "execute"}
        \/ walks[c].phase = "halted"
        \/ first \in DOMAIN outputs
        \/ walks[c].phase = "error" /\ first \in DOMAIN results
    BY <2>1, <2>2 DEF Apart, Passed
  <2>5. first \in Steps
    <3>1. Def.nodes[first].kind = "step" /\ first \in Nodes
      BY <1>1, <2>1, <2>2, Regions DEF Structured, Connected, JoinsAreOwned, JoinOf, Nodes
    <3> QED
      BY <3>1 DEF Steps, Nodes
  <2>6. first \in DOMAIN outputs => first \in DOMAIN outputs'
    <3> SUFFICES ASSUME first \in DOMAIN outputs \ DOMAIN outputs' PROVE FALSE
      OBVIOUS
    <3>1. w.at \in LoopsIn(Def) /\ first \in Body(w.at)
      BY BeginMemo
    <3>2. p \in Body(w.at)
      BY <1>1, <2>2, <3>1, Regions DEF Structured, BodiesAreOwned, Body
    <3> QED
      BY <2>1, <3>1, <3>2, ForksAreKept DEF Apart
  <2>7. CASE c = a
    BY <1>2, <2>1, <2>4, <2>5, <2>6, <2>7 DEF Returned
  <2>8. CASE c # a
    BY <1>2, <2>1, <2>2, <2>3, <2>4, <2>6, <2>8
  <2> QED
    BY <2>7, <2>8
<1> QED
  BY <1>3, <1>4, <1>5

LEMMA BeginIsClean ==
    ASSUME IInv, Tree, Apart, NEW a \in DOMAIN walks, NEW w, NEW New, Begins(a, w, New)
    PROVE  IterationsStartClean'
<1>1. /\ wf' = wf /\ runs' = runs /\ walks'[a] = w /\ DOMAIN walks' = DOMAIN walks \union New
      /\ \A b \in DOMAIN walks : b # a /\ b \notin New => walks'[b] = walks[b]
      /\ \A b \in New : walks'[b].phase = "enter"
  BY NewWalksEnter DEF Begins
<1> SUFFICES ASSUME NEW b \in DOMAIN walks', walks'[b].phase = "loop",
                    NEW n \in Body(walks'[b].at) \intersect DOMAIN outputs'
             PROVE  outputs'[n] = [run |-> runs, turn |-> walks'[b].round]
  BY <1>1, SameTables DEF IterationsStartClean
<1>2. CASE b = a
  BY <1>1, <1>2, BeginMemo
<1>3. CASE b # a
  <2>1. b \in DOMAIN walks /\ walks'[b] = walks[b]
    BY <1>1, <1>3
  <2>2. n \in DOMAIN outputs /\ outputs'[n] = outputs[n]
    BY BeginMemo
  <2> QED
    BY <2>1, <2>2 DEF Apart, IterationsStartClean
<1> QED
  BY <1>2, <1>3

LEMMA BeginJoins ==
    ASSUME IInv, Structured(wf), Apart, NEW a \in DOMAIN walks, NEW w, NEW New, Begins(a, w, New)
    PROVE  JoinsItsBranches'
<1>1. wf \in DOMAIN Workflows /\ UNCHANGED <<wf, runs, results>> /\ Def = Compiled[wf]
  BY Regions DEF Begins, IInv
<1> SUFFICES ASSUME NEW p \in ParallelsIn(Def), JoinOf(p) \in DOMAIN outputs', outputs'[JoinOf(p)].run = runs,
                    NEW i \in DOMAIN Forks(Def, p)
             PROVE  LET n == Forks(Def, p)[i] IN
                    n \in LeadingTo[wf][p] /\ (n \in DOMAIN outputs' \/ (n \in Settled /\ n \in DOMAIN results))
  BY <1>1, SameTables DEF JoinsItsBranches, Settled
<1> DEFINE join == JoinOf(p)
           first == Forks(Def, p)[i]
<1>2. join \in DOMAIN outputs /\ outputs[join].run = runs
  BY BeginMemo
<1>3. first \in LeadingTo[wf][p] /\ (first \in DOMAIN outputs \/ (first \in Settled /\ first \in DOMAIN results))
  BY <1>2 DEF Apart, JoinsItsBranches
<1>4. first \in DOMAIN outputs => first \in DOMAIN outputs'
  <2> SUFFICES ASSUME first \in DOMAIN outputs \ DOMAIN outputs' PROVE FALSE
    OBVIOUS
  <2>1. w.at \in LoopsIn(Def) /\ first \in Body(w.at) /\ outputs' = Forget(w.at)
    BY BeginMemo
  <2>2. join # NoNode /\ Starts[wf][p] = Forks(Def, p)
    BY <1>1, <1>2, Regions DEF Apart, Stamped
  <2>3. join \in Body(w.at)
    BY <1>1, <2>1, <2>2, Regions DEF Structured, JoinsAreOwned, JoinOf, Body
  <2> QED
    BY <2>1, <2>3 DEF Forget, Without
<1> QED
  BY <1>3, <1>4

LEMMA BeginApart ==
    ASSUME IInv, Tree, Structured(wf), Apart, NEW a \in DOMAIN walks, NEW w, NEW New, Begins(a, w, New)
    PROVE  Apart'
<1>1. Connected(wf) /\ Nested(wf) /\ BodiesAreOwned(wf) /\ JoinsAreOwned(wf)
  BY DEF Structured
<1> QED
  BY <1>1, BeginPlaces, BeginInRegion, BeginInBody, BeginOffJoins, BeginStamps, BeginPasses, BeginIsClean,
     BeginJoins DEF Apart

SInv == NInv /\ (Structured(wf) => Apart)

LEMMA NoWalks ==
    ASSUME DOMAIN walks = {}
    PROVE  Placed /\ InRegion /\ InBody /\ OffJoins /\ Passed /\ IterationsStartClean
BY DEF Placed, InRegion, InBody, OffJoins, Passed, IterationsStartClean

LEMMA InitApart == Init => SInv
<1> SUFFICES ASSUME Init PROVE Apart
  BY NInvInit DEF SInv
<1>1. DOMAIN walks = {} /\ DOMAIN outputs = {} /\ DOMAIN snapshot.outputs = {} /\ runs = 0
  BY DEF Init, Nowhere
<1>2. Stamped /\ JoinsItsBranches
  BY <1>1 DEF Stamped, JoinsItsBranches
<1> QED
  BY <1>1, <1>2, NoWalks DEF Apart

LEMMA RunApart ==
    ASSUME IInv, Structured(wf), Apart, Start \/ Resume
    PROVE  Apart'
<1>1. PICK n, preload : /\ Run(n, preload)
                        /\ preload = snapshot.outputs \/ DOMAIN preload = {}
  BY DEF Start, Resume, Nowhere
<1> DEFINE root == Entering(Def.entry, NoNode, 0)
<1>2. /\ wf' = wf /\ snapshot' = snapshot /\ runs' = runs + 1 /\ outputs' = preload
      /\ DOMAIN walks' = {<< >>} /\ walks'[<< >>] = root
  BY <1>1 DEF Run
<1>3. root.at = Def.entry /\ root.stop = NoNode /\ root.phase = "enter"
  BY EnteringIs
<1>4. wf \in DOMAIN Workflows /\ Def = Workflows[wf] /\ Def = Compiled[wf] /\ Def.entry \in Nodes
  BY Regions, WorkflowAssumption DEF IInv, Compiles, Nodes
<1> HIDE DEF root
<1>5. << >> \in Seq(Index) /\ Len(<< >>) = 0 /\ \A i \in Index : Append(<< >>, i) # << >>
  OBVIOUS
<1>6. Placed'
  <2>1. Nodes' = Nodes /\ ParallelsIn(Def)' = ParallelsIn(Def) /\ Region[wf]' = Region[wf]
    BY <1>2, SameTables
  <2>2. SUFFICES ASSUME NEW a \in DOMAIN walks'
                 PROVE  /\ walks'[a].at \in Nodes'
                        /\ walks'[a].phase \notin {"execute", "fork", "loop"}
                        /\ \A i \in Index : Append(a, i) \notin DOMAIN walks'
    BY DEF Placed
  <2>3. a = << >>
    BY <1>2
  <2>4. walks'[a].at \in Nodes' /\ walks'[a].phase = "enter"
    BY <1>2, <1>3, <1>4, <2>1, <2>3
  <2>5. \A i \in Index : Append(a, i) \notin DOMAIN walks'
    BY <1>2, <1>5, <2>3
  <2> QED
    BY <2>4, <2>5
<1>7. InRegion'
  <2>1. ~Under(<< >>, << >>)
    BY <1>5 DEF Under
  <2> QED
    BY <1>2, <2>1 DEF InRegion
<1>8. InBody'
  BY <1>2, <1>3, <1>4, SameTables DEF InBody, Structured, BodiesAreOwned, Body
<1>9. OffJoins'
  BY <1>2, <1>3, <1>4, SameTables DEF OffJoins, Structured, JoinsAreOwned, JoinOf
<1>10. ASSUME NEW f \in {outputs', snapshot'.outputs}
       PROVE  NoNode \notin DOMAIN f /\ \A m \in DOMAIN f : f[m].run \in Nat /\ f[m].run <= runs
  BY <1>1, <1>2, <1>10 DEF Apart, Stamped
<1>11. runs \in Nat
  BY DEF Apart, Stamped
<1>12. Stamped'
  BY <1>2, <1>10, <1>11 DEF Stamped
<1>13. JoinsItsBranches'
  <2>1. \A m \in DOMAIN outputs' : outputs'[m].run # runs'
    BY <1>2, <1>10, <1>11
  <2> QED
    BY <2>1 DEF JoinsItsBranches
<1>14. Passed' /\ IterationsStartClean'
  BY <1>2, <1>3 DEF Passed, IterationsStartClean
<1> QED
  BY <1>6, <1>7, <1>8, <1>9, <1>12, <1>13, <1>14 DEF Apart

LEMMA ReportApart ==
    ASSUME NInv, Apart, Report
    PROVE  Apart'
<1>1. /\ DOMAIN walks = {<< >>} /\ walks' = Without(walks, {<< >>})
      /\ UNCHANGED <<wf, runs, outputs, results>>
      /\ snapshot'.outputs \in {outputs, snapshot.outputs}
  BY RootIsLast DEF Report, NInv, Saved
<1>2. DOMAIN walks' = {}
  BY <1>1 DEF Without
<1>3. Stamped'
  BY <1>1 DEF Apart, Stamped
<1>4. JoinsItsBranches'
  BY <1>1, SameTables DEF Apart, JoinsItsBranches, Settled
<1>5. (Placed /\ InRegion /\ InBody /\ OffJoins /\ Passed /\ IterationsStartClean)'
  BY <1>2 DEF Placed, InRegion, InBody, OffJoins, Passed, IterationsStartClean
<1> QED
  BY <1>3, <1>4, <1>5 DEF Apart

LEMMA MoveApart ==
    ASSUME NInv, Structured(wf), Apart, NEW a \in DOMAIN walks, Move(a)
    PROVE  Apart'
<1>1. IInv /\ Tree /\ Placed
  BY DEF NInv, Apart
<1>2. CASE Fork(a) \/ BeginLoop(a) \/ NextIteration(a)
  <2>1. PICK w, New : Begins(a, w, New)
    BY <1>1, <1>2, ForkBegins, LoopBegins
  <2> QED
    BY <1>1, <2>1, BeginApart
<1>3. CASE ~(Fork(a) \/ BeginLoop(a) \/ NextIteration(a))
  <2>1. PICK w : Advances(a, w)
    BY <1>1, <1>3, PlainForms, OutcomeForms, WaitForms DEF Move
  <2> QED
    BY <1>1, <2>1, AdvanceApart
<1> QED
  BY <1>2, <1>3

LEMMA StepApart == SInv /\ [Next]_vars => SInv'
<1> SUFFICES ASSUME SInv, [Next]_vars, Structured(wf)' PROVE Apart'
  BY NInvStep DEF SInv
<1>1. wf' = wf
  BY DEF Next, Start, Resume, Run, Progress, Report, Rest, Move, vars,
         ArriveAtStop, Halt, Replay, BeginStep, StepDone, StepSuspends, StepFails, PassThrough, Fork,
         JoinGivesUp, JoinBranches, TakeArm, FallThrough, EmptyLoop, BeginLoop, LoopRejects, NextIteration,
         EndLoop, LeaveLoop
<1>2. Structured(wf) /\ Apart /\ NInv /\ IInv
  BY <1>1 DEF SInv, NInv
<1>3. CASE Start \/ Resume
  BY <1>2, <1>3, RunApart
<1>4. CASE Report
  BY <1>2, <1>4, ReportApart
<1>5. ASSUME NEW a \in DOMAIN walks, Move(a) PROVE Apart'
  BY <1>2, <1>5, MoveApart
<1>6. CASE UNCHANGED vars
  BY <1>2, <1>6, SameTables
     DEF vars, Apart, Placed, InRegion, InBody, OffJoins, Stamped, Passed, IterationsStartClean,
         JoinsItsBranches, Settled
<1> QED
  BY <1>3, <1>4, <1>5, <1>6 DEF Next, Progress, Rest

LEMMA AlwaysApart == Spec => []SInv
<1> QED
  BY InitApart, StepApart, PTL DEF Spec

\* Iterations and branches are kept apart (executor.rs), in every workflow whose bodies and joins
\* are entered by their own loops and branches only: whatever runs beside it, an iteration sees no
\* output of another, and a join is passed when all its branches have come to an end.
THEOREM WalksStayApart == Spec => [](Structured(wf) => WalksKeepApart)
<1>1. SInv => (Structured(wf) => WalksKeepApart)
  BY DEF SInv, Apart, WalksKeepApart
<1> QED
  BY <1>1, AlwaysApart, PTL

-----------------------------------------------------------------------------
(* A report of success is true.                                            *)

\* No walk above a settles what becomes of it.
Free(a) == \A b \in DOMAIN walks : Under(a, b) /\ walks[b].phase = "fork" => ~Settles(wf, walks[b].at)

\* The walks above a are parallel nodes that do not settle, up to the root.
Main(a) == \A b \in DOMAIN walks : Under(a, b) => walks[b].phase = "fork" /\ ~Settles(wf, walks[b].at)

Trouble(a) == walks[a].phase \in {"error", "halted"} /\ Free(a)

\* While a run goes on, whatever did not complete is settled by a join, or on its way to the root.
NoLoss ==
    status = "running" =>
        \A n \in DOMAIN results :
            results[n] = "success" \/ n \in Settled \/ \E a \in DOMAIN walks : Trouble(a)

\* Every move is one of the two forms.
LEMMA MoveForms ==
    ASSUME NInv, Placed, NEW a \in DOMAIN walks, Move(a)
    PROVE  \/ \E w : Advances(a, w)
           \/ (Fork(a) \/ BeginLoop(a) \/ NextIteration(a)) /\ \E w, New : Begins(a, w, New)
<1>1. CASE Fork(a) \/ BeginLoop(a) \/ NextIteration(a)
  BY <1>1, ForkBegins, LoopBegins
<1>2. CASE ~(Fork(a) \/ BeginLoop(a) \/ NextIteration(a))
  BY <1>2, PlainForms, OutcomeForms, WaitForms DEF Move
<1> QED
  BY <1>1, <1>2

\* Who waits for a walk that stays, still does so, at the same node.
LEMMA AncestorsStay ==
    ASSUME NInv, Placed, NEW a \in DOMAIN walks, Move(a),
           NEW c \in DOMAIN walks, c \in DOMAIN walks', NEW b \in DOMAIN walks', Under(c, b), b \in Seq(Index)
    PROVE  /\ wf' = wf /\ b \in DOMAIN walks
           /\ walks'[b].at = walks[b].at /\ walks'[b].phase = walks[b].phase
<1>1. CASE \E w : Advances(a, w)
  <2>1. PICK w : Advances(a, w)
    BY <1>1
  <2> QED
    BY <2>1, Remaining DEF NInv, Advances
<1>2. CASE \E w, New : Begins(a, w, New)
  <2>1. PICK w, New : Begins(a, w, New)
    BY <1>2
  <2>2. wf' = wf /\ IInv /\ Tree /\ wf \in DOMAIN Workflows
    BY <2>1 DEF Begins, NInv, IInv
  <2>3. CASE c \notin New \/ b # a
    BY <2>1, <2>2, <2>3, Started
  <2>4. CASE c \in New /\ b = a
    <3>1. walks[a].phase \in {"fork", "loop"}
      BY <2>2, <2>4 DEF Tree
    <3>2. /\ walks[a].phase = "fork" => walks[a].at \in ParallelsIn(Def)
          /\ walks[a].phase = "loop" => walks[a].at \in LoopsIn(Def)
      BY <2>2 DEF Placed, IInv, WalkInv
    <3>3. \A n \in ParallelsIn(Def) : n \notin LoopsIn(Def)
      BY <2>2, Regions
    <3>4. /\ walks'[a] = w /\ w.at = walks[a].at
          /\ \/ w.phase = "fork" /\ w.at \in ParallelsIn(Def)
             \/ w.phase = "loop" /\ w.at \in LoopsIn(Def)
      BY <2>1 DEF Begins
    <3> QED
      BY <2>2, <2>4, <3>1, <3>2, <3>3, <3>4
  <2> QED
    BY <2>3, <2>4
<1> QED
  BY <1>1, <1>2, MoveForms

LEMMA FreeStays ==
    ASSUME NInv, Placed, NEW a \in DOMAIN walks, Move(a), NEW c \in DOMAIN walks, c \in DOMAIN walks'
    PROVE  (Free(c) => Free(c)') /\ (Main(c) => Main(c)')
<1>1. wf' = wf
  BY MoveForms DEF Advances, Begins
<1>2. ASSUME NEW b \in DOMAIN walks', Under(c, b)
      PROVE  b \in DOMAIN walks /\ walks'[b].at = walks[b].at /\ walks'[b].phase = walks[b].phase
  <2>1. NInv'
    BY NInvStep DEF Next, Progress
  <2>2. b \in Seq(Index)
    BY <2>1 DEF NInv, Tree
  <2> QED
    BY <1>2, <2>2, AncestorsStay
<1>3. Free(c) => Free(c)'
  BY <1>1, <1>2 DEF Free
<1>4. Main(c) => Main(c)'
  BY <1>1, <1>2 DEF Main
<1> QED
  BY <1>3, <1>4

\* A failure that no join settles, and a suspension, reach the walk above.
LEMMA TroubleRises ==
    ASSUME NInv, Placed, NEW a \in DOMAIN walks, Move(a), NEW c \in Below(a), c \notin DOMAIN walks',
           \/ walks[c].phase = "halted"
           \/ walks[c].phase = "error" /\ (walks[a].phase = "fork" => ~Settles(wf, walks[a].at))
    PROVE  a \in DOMAIN walks' /\ walks'[a].phase \in {"error", "halted"}
<1>1. /\ IInv /\ Tree /\ a \in Seq(Index) /\ c \in DOMAIN walks /\ Under(c, a)
      /\ walks[a].phase \in {"fork", "loop"} /\ IsWalk(walks[a]) /\ a \notin Below(a)
  BY DEF NInv, Tree, Below, Under, IInv, WalkInv
<1>2. ~\E w, New : Begins(a, w, New)
  BY DEF Begins, Below
<1>3. JoinGivesUp(a) \/ JoinBranches(a) \/ EndLoop(a) \/ LeaveLoop(a)
  <2>1. walks[a].phase \notin {"enter", "execute"}
    BY <1>1
  <2>2. ~(Fork(a) \/ BeginLoop(a) \/ NextIteration(a))
    BY <1>2, ForkBegins, LoopBegins
  <2> QED
    BY <2>1, <2>2 DEF Move, ArriveAtStop, Halt, Replay, BeginStep, PassThrough, EmptyLoop, FallThrough,
          LoopRejects, TakeArm, StepDone, StepSuspends, StepFails, Executing, Enters, AboutToEnter
<1>4. CASE JoinGivesUp(a)
  <2>1. PICK b \in Deciding(a) : Collect(a, [walks[a] EXCEPT !.phase = walks[b].phase])
    BY <1>4 DEF JoinGivesUp
  <2>2. walks[b].phase \in {"halted", "error"} /\ [walks[a] EXCEPT !.phase = walks[b].phase].phase = walks[b].phase
    BY <1>1, PhaseOnly DEF Deciding, Decides
  <2> QED
    BY <1>1, <2>1, <2>2 DEF Collect, Without
<1>5. CASE JoinBranches(a)
  <2>1. Deciding(a) = {} /\ AllReturned(a) /\ walks[a].phase = "fork"
    BY <1>5 DEF JoinBranches, Collect
  <2>2. c \in Children(a)
    <3>1. ASSUME NEW i \in Index, Append(a, i) \in DOMAIN walks PROVE walks[Append(a, i)].phase \in Returned
      <4>1. Append(a, i) \in Children(a)
        BY <1>1, <3>1, ChildIsUnder DEF Children, Below, Under
      <4> QED
        BY <2>1, <4>1 DEF AllReturned
    <3>2. c = Append(a, c[Len(a) + 1]) /\ c[Len(a) + 1] \in Index
      BY <1>1, <3>1, BelowReturned
    <3>3. Len(c) = Len(a) + 1
      BY <1>1, <3>2, ChildIsUnder
    <3> QED
      BY <3>3 DEF Children
  <2>3. Decides(walks[a].at, walks[c].phase)
    <3>1. Def = Workflows[wf]
      BY <1>1, Regions DEF IInv
    <3> QED
      BY <2>1, <3>1 DEF Decides, Strategy, Settles, JoinOf, JoinKinds
  <2> QED
    BY <2>1, <2>2, <2>3 DEF Deciding
<1>6. CASE EndLoop(a) \/ LeaveLoop(a)
  <2> DEFINE body == Append(a, 1)
  <2>1. walks[a].phase = "loop" /\ body \in DOMAIN walks /\ walks[body].phase \in Returned
    BY <1>6 DEF EndLoop, LeaveLoop, BodyReturned, Returned
  <2>2. c = body
    BY <1>1, <2>1, BodyIsAlone
  <2>3. LeaveLoop(a)
    BY <1>6, <2>2 DEF EndLoop, BodyReturned
  <2>4. [walks[a] EXCEPT !.phase = walks[body].phase].phase = walks[body].phase
    BY <1>1, PhaseOnly
  <2>5. a # body /\ a \in DOMAIN Without(walks, {body}) /\ Without(walks, {body})[a] = walks[a]
    BY <1>1, <2>2 DEF Without
  <2> QED
    BY <2>2, <2>3, <2>4, <2>5 DEF LeaveLoop
<1> QED
  BY <1>3, <1>4, <1>5, <1>6

LEMMA TroubleStays ==
    ASSUME NInv, Placed, NEW a \in DOMAIN walks, Move(a), NEW c \in DOMAIN walks, Trouble(c)
    PROVE  \E d \in DOMAIN walks' : Trouble(d)'
<1>1. /\ IInv /\ Tree /\ a \in Seq(Index) /\ c \in Seq(Index) /\ walks[c].phase \in {"error", "halted"} /\ Free(c)
  BY DEF NInv, Tree, Trouble
<1>2. ASSUME c \in DOMAIN walks', walks'[c] = walks[c] PROVE Trouble(c)'
  BY <1>1, <1>2, FreeStays DEF Trouble
<1>3. ASSUME NEW w, Advances(a, w) PROVE \E d \in DOMAIN walks' : Trouble(d)'
  <2>1. c # a
    BY <1>1, <1>3 DEF Advances, Returned
  <2>2. CASE c \notin Below(a)
    <3>1. c \in DOMAIN walks' /\ walks'[c] = walks[c]
      BY <1>3, <2>1, <2>2 DEF Advances
    <3> QED
      BY <1>2, <3>1
  <2>3. CASE c \in Below(a)
    <3>1. Under(c, a) /\ c \notin DOMAIN walks'
      BY <1>3, <2>3 DEF Advances, Below, Under
    <3>2. walks[a].phase = "fork" => ~Settles(wf, walks[a].at)
      BY <1>1, <3>1 DEF Free
    <3>3. a \in DOMAIN walks' /\ walks'[a].phase \in {"error", "halted"}
      BY <1>1, <2>3, <3>1, <3>2, TroubleRises
    <3>4. Free(a)
      <4>1. ASSUME NEW b \in DOMAIN walks, Under(a, b) PROVE Under(c, b)
        BY <1>1, <3>1, <4>1, UnderTwice DEF Tree
      <4> QED
        BY <1>1, <4>1 DEF Free
    <3> QED
      BY <3>3, <3>4, FreeStays DEF Trouble
  <2> QED
    BY <2>2, <2>3
<1>4. ASSUME Fork(a) \/ BeginLoop(a) \/ NextIteration(a), NEW w, NEW New, Begins(a, w, New)
      PROVE  \E d \in DOMAIN walks' : Trouble(d)'
  <2>1. c # a
    BY <1>1, <1>4 DEF Begins, Returned
  <2>2. CASE c \notin New
    <3>1. c \in DOMAIN walks' /\ walks'[c] = walks[c]
      BY <1>4, <2>1, <2>2 DEF Begins
    <3> QED
      BY <1>2, <3>1
  <2>3. CASE c \in New
    <3>1. Under(c, a)
      <4>1. PICK i \in Index : c = Append(a, i)
        BY <1>1, <1>4, <2>3, Started
      <4> QED
        BY <1>1, <4>1, ChildIsUnder
    <3>2. walks[a].phase \in {"fork", "loop"}
      BY <1>1, <3>1 DEF Tree
    <3>3. NextIteration(a)
      BY <1>4, <3>2 DEF Fork, BeginLoop, Enters, AboutToEnter
    <3>4. walks[a].phase = "loop" /\ Append(a, 1) \in DOMAIN walks /\ walks[Append(a, 1)].phase = "value"
      BY <3>3 DEF NextIteration, BodyReturned
    <3>5. Below(a) = {Append(a, 1)}
      BY <1>1, <3>4, BodyIsAlone DEF Returned
    <3> QED
      BY <1>1, <3>1, <3>4, <3>5 DEF Below, Under
  <2> QED
    BY <2>2, <2>3
<1> QED
  BY <1>3, <1>4, MoveForms

LEMMA MoveLoses ==
    ASSUME NInv, Placed, InRegion, NoLoss, NEW a \in DOMAIN walks, Move(a)
    PROVE  NoLoss'
<1>1. /\ IInv /\ Tree /\ wf' = wf /\ wf \in DOMAIN Workflows /\ status = "running" /\ status' = status /\ Settled' = Settled
  <2>1. wf' = wf /\ status = "running" /\ status' = status
    BY DEF Move, ArriveAtStop, Halt, Replay, BeginStep, StepDone, StepSuspends, StepFails, PassThrough, Fork,
           JoinGivesUp, JoinBranches, TakeArm, FallThrough, EmptyLoop, BeginLoop, LoopRejects, NextIteration,
           EndLoop, LeaveLoop, Enters, AboutToEnter, Executing, Collect, BodyReturned
  <2> QED
    BY <2>1 DEF NInv, IInv, Settled
<1>2. ASSUME NEW n \in DOMAIN results, results[n] # "success", n \notin Settled
      PROVE  \E d \in DOMAIN walks' : Trouble(d)'
  BY <1>1, <1>2, TroubleStays DEF NoLoss
<1>3. CASE results' = results
  BY <1>1, <1>2, <1>3 DEF NoLoss
<1> DEFINE n == walks[a].at
<1>4. CASE StepDone(a)
  <2>1. results' = Assign(results, n, "success")
    BY <1>4 DEF StepDone
  <2> QED
    BY <1>1, <1>2, <2>1 DEF NoLoss, Assign
<1>5. CASE StepSuspends(a) \/ StepFails(a)
  <2>1. PICK r \in {"suspended", "failed"}, phase \in {"halted", "error"} :
           results' = Assign(results, n, r) /\ SetPhase(a, phase) /\ walks[a].phase = "execute"
    <3>1. CASE StepSuspends(a)
      BY <3>1 DEF StepSuspends, Executing
    <3>2. CASE StepFails(a)
      BY <3>2 DEF StepFails, Executing
    <3> QED
      BY <1>5, <3>1, <3>2
  <2>2. CASE Free(a)
    <3>1. a \in DOMAIN walks' /\ walks'[a].phase = phase
      <4> DEFINE w == [walks[a] EXCEPT !.phase = phase]
      <4>1. w.phase = phase
        BY <1>1, PhaseOnly DEF IInv, WalkInv
      <4>2. walks' = [walks EXCEPT ![a] = w]
        BY <2>1 DEF SetPhase
      <4> HIDE DEF w
      <4> QED
        BY <4>1, <4>2
    <3>2. Trouble(a)'
      BY <2>1, <2>2, <3>1, FreeStays DEF Trouble
    <3> QED
      BY <1>1, <3>1, <3>2 DEF NoLoss
  <2>3. CASE ~Free(a)
    <3>1. PICK b \in DOMAIN walks : Under(a, b) /\ walks[b].phase = "fork" /\ Settles(wf, walks[b].at)
      BY <2>3 DEF Free
    <3> DEFINE p == walks[b].at
               i == a[Len(b) + 1]
    <3>2. b \in Seq(Index) /\ n # walks[a].stop /\ p \in ParallelsIn(Def)
      BY <1>1, <2>1, <3>1 DEF Tree, Placed
    <3>3. i \in DOMAIN Region[wf][p] /\ n \in Region[wf][p][i]
      BY <1>1, <3>1, <3>2, BranchOf DEF InRegion
    <3>4. n \in Settled
      <4>1. p \in {q \in ParallelsIn(Workflows[wf]) : Settles(wf, q)}
        BY <1>1, <3>1, <3>2, Regions
      <4> HIDE DEF p, i
      <4> QED
        BY <1>1, <3>3, <4>1 DEF Settled, SettledNodes, SettledIn
    <3> QED
      BY <1>1, <1>2, <2>1, <3>4 DEF NoLoss, Assign
  <2> QED
    BY <2>2, <2>3
<1> QED
  BY <1>3, <1>4, <1>5
     DEF Move, ArriveAtStop, Halt, Replay, BeginStep, PassThrough, Fork, JoinGivesUp, JoinBranches, TakeArm,
         FallThrough, EmptyLoop, BeginLoop, LoopRejects, NextIteration, EndLoop, LeaveLoop

LInv == SInv /\ (Structured(wf) => NoLoss /\ (status = "success" => NoFailureHidden))

LEMMA InitLoses == Init => LInv
<1> SUFFICES ASSUME Init PROVE LInv
  OBVIOUS
<1> QED
  BY InitApart DEF Init, LInv, NoLoss

\* When the root reports, no walk but it is left.
LEMMA RootReports ==
    ASSUME NInv, Report
    PROVE  /\ DOMAIN walks = {<< >>} /\ UNCHANGED <<wf, runs, target, outputs, results, begun, fell>>
           /\ status' = "success" => walks[<< >>].phase = "value"
<1>1. DOMAIN walks = {<< >>}
  BY RootIsLast DEF Report, NInv
<1> QED
  BY <1>1 DEF Report, Outcome, Returned

LEMMA StepLoses == LInv /\ [Next]_vars => LInv'
<1> SUFFICES ASSUME LInv, [Next]_vars, Structured(wf)' PROVE NoLoss' /\ (status' = "success" => NoFailureHidden')
  BY StepApart DEF LInv
<1>1. wf' = wf
  BY DEF Next, Start, Resume, Run, Progress, Report, Rest, Move, vars,
         ArriveAtStop, Halt, Replay, BeginStep, StepDone, StepSuspends, StepFails, PassThrough, Fork,
         JoinGivesUp, JoinBranches, TakeArm, FallThrough, EmptyLoop, BeginLoop, LoopRejects, NextIteration,
         EndLoop, LeaveLoop
<1>2. /\ NInv /\ Placed /\ InRegion /\ NoLoss /\ (status = "success" => NoFailureHidden) /\ Settled' = Settled
  BY <1>1 DEF LInv, SInv, Apart, Settled
<1>3. CASE Start \/ Resume
  <2>1. status' = "running" /\ DOMAIN results' = {}
    BY <1>3 DEF Start, Resume, Run, Nowhere
  <2> QED
    BY <2>1 DEF NoLoss
<1>4. CASE Report
  <2>1. DOMAIN walks = {<< >>} /\ results' = results /\ (status' = "success" => walks[<< >>].phase = "value")
    BY <1>2, <1>4, RootReports
  <2>2. status = "running" /\ status' # "running"
    BY <1>4 DEF Report, Outcome, Returned
  <2>3. status' = "success" => \A a \in DOMAIN walks : ~Trouble(a)
    BY <2>1 DEF Trouble
  <2> QED
    BY <1>2, <2>1, <2>2, <2>3 DEF NoLoss, NoFailureHidden
<1>5. ASSUME NEW a \in DOMAIN walks, Move(a) PROVE NoLoss' /\ (status' = "success" => NoFailureHidden')
  <2>1. status' = "running"
    BY <1>5 DEF Move, ArriveAtStop, Halt, Replay, BeginStep, StepDone, StepSuspends, StepFails, PassThrough, Fork,
           JoinGivesUp, JoinBranches, TakeArm, FallThrough, EmptyLoop, BeginLoop, LoopRejects, NextIteration,
           EndLoop, LeaveLoop, Enters, AboutToEnter, Executing, Collect, BodyReturned
  <2> QED
    BY <1>2, <1>5, <2>1, MoveLoses
<1>6. CASE UNCHANGED vars
  <2>1. NoLoss'
    <3>1. \A a \in DOMAIN walks : Trouble(a)' <=> Trouble(a)
      BY <1>6 DEF vars, Trouble, Free
    <3> QED
      BY <1>2, <1>6, <3>1 DEF vars, NoLoss
  <2> QED
    BY <1>2, <1>6, <2>1 DEF vars, NoFailureHidden
<1> QED
  BY <1>3, <1>4, <1>5, <1>6 DEF Next, Progress, Rest

\* Success hides no failure (executor.rs): in a workflow whose walks stay in regions of their own,
\* a run is reported as successful only if whatever it executed completed, save what is below a
\* join that settles.
THEOREM FailuresAreShown == Spec => [](Structured(wf) => (status = "success" => NoFailureHidden))
<1>1. LInv => (Structured(wf) => (status = "success" => NoFailureHidden))
  BY DEF LInv
<1> QED
  BY <1>1, InitLoses, StepLoses, PTL DEF Spec

LEMMA TrunkCloses ==
    ASSUME wf \in DOMAIN Workflows, Connected(wf)
    PROVE  LET T == Trunk(wf, Def.entry) IN
           Def.entry \in T /\ T \subseteq Nodes /\ \A n \in T : Onward[wf][n] \subseteq T
<1> DEFINE T == Trunk(wf, Def.entry)
           Closed(S) == Def.entry \in S /\ \A m \in S : Onward[wf][m] \subseteq S
<1>1. T = {n \in Nodes : \A S \in SUBSET Nodes : Closed(S) => n \in S}
  BY Regions DEF Trunk, Nodes
<1>2. Def.entry \in Nodes
  BY Regions, WorkflowAssumption DEF Compiles, Nodes
<1>3. \A m \in Nodes : Onward[wf][m] \subseteq Nodes
  BY Regions DEF Connected, Nodes
<1> HIDE DEF T
<1>4. ASSUME NEW n \in T, NEW m \in Onward[wf][n] PROVE m \in T
  <2>1. m \in Nodes
    BY <1>1, <1>3, <1>4
  <2>2. ASSUME NEW S \in SUBSET Nodes, Closed(S) PROVE m \in S
    BY <1>1, <1>4, <2>2
  <2> QED
    BY <1>1, <2>1, <2>2
<1>5. Def.entry \in T
  BY <1>1, <1>2
<1> QED
  BY <1>1, <1>4, <1>5 DEF T

\* The root walk is on the trunk, and when it ends well the node added last has its output.
Rooted ==
    status = "running" =>
        /\ << >> \in DOMAIN walks /\ walks[<< >>].stop = NoNode /\ walks[<< >>].at \in Trunk(wf, Def.entry)
        /\ walks[<< >>].phase = "value" => Def.cursor \in DOMAIN outputs \/ fell

LEMMA BehindEnds ==
    ASSUME NEW a, NEW n, walks[a].stop = NoNode, Behind(a, n).phase = "value"
    PROVE  ThenOf(Def, n) = NoNode
BY DEF Behind, Entering

\* Where the root walk finds nothing behind it.
LEMMA RootEnds ==
    ASSUME NInv, Structured(wf), Placed, OneEnd(wf), Rooted, NEW a \in DOMAIN walks, a = << >>, Move(a),
           a \in DOMAIN walks', walks'[a].phase = "value"
    PROVE  Def.cursor \in DOMAIN outputs' \/ fell'
<1> DEFINE n == walks[a].at
           last == Last(n)
<1>1. /\ IInv /\ wf \in DOMAIN Workflows /\ IsWalk(walks[a]) /\ n \in Nodes /\ Def = Compiled[wf]
  BY Regions DEF NInv, IInv, WalkInv, Placed
<1>2. status = "running" /\ walks[a].stop = NoNode /\ n \in Trunk(wf, Def.entry)
  BY DEF Rooted, Move, ArriveAtStop, Halt, Replay, BeginStep, StepDone, StepSuspends, StepFails, PassThrough, Fork,
         JoinGivesUp, JoinBranches, TakeArm, FallThrough, EmptyLoop, BeginLoop, LoopRejects, NextIteration,
         EndLoop, LeaveLoop, Enters, AboutToEnter, Executing, Collect, BodyReturned
<1>3. last # NoNode /\ (Def.nodes[n].kind # "branch" /\ ThenOf(Def, last) = NoNode => last = Def.cursor)
  BY <1>1, <1>2 DEF OneEnd, Last, JoinOf
<1>4. walks[a].phase \notin {"value", "halted", "error"}
  BY MoveForms DEF Advances, Begins, Returned
<1>5. ASSUME walks'[a] = Behind(a, last), last \in DOMAIN outputs', Def.nodes[n].kind # "branch"
      PROVE  Def.cursor \in DOMAIN outputs'
  BY <1>2, <1>3, <1>5, BehindEnds
<1>6. ASSUME NEW phase \in {"halted", "error", "execute"}, SetPhase(a, phase) PROVE FALSE
  <2> DEFINE w == [walks[a] EXCEPT !.phase = phase]
  <2>1. w.phase = phase
    BY <1>1, PhaseOnly
  <2>2. walks' = [walks EXCEPT ![a] = w]
    BY <1>6 DEF SetPhase
  <2> HIDE DEF w
  <2> QED
    BY <2>1, <2>2
<1>7. n \notin ParallelsIn(Def) => last = n
  BY DEF Last
<1>8. CASE ArriveAtStop(a)
  BY <1>1, <1>2, <1>8, Regions DEF ArriveAtStop
<1>9. CASE Halt(a) \/ BeginStep(a) \/ StepSuspends(a) \/ StepFails(a) \/ LoopRejects(a)
  <2>1. \E phase \in {"halted", "error", "execute"} : SetPhase(a, phase)
    BY <1>9 DEF Halt, BeginStep, StepSuspends, StepFails, LoopRejects
  <2> QED
    BY <1>6, <2>1
<1>10. CASE Replay(a)
  <2>1. walks'[a] = Behind(a, n) /\ n \in DOMAIN outputs' /\ Def.nodes[n].kind = "step"
    BY <1>10 DEF Replay, Enters, Memoized, Set
  <2> QED
    BY <1>5, <1>7, <2>1 DEF ParallelsIn
<1>11. CASE PassThrough(a) \/ EmptyLoop(a)
  <2>1. walks'[a] = Behind(a, n) /\ n \in DOMAIN outputs' /\ Def.nodes[n].kind \in {"map", "foreach"} \union JoinKinds
    BY <1>11 DEF PassThrough, EmptyLoop, Enters, Complete, Set, Assign
  <2> QED
    BY <1>5, <1>7, <2>1 DEF ParallelsIn, JoinKinds
<1>12. CASE StepDone(a)
  <2>1. walks'[a] = Behind(a, n) /\ n \in DOMAIN outputs'
    BY <1>12 DEF StepDone, Complete, Set, Assign
  <2>2. Def.nodes[n].kind = "step"
    BY <1>1, <1>12 DEF StepDone, Executing, IInv, WalkInv, Steps
  <2> QED
    BY <1>5, <1>7, <2>1, <2>2 DEF ParallelsIn
<1>13. CASE EndLoop(a)
  <2>1. n \in DOMAIN outputs' /\ walks[a].phase = "loop"
    BY <1>13 DEF EndLoop, BodyReturned, Assign
  <2>2. walks'[a] = Behind(a, n)
    <3>1. a \in DOMAIN Without(walks, {Append(a, 1)})
      BY DEF Without
    <3> QED
      BY <1>13, <3>1 DEF EndLoop
  <2>3. Def.nodes[n].kind \in LoopKinds
    BY <1>1, <2>1 DEF IInv, WalkInv, LoopsIn
  <2> QED
    BY <1>5, <1>7, <2>1, <2>2, <2>3 DEF ParallelsIn, LoopKinds
<1>14. CASE LeaveLoop(a) \/ JoinGivesUp(a)
  <2>1. PICK b, S :
           /\ b \in DOMAIN walks
           /\ walks[b].phase \in {"halted", "error"} /\ a \notin S
           /\ walks' = [Without(walks, S) EXCEPT ![a] = [walks[a] EXCEPT !.phase = walks[b].phase]]
    <3>1. CASE JoinGivesUp(a)
      <4>1. PICK b \in Deciding(a) : Collect(a, [walks[a] EXCEPT !.phase = walks[b].phase])
        BY <3>1 DEF JoinGivesUp
      <4>2. b \in DOMAIN walks /\ walks[b].phase \in {"halted", "error"} /\ a \notin Below(a)
        BY DEF Deciding, Decides, Children, Below
      <4> QED
        BY <4>1, <4>2 DEF Collect
    <3>2. CASE LeaveLoop(a)
      <4>1. a # Append(a, 1) /\ a \in DOMAIN Without(walks, {Append(a, 1)})
            /\ Without(walks, {Append(a, 1)})[a] = walks[a]
        BY <1>14 DEF Without
      <4> QED
        BY <3>2, <4>1 DEF LeaveLoop, BodyReturned
    <3> QED
      BY <1>14, <3>1, <3>2
  <2> DEFINE w == [walks[a] EXCEPT !.phase = walks[b].phase]
  <2>2. w.phase = walks[b].phase
    BY <1>1, PhaseOnly
  <2> HIDE DEF w
  <2>3. walks'[a] = w
    BY <2>1 DEF Without, w
  <2> QED
    BY <2>1, <2>2, <2>3
<1>15. CASE JoinBranches(a)
  <2>1. walks[a].phase = "fork" /\ n \in ParallelsIn(Def) /\ last = JoinOf(n)
    BY <1>15 DEF JoinBranches, Collect, Placed, Last
  <2>2. walks' = [Without(walks, Below(a)) EXCEPT ![a] = Behind(a, last)] /\ last \in DOMAIN outputs'
    BY <1>3, <1>15, <2>1 DEF JoinBranches, Collect, Assign
  <2>3. walks'[a] = Behind(a, last)
    <3>1. a \in DOMAIN Without(walks, Below(a))
      BY DEF Without, Below
    <3> QED
      BY <2>2, <3>1
  <2> QED
    BY <1>5, <2>1, <2>2, <2>3 DEF ParallelsIn
<1>16. CASE FallThrough(a)
  BY <1>16 DEF FallThrough
<1>17. CASE TakeArm(a)
  BY <1>17, EnteringIs DEF TakeArm, Set
<1>18. CASE Fork(a) \/ BeginLoop(a) \/ NextIteration(a)
  <2>1. PICK w, New : Begins(a, w, New)
    BY <1>18, ForkBegins, LoopBegins
  <2> QED
    BY <2>1 DEF Begins
<1> QED
  BY <1>8, <1>9, <1>10, <1>11, <1>12, <1>13, <1>14, <1>15, <1>16, <1>17, <1>18 DEF Move

LEMMA RootIsAbove ==
    ASSUME Tree, NEW a \in DOMAIN walks, a # << >>
    PROVE  Under(a, << >>) /\ << >> \in DOMAIN walks /\ walks[<< >>].phase \in {"fork", "loop"}
<1>1. a \in Seq(Index) /\ << >> \in Seq(Index)
  BY DEF Tree
<1>2. Len(<< >>) = 0 /\ Len(a) > 0 /\ \A i \in 1..0 : a[i] = << >>[i]
  BY <1>1
<1>3. Under(a, << >>)
  BY <1>1, <1>2, UnderByEntry
<1> QED
  BY <1>1, <1>3 DEF Tree

LEMMA RootMoves ==
    ASSUME NInv, Structured(wf), Placed, OneEnd(wf), Rooted, NEW a \in DOMAIN walks, Move(a)
    PROVE  Rooted'
<1> DEFINE T == Trunk(wf, Def.entry)
<1>1. /\ IInv /\ Tree /\ wf \in DOMAIN Workflows /\ wf' = wf /\ status = "running" /\ a \in Seq(Index)
  BY DEF NInv, IInv, Tree, Move, ArriveAtStop, Halt, Replay, BeginStep, StepDone, StepSuspends, StepFails,
         PassThrough, Fork, JoinGivesUp, JoinBranches, TakeArm, FallThrough, EmptyLoop, BeginLoop, LoopRejects,
         NextIteration, EndLoop, LeaveLoop, Enters, AboutToEnter, Executing, Collect, BodyReturned
<1>2. /\ << >> \in DOMAIN walks /\ walks[<< >>].stop = NoNode /\ walks[<< >>].at \in T
  BY <1>1 DEF Rooted
<1>3. SUFFICES /\ << >> \in DOMAIN walks' /\ walks'[<< >>].stop = NoNode /\ walks'[<< >>].at \in T
               /\ walks'[<< >>].phase = "value" => Def.cursor \in DOMAIN outputs' \/ fell'
  BY <1>1, SameTables DEF Rooted
<1>4. CASE a # << >>
  <2>2. walks[<< >>].phase \in {"fork", "loop"}
    BY <1>1, <1>4, RootIsAbove
  <2>3. << >> \in DOMAIN walks' /\ walks'[<< >>] = walks[<< >>]
    <3>1. ASSUME NEW w, Advances(a, w) PROVE << >> \in DOMAIN walks' /\ walks'[<< >>] = walks[<< >>]
      BY <1>1, <1>2, <1>4, <2>2, <3>1, Remaining DEF Advances
    <3>2. ASSUME NEW w, NEW New, Begins(a, w, New) PROVE << >> \in DOMAIN walks' /\ walks'[<< >>] = walks[<< >>]
      BY <1>1, <1>2, <1>4, <2>2, <3>2, Started DEF Begins
    <3> QED
      BY <3>1, <3>2, MoveForms
  <2> QED
    BY <1>2, <2>2, <2>3
<1>5. CASE a = << >>
  <2>1. a \in DOMAIN walks' /\ walks'[a].stop = NoNode /\ walks'[a].at \in T
    <3>1. Connected(wf) /\ \A n \in T : Onward[wf][n] \subseteq T
      BY <1>1, TrunkCloses DEF Structured
    <3>2. ASSUME NEW w, Advances(a, w) PROVE a \in DOMAIN walks' /\ walks'[a].stop = NoNode /\ walks'[a].at \in T
      <4>1. a \in DOMAIN walks'
        BY <1>1, <3>2, Remaining
      <4> QED
        BY <1>2, <1>5, <3>1, <3>2, <4>1 DEF Advances
    <3>3. ASSUME NEW w, NEW New, Begins(a, w, New)
          PROVE  a \in DOMAIN walks' /\ walks'[a].stop = NoNode /\ walks'[a].at \in T
      BY <1>2, <1>5, <3>3 DEF Begins
    <3> QED
      BY <3>2, <3>3, MoveForms
  <2> QED
    BY <1>5, <2>1, RootEnds
<1> QED
  BY <1>4, <1>5

\* What is ahead.
LEMMA AheadCloses ==
    ASSUME wf \in DOMAIN Workflows, Connected(wf), NEW n \in Nodes
    PROVE  /\ n \in Ahead(wf, n) /\ Ahead(wf, n) \subseteq Nodes
           /\ \A m \in Ahead(wf, n) :
                 /\ Onward[wf][m] \subseteq Ahead(wf, n)
                 /\ m \in ParallelsIn(Def) /\ ~Settles(wf, m) =>
                       \A i \in DOMAIN Starts[wf][m] : Starts[wf][m][i] \in Ahead(wf, n)
<1> DEFINE A == Ahead(wf, n)
           Closed(S) == \A m \in S :
               /\ Onward[wf][m] \subseteq S
               /\ m \in ParallelsIn(Def) /\ ~Settles(wf, m) => \A i \in DOMAIN Starts[wf][m] : Starts[wf][m][i] \in S
<1>1. A = {m \in Nodes : \A S \in SUBSET Nodes : n \in S /\ Closed(S) => m \in S}
  BY Regions DEF Ahead, Nodes
<1>2. \A m \in Nodes : Onward[wf][m] \subseteq Nodes /\ \A i \in DOMAIN Starts[wf][m] : Starts[wf][m][i] \in Nodes
  BY Regions DEF Connected, Nodes
<1> HIDE DEF A
<1>3. ASSUME NEW m \in A, NEW k \in Nodes,
             \A S \in SUBSET Nodes : Closed(S) /\ m \in S => k \in S
      PROVE  k \in A
  <2>1. ASSUME NEW S \in SUBSET Nodes, n \in S, Closed(S) PROVE k \in S
    <3>1. m \in S
      BY <1>1, <2>1
    <3> QED
      BY <1>3, <2>1, <3>1
  <2> QED
    BY <1>1, <2>1
<1>4. A \subseteq Nodes /\ n \in A
  BY <1>1
<1>5. ASSUME NEW m \in A, NEW k \in Onward[wf][m] PROVE k \in A
  BY <1>2, <1>3, <1>4, <1>5
<1>6. ASSUME NEW m \in A, m \in ParallelsIn(Def), ~Settles(wf, m), NEW i \in DOMAIN Starts[wf][m]
      PROVE  Starts[wf][m][i] \in A
  BY <1>2, <1>3, <1>4, <1>6
<1> QED
  BY <1>4, <1>5, <1>6 DEF A

\* What is ahead of a node is the node, or ahead of one of those it leads to.
LEMMA AheadSplits ==
    ASSUME wf \in DOMAIN Workflows, Connected(wf), NEW n \in Nodes, NEW g \in Ahead(wf, n), g # n
    PROVE  \/ \E m \in Onward[wf][n] : g \in Ahead(wf, m)
           \/ /\ n \in ParallelsIn(Def) /\ ~Settles(wf, n)
              /\ \E i \in DOMAIN Starts[wf][n] : g \in Ahead(wf, Starts[wf][n][i])
<1> DEFINE First == IF n \in ParallelsIn(Def) /\ ~Settles(wf, n)
                    THEN {Starts[wf][n][i] : i \in DOMAIN Starts[wf][n]} ELSE {}
           Next1 == Onward[wf][n] \union First
           S == {n} \union UNION {Ahead(wf, m) : m \in Next1}
           Closed(R) == \A m \in R :
               /\ Onward[wf][m] \subseteq R
               /\ m \in ParallelsIn(Def) /\ ~Settles(wf, m) => \A i \in DOMAIN Starts[wf][m] : Starts[wf][m][i] \in R
<1>1. Next1 \subseteq Nodes
  BY Regions DEF Connected, Nodes
<1>2. \A m \in Next1 : m \in Ahead(wf, m) /\ Ahead(wf, m) \subseteq Nodes
  BY <1>1, AheadCloses
<1> HIDE DEF First
<1>3. ASSUME NEW m \in S
      PROVE  /\ Onward[wf][m] \subseteq S
             /\ m \in ParallelsIn(Def) /\ ~Settles(wf, m) => \A i \in DOMAIN Starts[wf][m] : Starts[wf][m][i] \in S
  <2>1. CASE m = n
    BY <1>2, <2>1 DEF First
  <2>2. CASE m # n
    <3>1. PICK k \in Next1 : m \in Ahead(wf, k)
      BY <2>2
    <3>2. /\ Onward[wf][m] \subseteq Ahead(wf, k)
          /\ m \in ParallelsIn(Def) /\ ~Settles(wf, m) =>
                \A i \in DOMAIN Starts[wf][m] : Starts[wf][m][i] \in Ahead(wf, k)
      BY <1>1, <3>1, AheadCloses
    <3>3. Ahead(wf, k) \subseteq S
      BY <3>1
    <3> QED
      BY <3>2, <3>3
  <2> QED
    BY <2>1, <2>2
<1>4. S \in SUBSET Nodes /\ n \in S
  BY <1>1, <1>2
<1>5. g \in S
  <2>1. Ahead(wf, n) = {m \in Nodes : \A R \in SUBSET Nodes : n \in R /\ Closed(R) => m \in R}
    BY Regions DEF Ahead, Nodes
  <2>2. Closed(S)
    BY <1>3
  <2> HIDE DEF S, Closed
  <2> QED
    BY <1>4, <2>1, <2>2
<1>6. PICK m \in Next1 : g \in Ahead(wf, m)
  BY <1>5
<1> QED
  BY <1>6 DEF First

NoBranch == \A n \in Nodes : Def.nodes[n].kind # "branch"

\* the step resumed, or the parallel node whose branch it begins, if that may fail
Goal(g) ==
    \/ g = target
    \/ /\ g \in ParallelsIn(Def) /\ Settles(wf, g)
       /\ \E i \in DOMAIN Starts[wf][g] : Starts[wf][g][i] = target

Awaits(a, g) ==
    \/ walks[a].phase = "enter" /\ g \in Ahead(wf, walks[a].at)
    \/ walks[a].phase \in {"execute", "fork", "loop"} /\ \E m \in Onward[wf][walks[a].at] : g \in Ahead(wf, m)

\* a branch of a is about to enter the step resumed, or was kept from it by a suspension
OnTheWay(a) ==
    /\ walks[a].phase = "fork"
    /\ \E i \in DOMAIN Region[wf][walks[a].at] : LET c == walks[Append(a, i)] IN
          c.phase = "halted" \/ (c.phase = "enter" /\ c.at = target)

Found ==
    \/ target \in begun
    \/ \E a \in DOMAIN walks : Trouble(a)
    \/ \E a \in DOMAIN walks : Main(a) /\ ((\E g : Goal(g) /\ Awaits(a, g)) \/ OnTheWay(a))

\* The step resumed is still ahead of a walk whose end the root has to wait for.
Responsible ==
    status = "running" /\ target # NoNode =>
        target \in Steps /\ (NoBranch /\ target \notin Looped => Found)

\* Walks that wait for no settlement are bounded by joins, which no edge leads to.
LEMMA MainGoesOn ==
    ASSUME NInv, Structured(wf), Apart, walks[<< >>].stop = NoNode, NEW a \in DOMAIN walks, Main(a)
    PROVE  /\ walks[a].at # walks[a].stop
           /\ walks[a].stop \notin Onward[wf][walks[a].at]
<1>1. /\ IInv /\ Tree /\ Placed /\ OffJoins /\ wf \in DOMAIN Workflows /\ walks[a].at \in Nodes
      /\ Connected(wf) /\ JoinsAreOwned(wf)
  BY DEF NInv, IInv, Apart, Placed, Structured
<1>2. walks[a].stop = NoNode \/ \E p \in ParallelsIn(Def) : JoinOf(p) # NoNode /\ walks[a].stop = JoinOf(p)
  <2>1. CASE a = << >>
    BY <2>1
  <2>2. CASE a # << >>
    <3>1. Under(a, << >>) /\ a \in Seq(Index) /\ << >> \in Seq(Index)
      BY <1>1, <2>2, RootIsAbove DEF Tree
    <3>2. PICK q \in Seq(Index), j \in Index : a = Append(q, j)
      <4>1. PICK p \in Seq(Index) : Under(a, p)
        BY <3>1
      <4>2. a \in Seq(Index)
        BY <3>1
      <4> QED
        BY <4>1, <4>2, Parent
    <3>3. Under(a, q) /\ q \in DOMAIN walks
      BY <1>1, <3>2, ChildIsUnder DEF Tree
    <3>4. walks[q].at \in ParallelsIn(Def) /\ walks[a].stop = StopOf[wf][walks[q].at]
      BY <1>1, <3>2, <3>3 DEF Main, Placed
    <3> QED
      BY <1>1, <3>4, Regions
  <2> QED
    BY <2>1, <2>2
<1>3. CASE walks[a].stop = NoNode
  BY <1>1, <1>3, Regions DEF Connected, Nodes
<1>4. ASSUME NEW p \in ParallelsIn(Def), JoinOf(p) # NoNode, walks[a].stop = JoinOf(p)
      PROVE  walks[a].at # walks[a].stop /\ walks[a].stop \notin Onward[wf][walks[a].at]
  BY <1>1, <1>4, Regions DEF OffJoins, JoinsAreOwned, JoinOf, Nodes
<1> QED
  BY <1>2, <1>3, <1>4

LEMMA BehindAwaits ==
    ASSUME NInv, Structured(wf), Apart, walks[<< >>].stop = NoNode, NoBranch, NEW a \in DOMAIN walks, Main(a), Move(a),
           NEW g, NEW m \in Onward[wf][walks[a].at], g \in Ahead(wf, m),
           a \in DOMAIN walks', walks'[a] = Behind(a, Last(walks[a].at))
    PROVE  Awaits(a, g)'
<1>1. wf \in DOMAIN Workflows /\ wf' = wf /\ walks[a].at \in Nodes
  BY MoveForms DEF NInv, IInv, Apart, Placed, Advances, Begins
<1>2. m # NoNode /\ m = ThenOf(Def, Last(walks[a].at)) /\ m # walks[a].stop
  BY <1>1, OnwardOnly, MainGoesOn DEF NoBranch
<1>3. walks'[a].phase = "enter" /\ walks'[a].at = m
  BY <1>2, EnteringIs DEF Behind
<1> QED
  BY <1>1, <1>3 DEF Awaits

LEMMA MainInTrouble ==
    ASSUME NInv, Placed, NEW a \in DOMAIN walks, Move(a), Main(a),
           a \in DOMAIN walks', walks'[a].phase \in {"error", "halted"}
    PROVE  Found'
<1>1. Free(a)
  BY DEF Main, Free
<1>2. Trouble(a)'
  BY <1>1, FreeStays DEF Trouble
<1> QED
  BY <1>2 DEF Found

\* Moves after which the walk itself is no longer under way.
LEMMA PhaseAfter ==
    ASSUME NEW a \in DOMAIN walks, IsWalk(walks[a]), NEW phase, SetPhase(a, phase)
    PROVE  a \in DOMAIN walks' /\ walks'[a].phase = phase /\ walks'[a].at = walks[a].at
<1> DEFINE w == [walks[a] EXCEPT !.phase = phase]
<1>1. w.phase = phase /\ w.at = walks[a].at
  BY PhaseOnly
<1>2. walks' = [walks EXCEPT ![a] = w]
  BY DEF SetPhase
<1> HIDE DEF w
<1> QED
  BY <1>1, <1>2

\* The walk that has the step ahead of it moves.
LEMMA SeekerMoves ==
    ASSUME NInv, Structured(wf), Apart, walks[<< >>].stop = NoNode, NoBranch, target \in Steps,
           NEW a \in DOMAIN walks, Main(a), Move(a), NEW g, Goal(g), Awaits(a, g)
    PROVE  Found'
<1> DEFINE n == walks[a].at
<1>1. /\ IInv /\ Tree /\ Placed /\ Connected(wf) /\ wf \in DOMAIN Workflows /\ n \in Nodes /\ IsWalk(walks[a])
      /\ a \in Seq(Index)
  BY DEF NInv, IInv, Apart, Placed, Structured, WalkInv, Tree
<1>2. /\ wf' = wf /\ target' = target /\ begun \subseteq begun'
  BY DEF Move, ArriveAtStop, Halt, Replay, BeginStep, StepDone, StepSuspends, StepFails,
         PassThrough, Fork, JoinGivesUp, JoinBranches, TakeArm, FallThrough, EmptyLoop, BeginLoop, LoopRejects,
         NextIteration, EndLoop, LeaveLoop
<1>3. /\ \A k : Goal(k)' <=> Goal(k)
      /\ g \in Steps \union ParallelsIn(Def) /\ (g \in Steps => g = target) /\ (g \in ParallelsIn(Def) => Settles(wf, g))
  <2>1. \A k : k \in ParallelsIn(Def) => k \notin Steps
    BY DEF ParallelsIn, Steps
  <2> QED
    BY <1>2, <2>1, SameTables DEF Goal
<1>4. ASSUME a \in DOMAIN walks', Awaits(a, g)' PROVE Found'
  BY <1>1, <1>3, <1>4, FreeStays DEF Found
<1>5. ASSUME a \in DOMAIN walks', walks'[a].phase \in {"error", "halted"} PROVE Found'
  BY <1>1, <1>5, MainInTrouble
<1>6. ASSUME NEW m \in Onward[wf][n], g \in Ahead(wf, m), a \in DOMAIN walks', walks'[a] = Behind(a, Last(n))
      PROVE  Found'
  BY <1>4, <1>6, BehindAwaits
<1>7. ASSUME NEW m \in Onward[wf][n], g \in Ahead(wf, m), a \in DOMAIN walks', walks'[a].at = n,
             walks'[a].phase \in {"execute", "fork", "loop"}
      PROVE  Found'
  BY <1>2, <1>4, <1>7 DEF Awaits
<1>8. n \notin ParallelsIn(Def) => Last(n) = n
  BY DEF Last
<1>9. walks[a].phase = "enter" /\ n \notin ParallelsIn(Def) /\ n # target =>
         \E m \in Onward[wf][n] : g \in Ahead(wf, m)
  <2>1. walks[a].phase = "enter" /\ n \notin ParallelsIn(Def) /\ n # target => g # n /\ g \in Ahead(wf, n)
    BY <1>3 DEF Awaits
  <2> QED
    BY <1>1, <2>1, AheadSplits
<1>10. CASE ArriveAtStop(a)
  BY <1>10, MainGoesOn DEF ArriveAtStop
<1>11. CASE Halt(a) \/ LoopRejects(a) \/ StepSuspends(a) \/ StepFails(a)
  <2>1. \E phase \in {"halted", "error"} : SetPhase(a, phase)
    BY <1>11 DEF Halt, LoopRejects, StepSuspends, StepFails
  <2> QED
    BY <1>1, <1>5, <2>1, PhaseAfter
<1>12. CASE Replay(a)
  <2>1. /\ n # target /\ n \notin ParallelsIn(Def) /\ walks[a].phase = "enter"
        /\ a \in DOMAIN walks' /\ walks'[a] = Behind(a, n)
    BY <1>12 DEF Replay, Enters, AboutToEnter, Memoized, ParallelsIn, Set
  <2> QED
    BY <1>6, <1>8, <1>9, <2>1
<1>13. CASE BeginStep(a)
  <2>1. n \in begun' /\ walks[a].phase = "enter" /\ n \notin ParallelsIn(Def)
    BY <1>13 DEF BeginStep, Enters, AboutToEnter, ParallelsIn
  <2>2. a \in DOMAIN walks' /\ walks'[a].phase = "execute" /\ walks'[a].at = n
    BY <1>1, <1>13, PhaseAfter DEF BeginStep
  <2>3. CASE n = target
    BY <1>2, <2>1, <2>3 DEF Found
  <2> QED
    BY <1>7, <1>9, <2>1, <2>2, <2>3
<1>14. CASE PassThrough(a) \/ EmptyLoop(a)
  <2>1. /\ n # target /\ n \notin ParallelsIn(Def) /\ walks[a].phase = "enter"
        /\ a \in DOMAIN walks' /\ walks'[a] = Behind(a, n)
    BY <1>14 DEF PassThrough, EmptyLoop, Enters, AboutToEnter, Complete, ParallelsIn, Steps, JoinKinds, Set
  <2> QED
    BY <1>6, <1>8, <1>9, <2>1
<1>15. CASE StepDone(a)
  <2>1. /\ walks[a].phase = "execute" /\ n \in Steps /\ n \notin ParallelsIn(Def)
        /\ a \in DOMAIN walks' /\ walks'[a] = Behind(a, n)
    BY <1>1, <1>15 DEF StepDone, Executing, Complete, IInv, WalkInv, Steps, ParallelsIn, Set
  <2> QED
    BY <1>6, <1>8, <2>1 DEF Awaits
<1>16. CASE JoinGivesUp(a) \/ LeaveLoop(a)
  <2>1. PICK phase, S :
           phase \in {"halted", "error"} /\ a \notin S /\ walks' = [Without(walks, S) EXCEPT ![a] = [walks[a] EXCEPT !.phase = phase]]
    <3>1. CASE JoinGivesUp(a)
      <4>1. PICK b \in Deciding(a) : Collect(a, [walks[a] EXCEPT !.phase = walks[b].phase])
        BY <3>1 DEF JoinGivesUp
      <4>2. walks[b].phase \in {"halted", "error"} /\ a \notin Below(a)
        BY DEF Deciding, Decides, Below
      <4> QED
        BY <4>1, <4>2 DEF Collect
    <3>2. CASE LeaveLoop(a)
      <4>1. a # Append(a, 1) /\ a \in DOMAIN Without(walks, {Append(a, 1)})
            /\ Without(walks, {Append(a, 1)})[a] = walks[a]
        BY <1>1 DEF Without
      <4> QED
        BY <3>2, <4>1 DEF LeaveLoop, BodyReturned
    <3> QED
      BY <1>16, <3>1, <3>2
  <2> DEFINE w == [walks[a] EXCEPT !.phase = phase]
  <2>2. w.phase = phase
    BY <1>1, PhaseOnly
  <2> HIDE DEF w
  <2>3. a \in DOMAIN walks' /\ walks'[a] = w
    BY <2>1 DEF Without, w
  <2> QED
    BY <1>5, <2>1, <2>2, <2>3
<1>17. CASE JoinBranches(a)
  <2>1. walks[a].phase = "fork" /\ n \in ParallelsIn(Def) /\ Last(n) = JoinOf(n)
    BY <1>1, <1>17 DEF JoinBranches, Collect, Placed, Last
  <2>2. PICK m \in Onward[wf][n] : g \in Ahead(wf, m)
    BY <2>1 DEF Awaits
  <2>3. Last(n) # NoNode
    BY <1>1, OnwardOnly DEF NoBranch
  <2>4. a \in DOMAIN walks' /\ walks'[a] = Behind(a, Last(n))
    <3>1. a \in DOMAIN Without(walks, Below(a))
      BY DEF Without, Below
    <3> QED
      BY <1>17, <2>1, <2>3, <3>1 DEF JoinBranches, Collect
  <2> QED
    BY <1>6, <2>2, <2>4
<1>18. CASE TakeArm(a) \/ FallThrough(a)
  BY <1>1, <1>18 DEF TakeArm, FallThrough, Enters, NoBranch
<1>19. CASE EndLoop(a)
  <2>1. walks[a].phase = "loop" /\ n \notin ParallelsIn(Def)
    BY <1>1, <1>19, Regions DEF EndLoop, BodyReturned, IInv, WalkInv
  <2>2. a \in DOMAIN walks' /\ walks'[a] = Behind(a, n)
    <3>1. a \in DOMAIN Without(walks, {Append(a, 1)})
      BY <1>1 DEF Without
    <3> QED
      BY <1>19, <3>1 DEF EndLoop
  <2> QED
    BY <1>6, <1>8, <2>1, <2>2 DEF Awaits
<1>20. CASE BeginLoop(a) \/ NextIteration(a)
  <2>1. PICK round, items : Iterate(a, round, items)
    BY <1>20 DEF BeginLoop, NextIteration
  <2>2. a # Append(a, 1)
    BY <1>1
  <2>3. a \in DOMAIN walks' /\ walks'[a].phase = "loop" /\ walks'[a].at = n
    BY <2>1, <2>2 DEF Iterate, InLoop
  <2>4. \E m \in Onward[wf][n] : g \in Ahead(wf, m)
    <3>1. CASE BeginLoop(a)
      <4>1. walks[a].phase = "enter" /\ n # target /\ n \notin ParallelsIn(Def)
        BY <3>1 DEF BeginLoop, Enters, AboutToEnter, LoopKinds, Steps, ParallelsIn
      <4> QED
        BY <1>9, <4>1
    <3>2. CASE NextIteration(a)
      BY <3>2 DEF NextIteration, BodyReturned, Awaits
    <3> QED
      BY <1>20, <3>1, <3>2
  <2> QED
    BY <1>7, <2>3, <2>4
<1>21. CASE Fork(a)
  <2>1. PICK w, New : Begins(a, w, New)
    BY <1>21, ForkBegins
  <2>2. walks[a].phase = "enter" /\ n \in ParallelsIn(Def) /\ g \in Ahead(wf, n)
    BY <1>1, <1>21 DEF Fork, Enters, AboutToEnter, ParallelsIn, Awaits
  <2>3. a \in DOMAIN walks' /\ walks'[a].at = n /\ walks'[a].phase = "fork"
    <3>1. n \notin LoopsIn(Def)
      BY <1>1, <2>2, Regions
    <3> QED
      BY <2>1, <3>1 DEF Begins
  <2>4. ASSUME NEW i \in DOMAIN Starts[wf][n]
        PROVE  LET c == Append(a, i) IN
               /\ i \in Index /\ c \in DOMAIN walks' /\ walks'[c].phase = "enter"
               /\ walks'[c].at = Starts[wf][n][i] /\ i \in DOMAIN Region[wf][n]
    <3>1. i \in DOMAIN Region[wf][n]
      BY <1>1, Regions
    <3>2. i \in Index
      BY <1>1, <3>1, StartIsIndex
    <3> QED
      BY <2>1, <3>1, <3>2 DEF Begins
  <2>5. CASE g = n
    <3>1. PICK i \in DOMAIN Starts[wf][n] : Starts[wf][n][i] = target
      BY <1>3, <2>2, <2>5 DEF Goal, Steps, ParallelsIn
    <3>2. OnTheWay(a)'
      BY <1>2, <2>3, <2>4, <3>1 DEF OnTheWay
    <3>3. Main(a)'
      BY <1>1, <2>3, FreeStays
    <3> QED
      BY <2>3, <3>2, <3>3 DEF Found
  <2>6. CASE g # n /\ \E m \in Onward[wf][n] : g \in Ahead(wf, m)
    BY <1>7, <2>3, <2>6
  <2>7. CASE ~Settles(wf, n) /\ \E i \in DOMAIN Starts[wf][n] : g \in Ahead(wf, Starts[wf][n][i])
    <3>1. PICK i \in DOMAIN Starts[wf][n] : g \in Ahead(wf, Starts[wf][n][i])
      BY <2>7
    <3> DEFINE c == Append(a, i)
    <3>2. i \in Index /\ c \in DOMAIN walks' /\ walks'[c].phase = "enter" /\ walks'[c].at = Starts[wf][n][i]
      BY <2>4
    <3>3. Awaits(c, g)'
      BY <1>2, <3>1, <3>2 DEF Awaits
    <3>4. Main(c)'
      <4>1. ASSUME NEW b \in DOMAIN walks', Under(c, b)
            PROVE  walks'[b].phase = "fork" /\ ~Settles(wf, walks'[b].at)
        <5>1. Tree'
          BY NInvStep DEF Next, Progress, NInv
        <5>2. b \in Seq(Index)
          BY <5>1 DEF Tree
        <5>3. b = a \/ Under(a, b)
          BY <1>1, <3>2, <4>1, <5>2, UnderChild
        <5>4. Main(a)'
          BY <1>1, <2>3, FreeStays
        <5> QED
          BY <1>2, <2>3, <2>7, <5>3, <5>4 DEF Main
      <4> QED
        BY <1>2, <4>1 DEF Main
    <3>5. Goal(g)'
      BY <1>3
    <3> HIDE DEF c
    <3> QED
      BY <3>2, <3>3, <3>4, <3>5 DEF Found
  <2> QED
    BY <1>1, <2>2, <2>5, <2>6, <2>7, AheadSplits
<1> QED
  BY <1>10, <1>11, <1>12, <1>13, <1>14, <1>15, <1>16, <1>17, <1>18, <1>19, <1>20, <1>21 DEF Move

\* A walk with a branch on the way to the step.
LEMMA BranchMoves ==
    ASSUME NInv, Structured(wf), Apart, target \in Steps,
           NEW a \in DOMAIN walks, Move(a), NEW d \in DOMAIN walks, Main(d), OnTheWay(d)
    PROVE  Found'
<1> DEFINE p == walks[d].at
<1>1. /\ IInv /\ Tree /\ Placed /\ OffJoins /\ wf \in DOMAIN Workflows /\ wf' = wf /\ target' = target
      /\ begun \subseteq begun' /\ a \in Seq(Index) /\ d \in Seq(Index) /\ IsWalk(walks[a])
  BY DEF NInv, IInv, WalkInv, Apart, Tree, Move, ArriveAtStop, Halt, Replay, BeginStep, StepDone, StepSuspends, StepFails,
         PassThrough, Fork, JoinGivesUp, JoinBranches, TakeArm, FallThrough, EmptyLoop, BeginLoop, LoopRejects,
         NextIteration, EndLoop, LeaveLoop
<1>2. PICK i \in DOMAIN Region[wf][p] :
         walks[Append(d, i)].phase = "halted" \/ (walks[Append(d, i)].phase = "enter" /\ walks[Append(d, i)].at = target)
  BY DEF OnTheWay
<1> DEFINE c == Append(d, i)
<1>3. walks[d].phase = "fork" /\ p \in ParallelsIn(Def) /\ p \in Nodes /\ c \in DOMAIN walks
  BY <1>1 DEF OnTheWay, Placed
<1>4. i \in Index /\ c \in Seq(Index) /\ Under(c, d) /\ c # d /\ walks[c].stop = JoinOf(p)
  <2>1. i \in Index
    BY <1>1, <1>3, StartIsIndex
  <2> QED
    BY <1>1, <1>3, <2>1, ChildIsUnder, Regions DEF Placed
<1>5. d \in DOMAIN walks' /\ walks'[d].phase = "fork" /\ walks'[d].at = p /\ c \in DOMAIN walks' /\ walks'[c].phase = "halted"
      => Found'
  <2> SUFFICES ASSUME d \in DOMAIN walks', walks'[d].phase = "fork", walks'[d].at = p, c \in DOMAIN walks',
                      walks'[c].phase = "halted"
               PROVE  Found'
    OBVIOUS
  <2>1. OnTheWay(d)'
    BY <1>1 DEF OnTheWay
  <2>2. Main(d)'
    BY <1>1, FreeStays
  <2> QED
    BY <2>1, <2>2 DEF Found
<1>6. d \in DOMAIN walks' /\ walks'[d] = walks[d] /\ c \in DOMAIN walks' /\ walks'[c] = walks[c] => Found'
  <2> SUFFICES ASSUME d \in DOMAIN walks', walks'[d] = walks[d], c \in DOMAIN walks', walks'[c] = walks[c]
               PROVE  Found'
    OBVIOUS
  <2>1. OnTheWay(d)'
    BY <1>1, <1>2, <1>3 DEF OnTheWay
  <2>2. Main(d)'
    BY <1>1, FreeStays
  <2> QED
    BY <2>1, <2>2 DEF Found
<1>7. CASE a = d
  <2>1. ~(Fork(a) \/ BeginLoop(a) \/ NextIteration(a))
    BY <1>3, <1>7 DEF Fork, BeginLoop, NextIteration, Enters, AboutToEnter, BodyReturned
  <2>2. PICK w : Advances(a, w)
    BY <1>1, <2>1, MoveForms
  <2>3. c \in Below(a) /\ c \notin DOMAIN walks' /\ walks[c].phase = "halted"
    BY <1>2, <1>3, <1>4, <1>7, <2>2 DEF Advances, Below, Under, Returned
  <2>4. a \in DOMAIN walks' /\ walks'[a].phase \in {"error", "halted"}
    BY <1>1, <2>3, TroubleRises
  <2> QED
    BY <1>1, <1>7, <2>4, MainInTrouble
<1>8. CASE a # d
  <2>1. d \in DOMAIN walks' /\ walks'[d] = walks[d]
    <3>1. ASSUME NEW w, Advances(a, w) PROVE d \in DOMAIN walks' /\ walks'[d] = walks[d]
      BY <1>1, <1>3, <1>8, <3>1, Remaining DEF Advances
    <3>2. ASSUME NEW w, NEW New, Begins(a, w, New) PROVE d \in DOMAIN walks' /\ walks'[d] = walks[d]
      BY <1>1, <1>3, <1>8, <3>2, Started DEF Begins
    <3> QED
      BY <1>1, <3>1, <3>2, MoveForms
  <2>2. CASE c # a
    <3>1. ASSUME NEW w, Advances(a, w) PROVE c \in DOMAIN walks' /\ walks'[c] = walks[c]
      <4>1. ~Under(d, a)
        BY <1>1, <1>3, <3>1 DEF Advances, Below, Under, Returned
      <4>2. ~Under(c, a)
        BY <1>1, <1>4, <1>8, <4>1, UnderChild
      <4> QED
        BY <1>3, <2>2, <3>1, <4>2 DEF Advances, Below, Under
    <3>2. ASSUME NEW w, NEW New, Begins(a, w, New) PROVE c \in DOMAIN walks' /\ walks'[c] = walks[c]
      <4>1. c \notin New
        BY <1>1, <1>4, <1>8, <3>2, Started
      <4> QED
        BY <1>3, <2>2, <3>2, <4>1 DEF Begins
    <3> QED
      BY <1>1, <1>6, <2>1, <3>1, <3>2, MoveForms
  <2>3. CASE c = a
    <3>1. walks[a].phase = "enter" /\ walks[a].at = target
      BY <1>2, <2>3, MoveForms, <1>1 DEF Advances, Begins, Returned
    <3>2. Def.nodes[walks[a].at].kind = "step"
      BY <3>1 DEF Steps
    <3>3. walks[a].at # walks[a].stop
      <4>1. walks[a].at \in Nodes /\ NoNode \notin Nodes
        BY <1>1, Regions DEF Placed
      <4> QED
        BY <1>1, <1>3, <1>4, <2>3, <4>1 DEF OffJoins
    <3>4. Halt(a) \/ BeginStep(a)
      <4>1. ~ArriveAtStop(a)
        BY <3>3 DEF ArriveAtStop
      <4>2. ~Replay(a)
        BY <3>1 DEF Replay, Memoized
      <4>3. ~(StepDone(a) \/ StepSuspends(a) \/ StepFails(a))
        BY <3>1 DEF StepDone, StepSuspends, StepFails, Executing
      <4>4. ~(PassThrough(a) \/ Fork(a) \/ TakeArm(a) \/ FallThrough(a) \/ EmptyLoop(a) \/ BeginLoop(a) \/ LoopRejects(a))
        BY <3>2 DEF PassThrough, Fork, TakeArm, FallThrough, EmptyLoop, BeginLoop, LoopRejects, Enters, JoinKinds, LoopKinds
      <4>5. ~(JoinGivesUp(a) \/ JoinBranches(a) \/ NextIteration(a) \/ EndLoop(a) \/ LeaveLoop(a))
        BY <3>1 DEF JoinGivesUp, JoinBranches, NextIteration, EndLoop, LeaveLoop, Collect, BodyReturned
      <4> QED
        BY <4>1, <4>2, <4>3, <4>4, <4>5 DEF Move
    <3>5. CASE BeginStep(a)
      BY <1>1, <3>1, <3>5 DEF BeginStep, Found
    <3>6. CASE Halt(a)
      <4>1. a \in DOMAIN walks' /\ walks'[a].phase = "halted"
        BY <1>1, <3>6, PhaseAfter DEF Halt
      <4> QED
        BY <1>3, <1>5, <2>1, <2>3, <4>1
    <3> QED
      BY <3>4, <3>5, <3>6
  <2> QED
    BY <2>2, <2>3
<1> QED
  BY <1>7, <1>8

LEMMA MoveFinds ==
    ASSUME NInv, Structured(wf), Apart, Rooted, Responsible, NEW a \in DOMAIN walks, Move(a)
    PROVE  Responsible'
<1>1. /\ IInv /\ Tree /\ Placed /\ wf' = wf /\ target' = target /\ begun \subseteq begun' /\ status = "running"
      /\ UNCHANGED <<NoBranch, Steps, Looped>>
  <2>1. wf' = wf /\ target' = target /\ begun \subseteq begun' /\ status = "running"
    BY DEF Move, ArriveAtStop, Halt, Replay, BeginStep, StepDone, StepSuspends, StepFails,
           PassThrough, Fork, JoinGivesUp, JoinBranches, TakeArm, FallThrough, EmptyLoop, BeginLoop, LoopRejects,
           NextIteration, EndLoop, LeaveLoop, Enters, AboutToEnter, Executing, Collect, BodyReturned
  <2> QED
    BY <2>1, SameTables DEF NInv, Apart, NoBranch, Looped
<1>2. SUFFICES ASSUME target # NoNode, NoBranch, target \notin Looped PROVE Found'
  BY <1>1 DEF Responsible
<1>3. target \in Steps /\ Found /\ walks[<< >>].stop = NoNode
  BY <1>1, <1>2 DEF Responsible, Rooted
<1>4. CASE target \in begun
  BY <1>1, <1>4 DEF Found
<1>5. CASE \E c \in DOMAIN walks : Trouble(c)
  BY <1>1, <1>5, TroubleStays DEF Found
<1>6. ASSUME NEW d \in DOMAIN walks, Main(d), NEW g, Goal(g), Awaits(d, g) PROVE Found'
  <2>1. CASE d = a
    BY <1>2, <1>3, <1>6, <2>1, SeekerMoves
  <2>2. CASE d # a
    <3>1. walks[d].phase \notin Returned
      BY <1>6 DEF Awaits, Returned
    <3>2. ASSUME NEW w, Advances(a, w) PROVE d \in DOMAIN walks' /\ walks'[d] = walks[d]
      BY <2>2, <3>1, <3>2 DEF Advances
    <3>3. ASSUME NEW w, NEW New, Begins(a, w, New) PROVE d \in DOMAIN walks' /\ walks'[d] = walks[d]
      BY <2>2, <3>1, <3>3 DEF Begins
    <3>4. d \in DOMAIN walks' /\ walks'[d] = walks[d]
      BY <1>1, <3>2, <3>3, MoveForms
    <3>5. Goal(g)' /\ Awaits(d, g)'
      BY <1>1, <1>6, <3>4, SameTables DEF Goal, Awaits
    <3>6. Main(d)'
      BY <1>1, <1>6, <3>4, FreeStays
    <3> QED
      BY <3>4, <3>5, <3>6 DEF Found
  <2> QED
    BY <2>1, <2>2
<1>7. ASSUME NEW d \in DOMAIN walks, Main(d), OnTheWay(d) PROVE Found'
  BY <1>3, <1>7, BranchMoves
<1> QED
  BY <1>3, <1>4, <1>5, <1>6, <1>7 DEF Found

Sound == Structured(wf) /\ OneEnd(wf) /\ StepsAreMet(wf)

RInv == LInv /\ (Sound => Rooted /\ Responsible /\ (status = "success" => EndReached /\ ResumedStepRan))

LEMMA InitReports == Init => RInv
BY InitLoses DEF Init, RInv, Rooted, Responsible

LEMMA RunReports ==
    ASSUME IInv, Structured(wf), StepsAreMet(wf), Start \/ Resume
    PROVE  Rooted' /\ Responsible' /\ status' = "running"
<1> DEFINE root == Entering(Def.entry, NoNode, 0)
<1>1. PICK n, preload : n \in Steps \union {NoNode} /\ Run(n, preload)
  BY DEF Start, Resume
<1>2. /\ wf' = wf /\ status' = "running" /\ target' = n /\ DOMAIN walks' = {<< >>} /\ walks'[<< >>] = root
  BY <1>1 DEF Run
<1>3. root.at = Def.entry /\ root.stop = NoNode /\ root.phase = "enter"
  BY EnteringIs
<1>4. /\ wf \in DOMAIN Workflows /\ Def = Workflows[wf] /\ Def = Compiled[wf] /\ Def.entry \in Nodes /\ NoNode \notin Nodes
      /\ Connected(wf)
  BY Regions, WorkflowAssumption DEF IInv, Compiles, Nodes, Structured
<1> HIDE DEF root
<1>5. Rooted'
  <2>1. Def.entry \in Trunk(wf, Def.entry)
    BY <1>4, TrunkCloses
  <2> QED
    BY <1>2, <1>3, <2>1, SameTables DEF Rooted
<1>6. Responsible'
  <2>1. UNCHANGED <<NoBranch, Steps, Looped, Nodes>>
    BY <1>2, SameTables DEF NoBranch, Looped
  <2> SUFFICES ASSUME target' # NoNode, NoBranch, target' \notin Looped PROVE Found'
    BY <1>1, <1>2, <2>1 DEF Responsible
  <2>2. target' \in Steps /\ target' \in Nodes /\ target' \notin LoopedNodes[wf]
    BY <1>1, <1>2 DEF Steps, Nodes, Looped
  <2>3. PICK g \in Ahead(wf, Def.entry) : Goal(g)'
    <3>1. ~\E m \in DOMAIN Compiled[wf].nodes : Compiled[wf].nodes[m].kind = "branch"
      BY <1>4 DEF NoBranch, Nodes
    <3>2. \/ target' \in Ahead(wf, Compiled[wf].entry)
          \/ \E p \in Ahead(wf, Compiled[wf].entry) \intersect ParallelsIn(Compiled[wf]) :
                Settles(wf, p) /\ \E i \in DOMAIN Starts[wf][p] : Starts[wf][p][i] = target'
      BY <1>4, <2>2, <3>1 DEF StepsAreMet, Nodes, Steps
    <3> QED
      BY <1>2, <1>4, <3>2, SameTables DEF Goal
  <2>4. Awaits(<< >>, g)'
    BY <1>2, <1>3, <2>3 DEF Awaits
  <2>5. Main(<< >>)'
    <3>1. ~Under(<< >>, << >>)
      BY DEF Under
    <3> QED
      BY <1>2, <3>1 DEF Main
  <2> QED
    BY <1>2, <2>3, <2>4, <2>5 DEF Found
<1> QED
  BY <1>2, <1>5, <1>6

LEMMA StepReports == RInv /\ [Next]_vars => RInv'
<1> SUFFICES ASSUME RInv, [Next]_vars, Sound'
             PROVE  Rooted' /\ Responsible' /\ (status' = "success" => EndReached' /\ ResumedStepRan')
  BY StepLoses DEF RInv
<1>1. wf' = wf
  BY DEF Next, Start, Resume, Run, Progress, Report, Rest, Move, vars,
         ArriveAtStop, Halt, Replay, BeginStep, StepDone, StepSuspends, StepFails, PassThrough, Fork,
         JoinGivesUp, JoinBranches, TakeArm, FallThrough, EmptyLoop, BeginLoop, LoopRejects, NextIteration,
         EndLoop, LeaveLoop
<1>2. /\ NInv /\ IInv /\ Structured(wf) /\ OneEnd(wf) /\ StepsAreMet(wf) /\ Apart /\ Rooted /\ Responsible
      /\ (status = "success" => EndReached /\ ResumedStepRan)
  BY <1>1 DEF RInv, LInv, SInv, NInv, Sound
<1>3. CASE Start \/ Resume
  BY <1>2, <1>3, RunReports
<1>4. CASE Report
  <2>1. /\ DOMAIN walks = {<< >>} /\ UNCHANGED <<wf, target, outputs, begun, fell>>
        /\ (status' = "success" => walks[<< >>].phase = "value")
    BY <1>2, <1>4, RootReports
  <2>2. status = "running" /\ status' # "running"
    BY <1>4 DEF Report, Outcome, Returned
  <2>3. status' = "success" => EndReached'
    BY <1>2, <2>1, <2>2, SameTables DEF Rooted, EndReached
  <2>4. status' = "success" => ResumedStepRan'
    <3> SUFFICES ASSUME status' = "success", target # NoNode, NoBranch, target \notin Looped PROVE target \in begun
      BY <2>1, SameTables DEF ResumedStepRan, NoBranch, Looped, Nodes
    <3>1. Found
      BY <1>2, <2>2 DEF Responsible
    <3>2. \A c \in DOMAIN walks : walks[c].phase = "value"
      BY <2>1
    <3> QED
      BY <3>1, <3>2 DEF Found, Trouble, Awaits, OnTheWay
  <2> QED
    BY <2>2, <2>3, <2>4 DEF Rooted, Responsible
<1>5. ASSUME NEW a \in DOMAIN walks, Move(a)
      PROVE  Rooted' /\ Responsible' /\ (status' = "success" => EndReached' /\ ResumedStepRan')
  <2>1. status' = "running"
    BY <1>5 DEF Move, ArriveAtStop, Halt, Replay, BeginStep, StepDone, StepSuspends, StepFails, PassThrough, Fork,
           JoinGivesUp, JoinBranches, TakeArm, FallThrough, EmptyLoop, BeginLoop, LoopRejects, NextIteration,
           EndLoop, LeaveLoop, Enters, AboutToEnter, Executing, Collect, BodyReturned
  <2> QED
    BY <1>2, <1>5, <2>1, RootMoves, MoveFinds DEF Apart
<1>6. CASE UNCHANGED vars
  <2>1. Rooted'
    BY <1>2, <1>6, SameTables DEF vars, Rooted
  <2>2. Responsible'
    BY <1>2, <1>6, SameTables
       DEF vars, Responsible, Found, Trouble, Free, Main, Goal, Awaits, OnTheWay, NoBranch, Looped
  <2>3. status' = "success" => EndReached' /\ ResumedStepRan'
    BY <1>2, <1>6, SameTables DEF vars, EndReached, ResumedStepRan, Looped
  <2> QED
    BY <2>1, <2>2, <2>3
<1> QED
  BY <1>3, <1>4, <1>5, <1>6 DEF Next, Progress, Rest

\* A report is true (executor.rs): whatever began has its result in it, and success means that no
\* failure is hidden, that the workflow was walked to its end and that the step resumed was
\* executed, in every workflow whose walks stay apart, that ends in one place and that leads to its steps.
THEOREM ReportsAreTrue ==
    Spec => [](Structured(wf) /\ OneEnd(wf) /\ StepsAreMet(wf) => ReportIsTrue)
<1>1. RInv => (Structured(wf) /\ OneEnd(wf) /\ StepsAreMet(wf) => ReportIsTrue)
  BY DEF RInv, LInv, SInv, NInv, Accounted, NothingAbandoned, Sound, ReportIsTrue
<1> QED
  BY <1>1, InitReports, StepReports, PTL DEF Spec

=============================================================================
