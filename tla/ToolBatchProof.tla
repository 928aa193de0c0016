--------------------------- MODULE ToolBatchProof ---------------------------
(***************************************************************************)
(* What the read-before-edit guard guarantees, for any files, names, tools *)
(* and batches, whoever else writes the files.                             *)
(***************************************************************************)
EXTENDS ToolBatch, SequenceTheorems, TLAPS

USE BatchAssumption

Ids == DOMAIN calls

\* only calls that are over are barred, only writing calls reach a write and hold a
\* file there, and a batch is there only while it runs
Shape ==
    /\ \A i \in Ids : /\ calls[i].barred => calls[i].step = "done"
                      /\ calls[i].step = "store" => Writes(calls[i].tool)
                      /\ calls[i].step # "store" => calls[i].at = {}
    /\ pc # "running" => calls = << >>
    /\ seen \subseteq (0..runs) \X Files

\* the call has put its mark nowhere
Unmarked(i) ==
    /\ \A f \in Files : calls[i].mark \notin disk[f]
    /\ \A j \in Ids : calls[i].mark \notin calls[j].buffer

\* marks are fresh, different, and on no file before their call is past its gate
Marks ==
    /\ \A f \in Files : \A m \in disk[f] : m <= nextMark
    /\ \A i \in Ids : /\ calls[i].mark <= nextMark
                      /\ \A m \in calls[i].buffer : m <= nextMark
    /\ \A i, j \in Ids : i # j => calls[i].mark # calls[j].mark
    /\ \A i \in Ids : calls[i].barred \/ calls[i].step = "gate" => Unmarked(i)

Inv == TypeOK /\ Shape /\ Marks

(* What any step of call i makes of it: c.  The proofs below need no more.  *)
Touches(i) ==
    /\ disk' \in [Files -> Text]
    /\ \A f \in Files : disk'[f] # disk[f] =>
         /\ calls[i].step = "store" /\ f \in calls[i].at
         /\ disk'[f] \subseteq calls[i].buffer \union {calls[i].mark}

Evolves(i, c) ==
    /\ pc = "running" /\ calls[i].step # "done"
    /\ c \in Call
    /\ c.tool = calls[i].tool /\ c.names = calls[i].names /\ c.mark = calls[i].mark
    /\ c.at \subseteq c.todo /\ c.todo \subseteq c.files
    /\ c.step # "gate" /\ (c.step = "store" => Writes(c.tool)) /\ (c.step # "store" => c.at = {})
    /\ c.barred => c.step = "done" /\ calls[i].step = "gate"
    /\ c.buffer = {} \/ c.buffer = calls[i].buffer \/ \E f \in Files : c.buffer = disk[f]
    /\ Becomes(i, c) /\ Touches(i)
    /\ rewrites' \in Nat /\ (rewrites' = 0 => rewrites = 0 /\ c.files = calls[i].files)

\* A call that ends keeps everything but its step, what it holds and its result.
LEMMA DoneCall ==
    ASSUME TypeOK, NEW i \in Ids, NEW ok \in BOOLEAN
    PROVE  LET d == Done(i, ok) IN
           /\ d \in Call /\ d.tool = calls[i].tool /\ d.names = calls[i].names
           /\ d.mark = calls[i].mark /\ d.files = calls[i].files /\ d.todo = calls[i].todo
           /\ d.barred = calls[i].barred /\ d.step = "done" /\ d.at = {} /\ d.buffer = {}
           /\ d.ok = ok
<1>1. calls[i] \in Call
  BY ElementOfSeq, LenProperties DEF TypeOK, Ids
<1> DEFINE d1 == [calls[i] EXCEPT !.step = "done"]
           d2 == [d1 EXCEPT !.ok = ok]
           d3 == [d2 EXCEPT !.at = {}]
           d4 == [d3 EXCEPT !.buffer = {}]
<1>2. d1 \in Call /\ d1.step = "done" /\ d1.tool = calls[i].tool /\ d1.names = calls[i].names
      /\ d1.mark = calls[i].mark /\ d1.files = calls[i].files /\ d1.todo = calls[i].todo
      /\ d1.barred = calls[i].barred
  BY <1>1 DEF Call
<1> HIDE DEF d1
<1>3. d2 \in Call /\ d2.ok = ok /\ d2.step = d1.step /\ d2.tool = d1.tool /\ d2.names = d1.names
      /\ d2.mark = d1.mark /\ d2.files = d1.files /\ d2.todo = d1.todo /\ d2.barred = d1.barred
  BY <1>2 DEF Call
<1> HIDE DEF d2
<1>4. d3 \in Call /\ d3.ok = d2.ok /\ d3.step = d2.step /\ d3.tool = d2.tool /\ d3.names = d2.names
      /\ d3.mark = d2.mark /\ d3.files = d2.files /\ d3.todo = d2.todo /\ d3.barred = d2.barred
      /\ d3.at = {}
  BY <1>3 DEF Call
<1> HIDE DEF d3
<1>5. d4 \in Call /\ d4.ok = d3.ok /\ d4.step = d3.step /\ d4.tool = d3.tool /\ d4.names = d3.names
      /\ d4.mark = d3.mark /\ d4.files = d3.files /\ d4.todo = d3.todo /\ d4.barred = d3.barred
      /\ d4.at = d3.at /\ d4.buffer = {}
  BY <1>4 DEF Call, Text
<1>6. Done(i, ok) = d4
  BY DEF Done, d4, d3, d2, d1
<1> QED
  BY <1>2, <1>3, <1>4, <1>5, <1>6

\* Every step of a call is one of those Evolves describes.
LEMMA StepEvolves ==
    ASSUME Inv, NEW i \in Ids, CallStep(i)
    PROVE  \E c \in Call : Evolves(i, c)
<1> USE DEF Inv, Step, Goes
<1>0. /\ calls[i] \in Call /\ calls[i].mark \in Nat /\ calls[i].buffer \subseteq Nat
      /\ calls[i].at \subseteq calls[i].todo /\ calls[i].todo \subseteq calls[i].files
      /\ disk \in [Files -> Text] /\ rewrites \in Nat
  <2>1. calls[i] \in Call
    BY ElementOfSeq, LenProperties DEF TypeOK, Ids
  <2> QED
    BY <2>1 DEF TypeOK, Ids, Call, Text
<1>1. \A ok \in BOOLEAN : Done(i, ok) \in Call
  BY DoneCall
<1>2. CASE Bar(i)
  <2> DEFINE d == Done(i, FALSE)
             c == [d EXCEPT !.barred = TRUE]
  <2>1. d \in Call /\ d.tool = calls[i].tool /\ d.names = calls[i].names /\ d.mark = calls[i].mark
        /\ d.files = calls[i].files /\ d.todo = calls[i].todo /\ d.step = "done"
        /\ d.at = {} /\ d.buffer = {}
    BY DoneCall
  <2>2. Becomes(i, c) /\ UNCHANGED <<disk, rewrites>> /\ pc = "running" /\ calls[i].step = "gate"
    BY <1>2 DEF Bar
  <2> HIDE DEF d
  <2>3. c \in Call /\ c.tool = d.tool /\ c.names = d.names /\ c.mark = d.mark
        /\ c.files = d.files /\ c.todo = d.todo /\ c.step = d.step /\ c.at = d.at
        /\ c.buffer = d.buffer
    BY <2>1 DEF Call
  <2> HIDE DEF c
  <2> QED
    BY <1>0, <2>1, <2>2, <2>3 DEF Evolves, Touches
<1>3. CASE Pass(i)
  <2> DEFINE c == [calls[i] EXCEPT !.step = "open"]
  <2>1. c \in Call /\ c.tool = calls[i].tool /\ c.names = calls[i].names /\ c.mark = calls[i].mark
        /\ c.files = calls[i].files /\ c.todo = calls[i].todo /\ c.step = "open"
        /\ c.at = calls[i].at /\ c.buffer = calls[i].buffer /\ c.barred = calls[i].barred
    BY <1>0 DEF Call
  <2>2. Becomes(i, c) /\ UNCHANGED <<disk, rewrites>> /\ pc = "running" /\ calls[i].step = "gate"
        /\ ~calls[i].barred /\ calls[i].at = {}
    BY <1>3 DEF Pass, Shape
  <2> HIDE DEF c
  <2> QED
    BY <1>0, <2>1, <2>2 DEF Evolves, Touches
<1>4. ASSUME NEW n \in Names, Rewrite(i, n) PROVE \E c \in Call : Evolves(i, c)
  <2> DEFINE files == Opened(calls[i].tool, {n})
             b == [calls[i] EXCEPT !.step = "open"]
             d == [b EXCEPT !.files = files]
             c == [d EXCEPT !.todo = files]
  <2>1. files \subseteq Files
    BY DEF Opened, BatchAssumption
  <2> HIDE DEF files
  <2>2. b \in Call /\ b.tool = calls[i].tool /\ b.names = calls[i].names /\ b.mark = calls[i].mark
        /\ b.step = "open" /\ b.at = calls[i].at /\ b.buffer = calls[i].buffer
        /\ b.barred = calls[i].barred
    BY <1>0 DEF Call
  <2>3. Becomes(i, c) /\ UNCHANGED disk /\ pc = "running" /\ calls[i].step = "gate"
        /\ ~calls[i].barred /\ rewrites' = rewrites + 1
    BY <1>4 DEF Rewrite, Shape, c, d, b, files
  <2> HIDE DEF b
  <2>4. d \in Call /\ d.tool = b.tool /\ d.names = b.names /\ d.mark = b.mark
        /\ d.files = files /\ d.step = b.step /\ d.at = b.at /\ d.buffer = b.buffer
        /\ d.barred = b.barred
    BY <2>1, <2>2 DEF Call
  <2> HIDE DEF d
  <2>5. c \in Call /\ c.tool = d.tool /\ c.names = d.names /\ c.mark = d.mark
        /\ c.files = d.files /\ c.todo = files /\ c.step = d.step /\ c.at = d.at
        /\ c.buffer = d.buffer /\ c.barred = d.barred
    BY <2>1, <2>4 DEF Call
  <2> HIDE DEF c
  <2>6. c.at = {}
    BY <2>2, <2>3, <2>4, <2>5 DEF Shape
  <2> QED
    BY <1>0, <2>2, <2>3, <2>4, <2>5, <2>6 DEF Evolves, Touches
<1>5. CASE OpenFails(i)
  <2>1. Becomes(i, Done(i, FALSE)) /\ UNCHANGED <<disk, rewrites>> /\ pc = "running"
        /\ calls[i].step = "open"
    BY <1>5 DEF OpenFails
  <2> QED
    BY <1>0, <2>1, DoneCall DEF Evolves, Touches, Shape
<1>6. CASE Read(i)
  <2>1. Becomes(i, Done(i, TRUE)) /\ UNCHANGED <<disk, rewrites>> /\ pc = "running"
        /\ calls[i].step = "open"
    BY <1>6 DEF Read
  <2> QED
    BY <1>0, <2>1, DoneCall DEF Evolves, Touches, Shape
<1>7. ASSUME NEW f \in Files, Load(i, f) PROVE \E c \in Call : Evolves(i, c)
  <2> DEFINE text == IF calls[i].tool = "Write" THEN {} ELSE disk[f]
             b == [calls[i] EXCEPT !.step = "store"]
             d == [b EXCEPT !.at = {f}]
             c == [d EXCEPT !.buffer = text]
  <2>1. text \in Text /\ text \in {{}, disk[f]} /\ f \in calls[i].todo
    BY <1>0, <1>7 DEF Load, Text
  <2>2. Becomes(i, c) /\ UNCHANGED <<disk, rewrites>> /\ pc = "running"
        /\ calls[i].step = "open" /\ ~calls[i].barred /\ Writes(calls[i].tool)
    BY <1>7 DEF Load, Shape
  <2> HIDE DEF text
  <2>3. b \in Call /\ b.tool = calls[i].tool /\ b.names = calls[i].names /\ b.mark = calls[i].mark
        /\ b.files = calls[i].files /\ b.todo = calls[i].todo /\ b.step = "store"
        /\ b.barred = calls[i].barred
    BY <1>0 DEF Call
  <2> HIDE DEF b
  <2>4. d \in Call /\ d.tool = b.tool /\ d.names = b.names /\ d.mark = b.mark /\ d.files = b.files
        /\ d.todo = b.todo /\ d.step = b.step /\ d.at = {f} /\ d.barred = b.barred
    BY <2>3 DEF Call
  <2> HIDE DEF d
  <2>5. c \in Call /\ c.tool = d.tool /\ c.names = d.names /\ c.mark = d.mark /\ c.files = d.files
        /\ c.todo = d.todo /\ c.step = d.step /\ c.at = d.at /\ c.barred = d.barred
        /\ c.buffer = text
    BY <2>1, <2>4 DEF Call
  <2> HIDE DEF c
  <2> QED
    BY <1>0, <2>1, <2>2, <2>3, <2>4, <2>5 DEF Evolves, Touches
<1>8. CASE Store(i)
  <2>1. /\ pc = "running" /\ calls[i].step = "store" /\ ~calls[i].barred /\ Writes(calls[i].tool)
        /\ UNCHANGED rewrites
        /\ disk' = [f \in Files |-> IF f \in calls[i].at THEN NewText(calls[i]) ELSE disk[f]]
    BY <1>8 DEF Store, Shape
  <2>2. NewText(calls[i]) = calls[i].buffer \union {calls[i].mark} /\ NewText(calls[i]) \in Text
    BY <1>0 DEF NewText, Text
  <2>3. Touches(i)
    BY <1>0, <2>1, <2>2 DEF Touches
  <2> DEFINE left == calls[i].todo \ calls[i].at
             b == [calls[i] EXCEPT !.step = "open"]
             d == [b EXCEPT !.todo = left]
             c == [d EXCEPT !.at = {}]
  <2>4. CASE left = {}
    <3>1. Becomes(i, Done(i, TRUE))
      BY <1>8, <2>4 DEF Store
    <3> QED
      BY <1>0, <2>1, <2>3, <3>1, DoneCall DEF Evolves
  <2>5. CASE left # {}
    <3>1. Becomes(i, c)
      BY <1>8, <2>5 DEF Store
    <3>2. b \in Call /\ b.tool = calls[i].tool /\ b.names = calls[i].names
          /\ b.mark = calls[i].mark /\ b.files = calls[i].files /\ b.buffer = calls[i].buffer
          /\ b.step = "open" /\ b.barred = calls[i].barred
      BY <1>0 DEF Call
    <3>3. left \subseteq calls[i].files /\ left \subseteq Files
      BY <1>0 DEF Call
    <3> HIDE DEF b, left
    <3>4. d \in Call /\ d.tool = b.tool /\ d.names = b.names /\ d.mark = b.mark
          /\ d.files = b.files /\ d.todo = left /\ d.buffer = b.buffer /\ d.step = b.step
          /\ d.barred = b.barred
      BY <3>2, <3>3 DEF Call
    <3> HIDE DEF d
    <3>5. c \in Call /\ c.tool = d.tool /\ c.names = d.names /\ c.mark = d.mark
          /\ c.files = d.files /\ c.todo = d.todo /\ c.buffer = d.buffer /\ c.step = d.step
          /\ c.barred = d.barred /\ c.at = {}
      BY <3>4 DEF Call
    <3> HIDE DEF c
    <3> QED
      BY <1>0, <2>1, <2>3, <3>1, <3>2, <3>3, <3>4, <3>5 DEF Evolves
  <2> QED
    BY <2>4, <2>5
<1>9. CASE StoreFails(i)
  <2>1. Becomes(i, Done(i, FALSE)) /\ pc = "running" /\ calls[i].step = "store"
        /\ ~calls[i].barred /\ UNCHANGED rewrites
    BY <1>9 DEF StoreFails, Shape
  <2>2. Touches(i)
    <3>1. CASE UNCHANGED disk
      BY <1>0, <3>1 DEF Touches
    <3>2. CASE disk' = [f \in Files |-> IF f \in calls[i].at THEN {calls[i].mark} ELSE disk[f]]
      BY <1>0, <2>1, <3>2 DEF Touches, Text
    <3> QED
      BY <1>9, <3>1, <3>2 DEF StoreFails
  <2> QED
    BY <1>0, <2>1, <2>2, DoneCall DEF Evolves
<1> QED
  BY <1>2, <1>3, <1>4, <1>5, <1>6, <1>7, <1>8, <1>9 DEF CallStep

\* A batch in which one call has become c.
LEMMA OneCallChanges ==
    ASSUME TypeOK, NEW i \in Ids, NEW c \in Call, Becomes(i, c)
    PROVE  /\ calls' \in Seq(Call) /\ DOMAIN calls' = Ids
           /\ \A j \in Ids : calls'[j] = IF j = i THEN c ELSE calls[j]
           /\ \A j \in Ids : calls[j] \in Call
<1>1. /\ calls \in Seq(Call) /\ Ids = 1..Len(calls) /\ calls' = [calls EXCEPT ![i] = c]
  BY LenProperties DEF TypeOK, Ids, Becomes
<1>2. /\ calls' \in Seq(Call) /\ Len(calls') = Len(calls)
      /\ \A j \in 1..Len(calls) : calls'[j] = IF j = i THEN c ELSE calls[j]
  BY <1>1, ExceptSeq
<1>3. DOMAIN calls' = 1..Len(calls')
  BY <1>2, LenProperties
<1> QED
  BY <1>1, <1>2, <1>3, ElementOfSeq

\* A step of a call keeps the invariant.
LEMMA CallInv ==
    ASSUME Inv, NEW i \in Ids, NEW c \in Call, Evolves(i, c)
    PROVE  Inv'
<1> USE DEF Inv
<1>1. /\ calls' \in Seq(Call) /\ DOMAIN calls' = Ids /\ Ids' = Ids
      /\ \A j \in Ids : calls'[j] = IF j = i THEN c ELSE calls[j]
      /\ \A j \in Ids : calls[j] \in Call
  BY OneCallChanges DEF Evolves, Ids
<1>2. UNCHANGED <<pc, files_read, start, seen, nextMark, batches, runs, outside>>
  BY DEF Evolves, Becomes, bounds
<1>3. TypeOK'
  BY <1>1, <1>2 DEF TypeOK, Evolves, Touches, Ids
<1>4. Shape'
  BY <1>1, <1>2 DEF Shape, Evolves
<1>5. Marks'
  <2>1. \A f \in Files : \A m \in disk'[f] : m \in disk[f] \/ m \in calls[i].buffer \/ m = calls[i].mark
    BY DEF Evolves, Touches
  <2>2. \A m \in c.buffer : m \in calls[i].buffer \/ \E f \in Files : m \in disk[f]
    BY DEF Evolves
  <2>3. c.mark = calls[i].mark
    BY DEF Evolves
  <2>4. \A f \in Files : \A m \in disk'[f] : m <= nextMark'
    BY <1>2, <2>1 DEF Marks
  <2>5. \A j \in Ids : calls'[j].mark <= nextMark' /\ \A m \in calls'[j].buffer : m <= nextMark'
    BY <1>1, <1>2, <2>2, <2>3 DEF Marks
  <2>6. \A j, k \in Ids : j # k => calls'[j].mark # calls'[k].mark
    BY <1>1, <2>3 DEF Marks
  <2>7. ASSUME NEW j \in Ids, calls'[j].barred \/ calls'[j].step = "gate"
        PROVE  Unmarked(j)'
    <3>1. Unmarked(j) /\ (calls[i].step = "store" => j # i) /\ calls'[j].mark = calls[j].mark
      BY <1>1, <2>3, <2>7 DEF Marks, Evolves
    <3>2. \A f \in Files : calls'[j].mark \notin disk'[f]
      <4>1. CASE calls[i].step = "store"
        BY <2>1, <3>1, <4>1 DEF Marks, Unmarked
      <4>2. CASE calls[i].step # "store"
        <5>1. \A f \in Files : disk'[f] = disk[f]
          BY <4>2 DEF Evolves, Touches
        <5> QED
          BY <3>1, <5>1 DEF Unmarked
      <4> QED
        BY <4>1, <4>2
    <3>3. \A k \in Ids : calls'[j].mark \notin calls'[k].buffer
      BY <1>1, <2>2, <3>1 DEF Unmarked
    <3> QED
      BY <1>1, <3>2, <3>3 DEF Unmarked
  <2> QED
    BY <1>1, <2>4, <2>5, <2>6, <2>7 DEF Marks
<1> QED
  BY <1>3, <1>4, <1>5

\* What is admitted into a batch.
LEMMA AdmittedCall ==
    ASSUME NEW r \in Requests, NEW mark \in Nat
    PROVE  LET a == Admit(r, mark) IN
           /\ a \in Call /\ a.tool = r.tool /\ a.names = r.names /\ a.mark = mark
           /\ a.files = Opened(r.tool, r.names) /\ a.todo = a.files /\ a.at = {} /\ a.buffer = {}
           /\ a.barred = Refuses(r)
           /\ a.step = IF Refuses(r) THEN "done" ELSE "gate"
<1>1. r.tool \in Tools /\ r.names \subseteq Names
  BY DEF Requests
<1>2. Opened(r.tool, r.names) \subseteq Files
  BY <1>1 DEF Opened, BatchAssumption
<1>3. Refuses(r) \in BOOLEAN
  BY DEF Refuses
<1> QED
  BY <1>1, <1>2, <1>3 DEF Admit, Prepared, Call, Text

\* It has not succeeded.
LEMMA AdmittedUndone ==
    ASSUME NEW r \in Requests, NEW mark \in Nat
    PROVE  ~Admit(r, mark).ok
BY Zenon DEF Admit, Prepared

\* The calls of a new batch.
LEMMA NewBatch ==
    ASSUME TypeOK, NEW n \in 1..BatchSize, NEW batch \in [1..n -> Requests], Dispatch(batch)
    PROVE  /\ DOMAIN batch = 1..n /\ nextMark' = nextMark + n
           /\ calls' \in Seq(Call) /\ DOMAIN calls' = 1..n
           /\ \A i \in 1..n : calls'[i] = Admit(batch[i], nextMark + i) /\ calls'[i] \in Call
<1>1. n \in Nat /\ DOMAIN batch = 1..n /\ nextMark \in Nat
  BY DEF TypeOK
<1>2. Len(batch) = n
  BY <1>1
<1>3. calls' = [i \in 1..n |-> Admit(batch[i], nextMark + i)] /\ nextMark' = nextMark + n
  BY <1>1, <1>2 DEF Dispatch
<1>4. \A i \in 1..n : Admit(batch[i], nextMark + i) \in Call
  BY <1>1, AdmittedCall
<1>5. calls' \in [1..n -> Call]
  BY <1>3, <1>4
<1>6. calls' \in Seq(Call)
  BY <1>1, <1>5, SeqDef
<1> QED
  BY <1>1, <1>3, <1>4, <1>6

\* The initial states satisfy the invariant.
LEMMA InitInv == Init => Inv
<1> SUFFICES ASSUME Init PROVE Inv
  OBVIOUS
<1>1. calls = << >> /\ calls \in Seq(Call) /\ Ids = {}
  BY EmptySeq DEF Init, Ids
<1>2. disk \in [Files -> Text] /\ \A f \in Files : \A m \in disk[f] : m = 0
  BY DEF Init, Text, Missing
<1>3. TypeOK
  BY <1>1, <1>2 DEF Init, TypeOK, Ids
<1>4. Shape
  BY <1>1 DEF Init, Shape
<1>5. Marks
  BY <1>1, <1>2 DEF Init, Marks
<1> QED
  BY <1>3, <1>4, <1>5 DEF Inv

\* Every step keeps the invariant.
LEMMA StepInv == Inv /\ [Next]_vars => Inv'
<1> SUFFICES ASSUME Inv, [Next]_vars PROVE Inv'
  OBVIOUS
<1>0. TypeOK /\ Shape /\ Marks
  BY DEF Inv
<1>1. CASE StartRun
  <2>1. calls = << >> /\ calls' = << >> /\ Ids' = {} /\ Ids = {}
    BY <1>0, <1>1 DEF StartRun, Shape, Ids
  <2>2. TypeOK'
    BY <1>0, <1>1, <2>1 DEF StartRun, TypeOK, Ids
  <2>3. Shape' /\ Marks'
    BY <1>0, <1>1, <2>1 DEF StartRun, TypeOK, Shape, Marks
  <2> QED
    BY <2>2, <2>3 DEF Inv
<1>2. CASE EndRun
  <2>1. calls = << >> /\ calls' = << >> /\ Ids' = {} /\ Ids = {}
    BY <1>0, <1>2 DEF EndRun, Shape, Ids
  <2>2. TypeOK'
    BY <1>0, <1>2, <2>1 DEF EndRun, TypeOK, Ids, bounds
  <2>3. Shape' /\ Marks'
    BY <1>0, <1>2, <2>1 DEF EndRun, Shape, Marks, bounds
  <2> QED
    BY <2>2, <2>3 DEF Inv
<1>3. CASE Record
  <2>1. calls' = << >> /\ calls' \in Seq(Call) /\ Ids' = {} /\ nextMark' = nextMark
    BY <1>3, EmptySeq DEF Record, Ids
  <2>2. \A i \in Ids : calls[i] \in Call
    BY <1>0, ElementOfSeq, LenProperties DEF TypeOK, Ids
  <2>3. files_read' \subseteq Files
    <3>1. \A i \in Ids : {Resolves[n] : n \in calls[i].names} \subseteq Files
      BY <2>2 DEF Call, BatchAssumption
    <3> QED
      BY <1>0, <1>3, <3>1 DEF Record, TypeOK, Ids
  <2>4. seen' \subseteq (0..runs) \X Files /\ runs' = runs
    <3>1. \A i \in Ids : {runs} \X calls[i].files \subseteq (0..runs) \X Files
      BY <1>0, <2>2 DEF Call, TypeOK
    <3> QED
      BY <1>0, <1>3, <3>1 DEF Record, Shape, Ids, bounds
  <2>5. TypeOK'
    BY <1>0, <1>3, <2>1, <2>3, <2>4 DEF Record, TypeOK, Ids, bounds
  <2>6. Shape' /\ Marks'
    BY <1>0, <1>3, <2>1, <2>4 DEF Record, Shape, Marks
  <2> QED
    BY <2>5, <2>6 DEF Inv
<1>4. ASSUME NEW n \in 1..BatchSize, NEW batch \in [1..n -> Requests], Dispatch(batch)
      PROVE  Inv'
  <2>1. /\ nextMark' = nextMark + n /\ calls' \in Seq(Call) /\ Ids' = 1..n
        /\ \A i \in 1..n : calls'[i] = Admit(batch[i], nextMark + i) /\ calls'[i] \in Call
    BY <1>0, <1>4, NewBatch DEF Ids
  <2>2. nextMark \in Nat /\ n \in Nat
    BY <1>0 DEF TypeOK
  <2>3. \A i \in 1..n : /\ calls'[i].at = {} /\ calls'[i].buffer = {} /\ calls'[i].mark = nextMark + i
                         /\ calls'[i].todo = calls'[i].files
                         /\ calls'[i].step = IF calls'[i].barred THEN "done" ELSE "gate"
    <3> SUFFICES ASSUME NEW i \in 1..n
                 PROVE  /\ calls'[i].at = {} /\ calls'[i].buffer = {}
                        /\ calls'[i].mark = nextMark + i /\ calls'[i].todo = calls'[i].files
                        /\ calls'[i].step = IF calls'[i].barred THEN "done" ELSE "gate"
      OBVIOUS
    <3>1. batch[i] \in Requests /\ nextMark + i \in Nat
      BY <2>2
    <3> QED
      BY <2>1, <3>1, AdmittedCall
  <2>4. /\ pc' = "running" /\ start' = disk /\ batches' = batches + 1
        /\ UNCHANGED <<disk, files_read, seen, runs, outside, rewrites>>
    BY <1>4 DEF Dispatch
  <2>5. TypeOK'
    BY <1>0, <2>1, <2>2, <2>3, <2>4 DEF TypeOK, Ids
  <2>6. Shape'
    BY <1>0, <2>1, <2>3, <2>4 DEF Shape
  <2>7. \A f \in Files : \A m \in disk[f] : m \in Nat /\ m <= nextMark
    BY <1>0 DEF TypeOK, Text, Marks
  <2>8. Marks'
    <3>1. \A f \in Files : \A m \in disk'[f] : m <= nextMark'
      BY <2>1, <2>2, <2>4, <2>7
    <3>2. \A i \in Ids' : calls'[i].mark <= nextMark' /\ calls'[i].buffer = {}
      <4> SUFFICES ASSUME NEW i \in 1..n
                   PROVE  calls'[i].mark <= nextMark + n /\ calls'[i].buffer = {}
        BY <2>1
      <4>1. calls'[i].mark = nextMark + i /\ calls'[i].buffer = {}
        BY <2>3
      <4> QED
        BY <4>1, <2>2
    <3>3. \A i, j \in Ids' : i # j => calls'[i].mark # calls'[j].mark
      <4> SUFFICES ASSUME NEW i \in 1..n, NEW j \in 1..n, i # j
                   PROVE  calls'[i].mark # calls'[j].mark
        BY <2>1
      <4>1. calls'[i].mark = nextMark + i /\ calls'[j].mark = nextMark + j
        BY <2>3
      <4> QED
        BY <4>1, <2>2
    <3>4. \A i \in Ids' : \A f \in Files : calls'[i].mark \notin disk'[f]
      <4> SUFFICES ASSUME NEW i \in 1..n, NEW f \in Files PROVE calls'[i].mark \notin disk[f]
        BY <2>1, <2>4
      <4>1. calls'[i].mark = nextMark + i /\ i > 0 /\ i \in Nat
        BY <2>3
      <4> QED
        BY <4>1, <2>2, <2>7
    <3>5. \A i \in Ids' : Unmarked(i)'
      BY <3>2, <3>4 DEF Unmarked
    <3> QED
      BY <3>1, <3>2, <3>3, <3>5 DEF Marks
  <2> QED
    BY <2>5, <2>6, <2>8 DEF Inv
<1>5. ASSUME NEW i \in Ids, CallStep(i) PROVE Inv'
  BY <1>5, StepEvolves, CallInv
<1>6. ASSUME NEW f \in Files, Outside(f) PROVE Inv'
  <2>1. /\ nextMark' = nextMark + 1 /\ Ids' = Ids /\ outside' = outside + 1
        /\ disk' = [disk EXCEPT ![f] = {nextMark + 1}]
        /\ UNCHANGED <<pc, files_read, calls, start, seen, batches, runs, rewrites>>
    BY <1>6 DEF Outside, Ids
  <2>2. nextMark \in Nat /\ \A i \in Ids : calls[i].mark \in Nat /\ calls[i].buffer \subseteq Nat
    <3>1. \A i \in Ids : calls[i] \in Call
      BY <1>0, ElementOfSeq, LenProperties DEF TypeOK, Ids
    <3> QED
      BY <1>0, <3>1 DEF TypeOK, Call, Text
  <2>3. TypeOK'
    BY <1>0, <2>1, <2>2 DEF TypeOK, Text
  <2>4. Shape'
    BY <1>0, <2>1 DEF Shape
  <2>5. \A g \in Files : \A m \in disk'[g] : m \in disk[g] \/ m = nextMark + 1
    BY <1>0, <2>1 DEF TypeOK
  <2>6. \A g \in Files : \A m \in disk[g] : m \in Nat
    BY <1>0 DEF TypeOK, Text
  <2>7. Marks'
    BY <1>0, <2>1, <2>2, <2>5, <2>6 DEF Marks, Unmarked
  <2> QED
    BY <2>3, <2>4, <2>7 DEF Inv
<1>7. CASE UNCHANGED vars
  BY <1>0, <1>7 DEF Inv, TypeOK, Shape, Marks, Unmarked, Ids, vars
<1> QED
  BY <1>1, <1>2, <1>3, <1>4, <1>5, <1>6, <1>7 DEF Next, Rest, Ids

\* The invariant holds in every reachable state.
THEOREM Invariance == Spec => []Inv
BY InitInv, StepInv, PTL DEF Spec

\* Every variable of the batch has its type, for any files, names and bounds.
THEOREM TypeCorrect == Spec => []TypeOK
<1>1. Inv => TypeOK
  BY DEF Inv
<1> QED
  BY <1>1, Invariance, PTL

\* A call that was refused, denied or blocked has put nothing on any file.
THEOREM NoTrace == Spec => []BarredCallsLeaveNoTrace
<1>1. Inv => BarredCallsLeaveNoTrace
  BY DEF Inv, Marks, Unmarked, BarredCallsLeaveNoTrace, Ids
<1> QED
  BY <1>1, Invariance, PTL

-----------------------------------------------------------------------------
(* The guard.  It looks at the file a name resolves to, so it can only      *)
(* speak for tools that open that file, and for calls nobody redirects.     *)

\* what was let through concerns files the run knows or files that were not there
Agrees(c) ==
    /\ c.files = {Resolves[n] : n \in c.names}
    /\ Writes(c.tool) /\ c.step # "done" =>
         \A f \in c.files : f \in files_read \/ start[f] = Missing

Tally ==
    rewrites = 0 =>
        /\ files_read = {f \in Files : <<runs, f>> \in seen}
        /\ \A i \in Ids : Agrees(calls[i])

GInv == Inv /\ Tally

\* The guard's tally holds at the start.
LEMMA InitTally == Init => Tally
<1> SUFFICES ASSUME Init PROVE Tally
  OBVIOUS
<1>1. Ids = {} /\ files_read = {} /\ seen = {}
  BY DEF Init, Ids
<1> QED
  BY <1>1 DEF Tally

\* Every step keeps the tally when tools open what the guard resolves.
LEMMA StepTally ==
    ASSUME Opens = Resolves, GInv, [Next]_vars
    PROVE  Tally'
<1>0. TypeOK /\ Shape /\ Inv /\ Tally
  BY DEF GInv, Inv
<1>a. \A i \in Ids : calls[i] \in Call
  BY <1>0, ElementOfSeq, LenProperties DEF TypeOK, Ids
<1> SUFFICES ASSUME rewrites' = 0
             PROVE  /\ files_read' = {f \in Files : <<runs', f>> \in seen'}
                    /\ \A i \in Ids' : Agrees(calls[i])'
  BY DEF Tally
<1>1. CASE StartRun
  <2>1. Ids' = {} /\ files_read' = {} /\ runs' = runs + 1 /\ seen' = seen
    BY <1>0, <1>1 DEF StartRun, Shape, Ids
  <2>2. \A f \in Files : <<runs + 1, f>> \notin seen
    BY <1>0 DEF TypeOK, Shape
  <2> QED
    BY <2>1, <2>2
<1>2. CASE EndRun
  <2>1. Ids' = {} /\ UNCHANGED <<files_read, runs, seen, rewrites>>
    BY <1>0, <1>2 DEF EndRun, Shape, Ids, bounds
  <2> QED
    BY <1>0, <2>1 DEF Tally
<1>3. CASE Record
  <2>1. Ids' = {} /\ UNCHANGED <<runs, rewrites>>
    BY <1>3 DEF Record, Ids, bounds
  <2> DEFINE good == {j \in Ids : calls[j].ok}
             named == UNION {{Resolves[n] : n \in calls[i].names} : i \in good}
             worked == UNION {{runs} \X calls[i].files : i \in good}
  <2>2. files_read' = files_read \union named /\ seen' = seen \union worked
    BY <1>3 DEF Record, Counts, Ids
  <2>3. /\ files_read = {f \in Files : <<runs, f>> \in seen}
        /\ \A i \in good : calls[i].files = {Resolves[n] : n \in calls[i].names}
    BY <1>0, <2>1 DEF Tally, Agrees
  <2>4. \A f : f \in named <=> \E i \in good : f \in calls[i].files
    BY <2>3
  <2>5. \A f : <<runs, f>> \in worked <=> \E i \in good : f \in calls[i].files
    OBVIOUS
  <2>6. \A f : f \in named => f \in Files
    BY <1>a, <2>4 DEF Call
  <2> HIDE DEF named, worked
  <2>7. \A f : f \in files_read' <=> f \in Files /\ <<runs, f>> \in seen'
    BY <2>2, <2>3, <2>4, <2>5, <2>6
  <2> QED
    BY <2>1, <2>7
<1>4. ASSUME NEW n \in 1..BatchSize, NEW batch \in [1..n -> Requests], Dispatch(batch)
      PROVE  /\ files_read' = {f \in Files : <<runs', f>> \in seen'}
             /\ \A i \in Ids' : Agrees(calls[i])'
  <2>1. /\ start' = disk /\ UNCHANGED <<files_read, seen, runs, rewrites>>
        /\ Ids' = 1..n /\ \A i \in 1..n : calls'[i] = Admit(batch[i], nextMark + i)
    BY <1>0, <1>4, NewBatch DEF Dispatch, Ids
  <2>2. ASSUME NEW i \in 1..n PROVE Agrees(calls[i])'
    <3>1. batch[i] \in Requests /\ nextMark + i \in Nat
      BY <1>0 DEF TypeOK
    <3>2. /\ calls'[i].tool = batch[i].tool /\ calls'[i].names = batch[i].names
          /\ calls'[i].files = Opened(batch[i].tool, batch[i].names)
          /\ calls'[i].step = IF Refuses(batch[i]) THEN "done" ELSE "gate"
      BY <2>1, <3>1, AdmittedCall
    <3>3. calls'[i].files = {Resolves[m] : m \in calls'[i].names}
      BY <3>2 DEF Opened
    <3>4. ASSUME Writes(calls'[i].tool), calls'[i].step # "done", NEW f \in calls'[i].files
          PROVE  f \in files_read' \/ start'[f] = Missing
      <4>1. ~Refuses(batch[i])
        BY <3>2, <3>4
      <4>2. PICK m \in batch[i].names : f = Resolves[m]
        BY <3>2, <3>3
      <4> QED
        BY <2>1, <3>2, <3>4, <4>1, <4>2 DEF Refuses
    <3> QED
      BY <3>3, <3>4 DEF Agrees
  <2> QED
    BY <1>0, <2>1, <2>2 DEF Tally
<1>5. ASSUME NEW i \in Ids, CallStep(i)
      PROVE  /\ files_read' = {f \in Files : <<runs', f>> \in seen'}
             /\ \A j \in Ids' : Agrees(calls[j])'
  <2>1. PICK c \in Call : Evolves(i, c)
    BY <1>0, <1>5, StepEvolves
  <2>2. /\ Ids' = Ids /\ \A j \in Ids : calls'[j] = IF j = i THEN c ELSE calls[j]
    BY <1>0, <2>1, OneCallChanges DEF Evolves, Ids
  <2>3. UNCHANGED <<files_read, start, seen, runs>> /\ rewrites = 0
    BY <2>1 DEF Evolves, Becomes, bounds
  <2>4. /\ c.files = calls[i].files /\ c.names = calls[i].names /\ c.tool = calls[i].tool
        /\ calls[i].step # "done"
    BY <2>1 DEF Evolves
  <2> QED
    BY <1>0, <2>2, <2>3, <2>4 DEF Tally, Agrees
<1>6. ASSUME NEW f \in Files, Outside(f)
      PROVE  /\ files_read' = {g \in Files : <<runs', g>> \in seen'}
             /\ \A i \in Ids' : Agrees(calls[i])'
  BY <1>0, <1>6 DEF Outside, Tally, Agrees, Ids
<1>7. CASE UNCHANGED vars
  BY <1>0, <1>7 DEF vars, Tally, Agrees, Ids
<1> QED
  BY <1>1, <1>2, <1>3, <1>4, <1>5, <1>6, <1>7 DEF Next, Rest, Ids

\* The tally holds in every reachable state.
THEOREM GuardInvariance ==
    ASSUME Opens = Resolves
    PROVE  Spec => []GInv
<1>1. Init => GInv
  BY InitInv, InitTally DEF GInv
<1>2. GInv /\ [Next]_vars => GInv'
  BY StepInv, StepTally DEF GInv
<1> QED
  BY <1>1, <1>2, PTL DEF Spec

\* No call overwrites a file that existed when its batch was dispatched unless the
\* run read or wrote that file before, whatever the calls and their interleaving.
THEOREM NoBlindWrite ==
    ASSUME Opens = Resolves
    PROVE  Spec => NoBlindOverwrite
<1> DEFINE Blind ==
      \A f \in Files :
         pc = "running" /\ outside' = outside /\ rewrites = 0
            /\ disk'[f] # disk[f] /\ start[f] # Missing
            => Met(f)
<1>1. ASSUME GInv, [Next]_vars PROVE Blind
  <2>0. TypeOK /\ Shape /\ Inv /\ Tally
    BY <1>1 DEF GInv, Inv
  <2> SUFFICES ASSUME NEW f \in Files, pc = "running", outside' = outside, rewrites = 0,
                      disk'[f] # disk[f], start[f] # Missing
               PROVE  <<runs, f>> \in seen
    BY DEF Met
  <2>1. PICK i \in Ids : CallStep(i)
    <3>1. ASSUME NEW g \in Files, Outside(g) PROVE FALSE
      BY <2>0, <3>1 DEF Outside, TypeOK
    <3> QED
      BY <1>1, <3>1 DEF Next, StartRun, EndRun, Record, Rest, Dispatch, vars, Ids
  <2>2. PICK c \in Call : Evolves(i, c)
    BY <2>0, <2>1, StepEvolves
  <2>3. calls[i].step = "store" /\ f \in calls[i].at
    BY <2>2 DEF Evolves, Touches
  <2>4. f \in calls[i].files /\ Writes(calls[i].tool)
    BY <2>0, <2>3 DEF TypeOK, Shape, Ids
  <2>5. f \in files_read
    BY <2>0, <2>3, <2>4 DEF Tally, Agrees
  <2> QED
    BY <2>0, <2>5 DEF Tally
<1>2. GInv /\ [Next]_vars => [Blind]_vars
  BY <1>1
<1>3. Spec => [][Blind]_vars
  BY <1>2, GuardInvariance, PTL DEF Spec
<1> QED
  BY <1>3 DEF NoBlindOverwrite

\* The guard refuses a call only for a file the run has neither read nor written.
THEOREM JustRefusals ==
    ASSUME Opens = Resolves
    PROVE  Spec => RefusalsJustified
<1> DEFINE Just ==
      pc = "thinking" /\ pc' = "running" /\ rewrites = 0 =>
         \A i \in DOMAIN calls' : calls'[i].barred =>
            \E f \in calls'[i].files : <<runs, f>> \notin seen
<1>1. ASSUME GInv, [Next]_vars PROVE Just
  <2>0. TypeOK /\ Shape /\ Inv /\ Tally
    BY <1>1 DEF GInv, Inv
  <2> SUFFICES ASSUME pc = "thinking", pc' = "running", rewrites = 0,
                      NEW i \in DOMAIN calls', calls'[i].barred
               PROVE  \E f \in calls'[i].files : <<runs, f>> \notin seen
    OBVIOUS
  <2>1. PICK n \in 1..BatchSize : \E batch \in [1..n -> Requests] : Dispatch(batch)
    BY <1>1, <2>0 DEF Next, StartRun, EndRun, Record, Rest, Outside, vars, CallStep, Bar, Pass,
       OpenFails, Read, Store, StoreFails, Rewrite, Load, Step
  <2>2. PICK batch \in [1..n -> Requests] : Dispatch(batch)
    BY <2>1
  <2>3. i \in 1..n /\ calls'[i] = Admit(batch[i], nextMark + i)
    BY <2>0, <2>2, NewBatch
  <2>4. batch[i] \in Requests /\ nextMark + i \in Nat
    BY <2>0, <2>3 DEF TypeOK
  <2>5. Refuses(batch[i]) /\ calls'[i].files = Opened(batch[i].tool, batch[i].names)
    BY <2>3, <2>4, AdmittedCall
  <2>6. PICK m \in batch[i].names : Resolves[m] \notin files_read
    BY <2>5 DEF Refuses
  <2>7. Resolves[m] \in calls'[i].files /\ Resolves[m] \in Files
    BY <2>4, <2>5, <2>6 DEF Opened, Requests, BatchAssumption
  <2> QED
    BY <2>0, <2>6, <2>7 DEF Tally
<1>2. GInv /\ [Next]_vars => [Just]_vars
  BY <1>1
<1>3. Spec => [][Just]_vars
  BY <1>2, GuardInvariance, PTL DEF Spec
<1> QED
  BY <1>3 DEF RefusalsJustified

-----------------------------------------------------------------------------
(* Calls that report success.  What a call finds in its files is what was   *)
(* there when the batch began, as long as no other call that is past its    *)
(* gate shares one with it; a hook may still redirect those at the gate.    *)

\* what the tool leaves of a text
Kept(c, text) == IF c.tool = "Write" THEN {} ELSE text

Started(i) == calls[i].step # "gate"

\* no other call that may have written shares a file with call i
Alone(i) ==
    \A j \in Ids \ {i} :
        Writes(calls[j].tool) /\ Started(j) => calls[j].files \intersect calls[i].files = {}

Untouched(i) == \A f \in calls[i].todo : disk[f] = start[f]

\* the text of call i is in its files, but for those left to do
Landed(i, left) ==
    \A f \in calls[i].files \ left : disk[f] = {calls[i].mark} \union Kept(calls[i], start[f])

\* only calls past their gate have changed a file
Accountable ==
    pc = "running" => \A f \in Files : disk[f] # start[f] =>
        \E i \in Ids : Started(i) /\ Writes(calls[i].tool) /\ f \in calls[i].files

InOrder(i) ==
    /\ calls[i].step \in {"open", "store"} => Untouched(i) /\ Landed(i, calls[i].todo)
    /\ calls[i].step = "store" => \A f \in calls[i].at : calls[i].buffer = Kept(calls[i], start[f])
    /\ calls[i].step = "done" /\ calls[i].ok => Landed(i, {})

Progress ==
    outside = 0 =>
        /\ Accountable
        /\ \A i \in Ids : calls[i].step = "gate" => calls[i].todo = calls[i].files
        /\ \A i \in Ids : Writes(calls[i].tool) /\ Alone(i) => InOrder(i)

LInv == Inv /\ Progress

\* The four things a step of a call may be: it passes the gate, or is over without an
\* effect it reports, or loads a file, or stores one.
Passes(i, c) ==
    /\ calls[i].step = "gate" /\ c.step = "open" /\ UNCHANGED disk
    /\ \/ c.todo = c.files
       \/ c.todo = calls[i].todo /\ c.files = calls[i].files

Fails(i, c) ==
    /\ c.step = "done" /\ (c.ok => ~Writes(c.tool)) /\ c.files = calls[i].files
    /\ \A f \in Files : disk'[f] # disk[f] => calls[i].step = "store" /\ f \in calls[i].at

Loads(i, c) ==
    /\ calls[i].step = "open" /\ c.step = "store" /\ UNCHANGED disk
    /\ c.files = calls[i].files /\ c.todo = calls[i].todo
    /\ \A f \in c.at : f \in c.todo /\ c.buffer = Kept(c, disk[f])

Stores(i, c) ==
    /\ calls[i].step = "store" /\ c.files = calls[i].files
    /\ disk' = [f \in Files |-> IF f \in calls[i].at THEN calls[i].buffer \union {calls[i].mark}
                                ELSE disk[f]]
    /\ \/ c.step = "open" /\ c.todo = calls[i].todo \ calls[i].at
       \/ c.step = "done" /\ calls[i].todo \subseteq calls[i].at

\* A step of a call is one of the four.
LEMMA StepMoves ==
    ASSUME Inv, NEW i \in Ids, CallStep(i)
    PROVE  \E c \in Call :
             /\ Becomes(i, c) /\ pc = "running" /\ c.tool = calls[i].tool /\ c.mark = calls[i].mark
             /\ Passes(i, c) \/ Fails(i, c) \/ Loads(i, c) \/ Stores(i, c)
<1> USE DEF Inv, Step, Goes
<1>0. calls[i] \in Call /\ calls[i].at \subseteq calls[i].todo /\ disk \in [Files -> Text]
  <2>1. calls[i] \in Call
    BY ElementOfSeq, LenProperties DEF TypeOK, Ids
  <2> QED
    BY <2>1 DEF TypeOK, Ids
<1> DEFINE Moves(c) ==
      /\ Becomes(i, c) /\ pc = "running" /\ c.tool = calls[i].tool /\ c.mark = calls[i].mark
      /\ Passes(i, c) \/ Fails(i, c) \/ Loads(i, c) \/ Stores(i, c)
<1>1. CASE Bar(i)
  <2> DEFINE d == Done(i, FALSE)
             c == [d EXCEPT !.barred = TRUE]
  <2>1. d \in Call /\ d.tool = calls[i].tool /\ d.mark = calls[i].mark
        /\ d.files = calls[i].files /\ d.step = "done" /\ d.ok = FALSE
    BY DoneCall
  <2>2. Becomes(i, c) /\ UNCHANGED disk /\ pc = "running"
    BY <1>1 DEF Bar
  <2> HIDE DEF d
  <2>3. c \in Call /\ c.tool = d.tool /\ c.mark = d.mark /\ c.files = d.files
        /\ c.step = d.step /\ c.ok = d.ok
    BY <2>1 DEF Call
  <2> HIDE DEF c
  <2> QED
    BY <2>1, <2>2, <2>3 DEF Fails
<1>2. CASE Pass(i)
  <2> DEFINE c == [calls[i] EXCEPT !.step = "open"]
  <2>1. c \in Call /\ c.tool = calls[i].tool /\ c.mark = calls[i].mark
        /\ c.files = calls[i].files /\ c.todo = calls[i].todo /\ c.step = "open"
    BY <1>0 DEF Call
  <2>2. Becomes(i, c) /\ UNCHANGED disk /\ pc = "running" /\ calls[i].step = "gate"
    BY <1>2 DEF Pass
  <2> HIDE DEF c
  <2> QED
    BY <2>1, <2>2 DEF Passes
<1>3. ASSUME NEW n \in Names, Rewrite(i, n) PROVE \E c \in Call : Moves(c)
  <2> DEFINE files == Opened(calls[i].tool, {n})
             b == [calls[i] EXCEPT !.step = "open"]
             d == [b EXCEPT !.files = files]
             c == [d EXCEPT !.todo = files]
  <2>1. files \subseteq Files
    BY DEF Opened, BatchAssumption
  <2> HIDE DEF files
  <2>2. Becomes(i, c) /\ UNCHANGED disk /\ pc = "running" /\ calls[i].step = "gate"
    BY <1>3 DEF Rewrite, c, d, b, files
  <2>3. b \in Call /\ b.tool = calls[i].tool /\ b.mark = calls[i].mark /\ b.step = "open"
    BY <1>0 DEF Call
  <2> HIDE DEF b
  <2>4. d \in Call /\ d.tool = b.tool /\ d.mark = b.mark /\ d.files = files /\ d.step = b.step
    BY <2>1, <2>3 DEF Call
  <2> HIDE DEF d
  <2>5. c \in Call /\ c.tool = d.tool /\ c.mark = d.mark /\ c.files = d.files /\ c.todo = files
        /\ c.step = d.step
    BY <2>1, <2>4 DEF Call
  <2> HIDE DEF c
  <2> QED
    BY <2>2, <2>3, <2>4, <2>5 DEF Passes
<1>4. CASE OpenFails(i)
  <2>1. Becomes(i, Done(i, FALSE)) /\ UNCHANGED disk /\ pc = "running"
    BY <1>4 DEF OpenFails
  <2> QED
    BY <2>1, DoneCall DEF Fails
<1>5. CASE Read(i)
  <2>1. Becomes(i, Done(i, TRUE)) /\ UNCHANGED disk /\ pc = "running" /\ ~Writes(calls[i].tool)
    BY <1>5 DEF Read, Writes
  <2> QED
    BY <2>1, DoneCall DEF Fails
<1>6. ASSUME NEW f \in Files, Load(i, f) PROVE \E c \in Call : Moves(c)
  <2> DEFINE text == IF calls[i].tool = "Write" THEN {} ELSE disk[f]
             b == [calls[i] EXCEPT !.step = "store"]
             d == [b EXCEPT !.at = {f}]
             c == [d EXCEPT !.buffer = text]
  <2>1. text \in Text /\ f \in calls[i].todo /\ text = Kept(calls[i], disk[f])
    BY <1>0, <1>6 DEF Load, Text, Kept
  <2>2. Becomes(i, c) /\ UNCHANGED disk /\ pc = "running" /\ calls[i].step = "open"
    BY <1>6 DEF Load
  <2> HIDE DEF text
  <2>3. b \in Call /\ b.tool = calls[i].tool /\ b.mark = calls[i].mark /\ b.files = calls[i].files
        /\ b.todo = calls[i].todo /\ b.step = "store"
    BY <1>0 DEF Call
  <2> HIDE DEF b
  <2>4. d \in Call /\ d.tool = b.tool /\ d.mark = b.mark /\ d.files = b.files /\ d.todo = b.todo
        /\ d.step = b.step /\ d.at = {f}
    BY <2>3 DEF Call
  <2> HIDE DEF d
  <2>5. c \in Call /\ c.tool = d.tool /\ c.mark = d.mark /\ c.files = d.files /\ c.todo = d.todo
        /\ c.step = d.step /\ c.at = d.at /\ c.buffer = text
    BY <2>1, <2>4 DEF Call
  <2> HIDE DEF c
  <2> QED
    BY <2>1, <2>2, <2>3, <2>4, <2>5 DEF Loads, Kept
<1>7. CASE Store(i)
  <2>1. /\ pc = "running" /\ calls[i].step = "store"
        /\ disk' = [f \in Files |-> IF f \in calls[i].at THEN calls[i].buffer \union {calls[i].mark}
                                    ELSE disk[f]]
    BY <1>7 DEF Store, NewText
  <2> DEFINE left == calls[i].todo \ calls[i].at
             b == [calls[i] EXCEPT !.step = "open"]
             d == [b EXCEPT !.todo = left]
             c == [d EXCEPT !.at = {}]
  <2>2. CASE left = {}
    <3>1. Becomes(i, Done(i, TRUE))
      BY <1>7, <2>2 DEF Store
    <3>2. calls[i].todo \subseteq calls[i].at
      BY <2>2
    <3> QED
      BY <2>1, <3>1, <3>2, DoneCall DEF Stores
  <2>3. CASE left # {}
    <3>1. Becomes(i, c)
      BY <1>7, <2>3 DEF Store
    <3>2. left \subseteq Files
      BY <1>0 DEF Call
    <3>3. b \in Call /\ b.tool = calls[i].tool /\ b.mark = calls[i].mark
          /\ b.files = calls[i].files /\ b.step = "open"
      BY <1>0 DEF Call
    <3> HIDE DEF b
    <3>4. d \in Call /\ d.tool = b.tool /\ d.mark = b.mark /\ d.files = b.files
          /\ d.todo = calls[i].todo \ calls[i].at /\ d.step = b.step
      BY <3>2, <3>3 DEF Call
    <3> HIDE DEF d
    <3>5. c \in Call /\ c.tool = d.tool /\ c.mark = d.mark /\ c.files = d.files
          /\ c.todo = d.todo /\ c.step = d.step
      BY <3>4 DEF Call
    <3> HIDE DEF c
    <3> QED
      BY <2>1, <3>1, <3>3, <3>4, <3>5 DEF Stores
  <2> QED
    BY <2>2, <2>3
<1>8. CASE StoreFails(i)
  <2>1. Becomes(i, Done(i, FALSE)) /\ pc = "running" /\ calls[i].step = "store"
    BY <1>8 DEF StoreFails
  <2>2. \A f \in Files : disk'[f] # disk[f] => f \in calls[i].at
    BY <1>8 DEF StoreFails
  <2> QED
    BY <2>1, <2>2, DoneCall DEF Fails
<1> QED
  BY <1>1, <1>2, <1>3, <1>4, <1>5, <1>6, <1>7, <1>8 DEF CallStep

\* A step of one call keeps what the others and it itself have done in order.
LEMMA CallProgress ==
    ASSUME LInv, NEW i \in Ids, CallStep(i)
    PROVE  Progress'
<1>0. TypeOK /\ Shape /\ Inv /\ Progress
  BY DEF LInv, Inv
<1>1. PICK c \in Call :
        /\ Becomes(i, c) /\ pc = "running" /\ c.tool = calls[i].tool /\ c.mark = calls[i].mark
        /\ Passes(i, c) \/ Fails(i, c) \/ Loads(i, c) \/ Stores(i, c)
  BY <1>0, StepMoves
<1>2. /\ Ids' = Ids /\ calls'[i] = c
      /\ \A j \in Ids \ {i} : calls'[j] = calls[j]
  BY <1>0, <1>1, OneCallChanges DEF Ids
<1>3. /\ UNCHANGED <<pc, start, outside>> /\ disk \in [Files -> Text]
      /\ \A j \in Ids : /\ calls[j].at \subseteq calls[j].todo /\ calls[j].todo \subseteq calls[j].files
                        /\ calls[j].files \subseteq Files
  <2>1. \A j \in Ids : calls[j] \in Call
    BY <1>0, <1>1, OneCallChanges
  <2> QED
    BY <1>0, <1>1, <2>1 DEF Becomes, bounds, TypeOK, Ids, Call
<1> SUFFICES ASSUME outside = 0
             PROVE  /\ Accountable'
                    /\ \A j \in Ids : calls'[j].step = "gate" => calls'[j].todo = calls'[j].files
                    /\ \A j \in Ids : Writes(calls'[j].tool) /\ Alone(j)' => InOrder(j)'
  BY <1>2, <1>3 DEF Progress
<1>4. /\ Accountable
      /\ \A j \in Ids : calls[j].step = "gate" => calls[j].todo = calls[j].files
      /\ \A j \in Ids : Writes(calls[j].tool) /\ Alone(j) => InOrder(j)
  BY <1>0 DEF Progress
<1>5. c.step # "gate" /\ (Started(i) => c.files = calls[i].files)
  BY <1>1 DEF Passes, Fails, Loads, Stores, Started
<1>6. \A f \in Files : disk'[f] # disk[f] =>
         calls[i].step = "store" /\ f \in calls[i].at /\ f \in calls[i].files /\ Writes(calls[i].tool)
  <2>1. \A f \in Files : disk'[f] # disk[f] => calls[i].step = "store" /\ f \in calls[i].at
    BY <1>1 DEF Passes, Fails, Loads, Stores
  <2> QED
    BY <1>0, <1>3, <2>1 DEF Shape
<1>7. Accountable'
  <2> SUFFICES ASSUME NEW f \in Files, disk'[f] # start[f]
               PROVE  \E j \in Ids : Started(j)' /\ Writes(calls'[j].tool) /\ f \in calls'[j].files
    BY <1>2, <1>3 DEF Accountable
  <2>1. \E j \in Ids : Started(j) /\ Writes(calls[j].tool) /\ f \in calls[j].files
    <3>1. CASE disk'[f] = disk[f]
      BY <1>1, <1>4, <3>1 DEF Accountable
    <3>2. CASE disk'[f] # disk[f]
      BY <1>6, <3>2 DEF Started
    <3> QED
      BY <3>1, <3>2
  <2>2. PICK j \in Ids : Started(j) /\ Writes(calls[j].tool) /\ f \in calls[j].files
    BY <2>1
  <2> QED
    BY <1>1, <1>2, <1>5, <2>2 DEF Started
<1>8. \A j \in Ids : calls'[j].step = "gate" => calls'[j].todo = calls'[j].files
  BY <1>2, <1>4, <1>5
<1>9. ASSUME NEW j \in Ids \ {i}, Writes(calls'[j].tool), Alone(j)' PROVE InOrder(j)'
  <2>1. Alone(j)
    BY <1>1, <1>2, <1>5, <1>9 DEF Alone, Started
  <2>2. InOrder(j)
    BY <1>2, <1>4, <1>9, <2>1
  <2>3. \A f \in calls[j].files : disk'[f] = disk[f]
    BY <1>3, <1>6, <2>1 DEF Alone, Started
  <2>4. calls'[j] = calls[j] /\ UNCHANGED start
    BY <1>2, <1>3
  <2> QED
    BY <1>3, <2>2, <2>3, <2>4 DEF InOrder, Untouched, Landed
<1>10. ASSUME Writes(calls'[i].tool), Alone(i)' PROVE InOrder(i)'
  <2>1. /\ Writes(c.tool)
        /\ \A j \in Ids \ {i} : Writes(calls[j].tool) /\ Started(j) => calls[j].files \intersect c.files = {}
    BY <1>2, <1>10 DEF Alone, Started
  <2>2. calls'[i] = c /\ UNCHANGED start /\ (\A t : Kept(c, t) = Kept(calls[i], t))
    BY <1>1, <1>2, <1>3 DEF Kept
  <2>3. CASE Passes(i, c)
    <3>1. c.todo = c.files /\ c.step = "open" /\ UNCHANGED disk /\ ~Started(i)
      BY <1>4, <2>3 DEF Passes, Started
    <3>2. \A f \in c.files : disk[f] = start[f]
      <4> SUFFICES ASSUME NEW f \in c.files, disk[f] # start[f] PROVE FALSE
        OBVIOUS
      <4>1. f \in Files
        BY DEF Call
      <4>2. PICK k \in Ids : Started(k) /\ Writes(calls[k].tool) /\ f \in calls[k].files
        BY <1>1, <1>4, <4>1 DEF Accountable
      <4> QED
        BY <2>1, <3>1, <4>2
    <3> QED
      BY <2>2, <3>1, <3>2 DEF InOrder, Untouched, Landed
  <2>4. CASE Fails(i, c)
    BY <2>1, <2>2, <2>4 DEF Fails, InOrder
  <2>5. ASSUME calls[i].step # "gate", c.files = calls[i].files PROVE InOrder(i)
    BY <1>1, <1>4, <2>1, <2>5 DEF Alone
  <2>6. CASE Loads(i, c)
    <3>1. Untouched(i) /\ Landed(i, calls[i].todo)
      BY <2>5, <2>6 DEF Loads, InOrder
    <3>2. /\ c.step = "store" /\ UNCHANGED disk /\ c.files = calls[i].files /\ c.todo = calls[i].todo
          /\ \A f \in c.at : f \in c.todo /\ c.buffer = Kept(c, disk[f])
      BY <2>6 DEF Loads
    <3>3. \A f \in c.at : c.buffer = Kept(c, start[f])
      BY <3>1, <3>2 DEF Untouched
    <3>4. Untouched(i)' /\ Landed(i, calls[i].todo)'
      BY <1>1, <2>2, <3>1, <3>2 DEF Untouched, Landed
    <3> QED
      BY <2>2, <3>2, <3>3, <3>4 DEF InOrder
  <2>7. CASE Stores(i, c)
    <3>1. /\ Untouched(i) /\ Landed(i, calls[i].todo)
          /\ \A f \in calls[i].at : calls[i].buffer = Kept(calls[i], start[f])
      BY <2>5, <2>7 DEF Stores, InOrder
    <3>2. /\ c.files = calls[i].files
          /\ \A f \in Files : disk'[f] = IF f \in calls[i].at THEN calls[i].buffer \union {calls[i].mark}
                                         ELSE disk[f]
          /\ \/ c.step = "open" /\ c.todo = calls[i].todo \ calls[i].at
             \/ c.step = "done" /\ calls[i].todo \subseteq calls[i].at
      BY <2>7 DEF Stores
    <3>3. \A f \in c.files : f \notin calls[i].todo \ calls[i].at =>
             disk'[f] = {c.mark} \union Kept(c, start[f])
      BY <1>1, <1>3, <2>2, <3>1, <3>2 DEF Landed
    <3>4. \A f \in calls[i].todo \ calls[i].at : disk'[f] = start[f]
      BY <1>3, <3>1, <3>2 DEF Untouched
    <3>5. CASE c.step = "open" /\ c.todo = calls[i].todo \ calls[i].at
      BY <2>2, <3>3, <3>4, <3>5 DEF InOrder, Untouched, Landed
    <3>6. CASE c.step = "done" /\ calls[i].todo \subseteq calls[i].at
      BY <2>2, <3>3, <3>6 DEF InOrder, Landed
    <3> QED
      BY <3>2, <3>5, <3>6
  <2> QED
    BY <1>1, <2>3, <2>4, <2>6, <2>7
<1> QED
  BY <1>7, <1>8, <1>9, <1>10

\* Every step keeps the calls' progress.
LEMMA StepProgress == LInv /\ [Next]_vars => Progress'
<1> SUFFICES ASSUME LInv, [Next]_vars PROVE Progress'
  OBVIOUS
<1>0. TypeOK /\ Shape /\ Inv /\ Progress
  BY DEF LInv, Inv
<1>1. CASE StartRun \/ EndRun \/ Record
  <2>1. Ids' = {} /\ pc' # "running"
    BY <1>0, <1>1 DEF StartRun, EndRun, Record, Shape, Ids
  <2> QED
    BY <2>1 DEF Progress, Accountable
<1>2. ASSUME NEW n \in 1..BatchSize, NEW batch \in [1..n -> Requests], Dispatch(batch)
      PROVE  Progress'
  <2>1. /\ Ids' = 1..n /\ start' = disk /\ disk' = disk
        /\ \A i \in 1..n : calls'[i] = Admit(batch[i], nextMark + i)
    BY <1>0, <1>2, NewBatch DEF Dispatch, Ids
  <2>2. ASSUME NEW i \in 1..n
        PROVE  /\ calls'[i].todo = calls'[i].files /\ ~calls'[i].ok
               /\ calls'[i].step \in {"gate", "done"}
    <3>1. batch[i] \in Requests /\ nextMark + i \in Nat
      BY <1>0 DEF TypeOK
    <3> QED
      BY <2>1, <3>1, AdmittedCall, AdmittedUndone
  <2> QED
    BY <2>1, <2>2 DEF Progress, Accountable, InOrder
<1>3. ASSUME NEW i \in Ids, CallStep(i) PROVE Progress'
  BY <1>3, CallProgress
<1>4. ASSUME NEW f \in Files, Outside(f) PROVE Progress'
  <2>1. outside' # 0
    BY <1>0, <1>4 DEF Outside, TypeOK
  <2> QED
    BY <2>1 DEF Progress
<1>5. CASE UNCHANGED vars
  BY <1>0, <1>5 DEF vars, Progress, Accountable, InOrder, Alone, Started, Untouched, Landed, Ids
<1> QED
  BY <1>1, <1>2, <1>3, <1>4, <1>5 DEF Next, Rest, Ids

\* When a batch is over, a call that reports success and shares no file with another
\* that writes has its text in every one of its files, and what it does not replace is
\* still there, whatever the tools, files and names, the interleaving of the calls, the
\* writes that fail half-way and the hooks that redirect calls (runner.rs, the ToolUse arm).
THEOREM SuccessIsTrue == Spec => []LoneCallsLand
<1>1. Init => LInv
  <2> SUFFICES ASSUME Init PROVE Progress
    BY InitInv DEF LInv
  <2>1. Ids = {} /\ pc = "idle"
    BY DEF Init, Ids
  <2> QED
    BY <2>1 DEF Progress, Accountable
<1>2. LInv /\ [Next]_vars => LInv'
  BY StepInv, StepProgress DEF LInv
<1>3. LInv => LoneCallsLand
  <2> SUFFICES ASSUME LInv, AllDone, outside = 0, NEW i \in Ids, calls[i].ok, Writes(calls[i].tool),
                      \A j \in Ids \ {i} : Writes(calls[j].tool) =>
                          calls[j].files \intersect calls[i].files = {},
                      NEW f \in calls[i].files
               PROVE  disk[f] = {calls[i].mark} \union
                                  (IF calls[i].tool = "Write" THEN {} ELSE start[f])
    BY DEF LoneCallsLand, Ids
  <2>1. calls[i].step = "done" /\ Alone(i)
    BY DEF AllDone, Ids, Alone
  <2>2. InOrder(i)
    BY <2>1 DEF LInv, Progress
  <2> QED
    BY <2>1, <2>2 DEF InOrder, Landed, Kept
<1> QED
  BY <1>1, <1>2, <1>3, PTL DEF Spec
=============================================================================
