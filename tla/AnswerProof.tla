---------------------------- MODULE AnswerProof ----------------------------
(***************************************************************************)
(* The answer of a provider is what was sent, for every answer it may mean *)
(* to give, whatever reader reads it, wherever it is cut off and however   *)
(* many events its channel holds.                                          *)
(*                                                                         *)
(* The argument: at any time the consumer's accumulator, once it has heard *)
(* what is in the channel and what the reader has yet to send, says what   *)
(* has been received (Says). An answer with blocks of its own says it part *)
(* by part (InParts); one of an OpenAI-compatible server has its text and, *)
(* at the end, a block for each slot (Streamed, Finalized), and a slot is  *)
(* one call's (InSlots). Once the answer is given it stays true, since the *)
(* reader reads on only where nothing is claimed of it (Concluded).        *)
(***************************************************************************)
EXTENDS ProviderStream, SequenceTheorems, FiniteSetTheorems, WellFoundedInduction, TLAPS

\* what a consumer makes of a sequence of events: its accumulator a becomes b
Heard(a, es, b) ==
    \E f : /\ f[0] = a /\ f[Len(es)] = b
           /\ \A n \in 1..Len(es) : f[n] = process_event(f[n - 1], es[n])

Record(a) == a = [blocks |-> a.blocks, open |-> a.open, stop |-> a.stop,
                  failed |-> a.failed, terminal |-> a.terminal]
Accumulator(a) ==
    /\ Record(a)
    /\ a.open = [i \in DOMAIN a.open |-> a.open[i]]

AnyPiece == {<<>>, Note} \cup ((Calls \cup {"text"}) \X Nat)
Blocks   == [type : Types, id : Calls \cup {NoId}, named : BOOLEAN, valid : BOOLEAN,
             body : Seq(AnyPiece)]

\* what has arrived of part i, and the block it makes
Got(i)   == IF reader = "gemini" THEN Size(i)
            ELSE IF sent[i] - 1 <= Size(i) THEN sent[i] - 1 ELSE Size(i)
Body(i, n) == [k \in 1..n |-> Piece(i, k)]
Block(i) == [type |-> IF IsCall(i) THEN "tool_use" ELSE "text",
             id |-> IF IsCall(i) THEN plan[i] ELSE NoId, named |-> IsCall(i),
             body |-> Body(i, Got(i))]

Faulty == closed = "reset" \/ finish = "trouble"

\* a provider's blocks are parts: the ones that ended are there, the one under way is open
Stopped(i) == Whole(i) \/ (sent[i] > 0 /\ finish \in Stops)
InParts(b) ==
    /\ b.blocks \in Seq(Blocks)
    /\ \A i \in 1..Len(b.blocks) : i \in Parts /\ Stopped(i) /\ b.blocks[i] = Built(Block(i))
    /\ \A i \in Parts : Stopped(i) => i <= Len(b.blocks)
    /\ \A i \in Parts : i - 1 \in DOMAIN b.open => sent[i] > 0
    /\ \A i \in Parts : sent[i] > 0 /\ ~Stopped(i) =>
         i - 1 \in DOMAIN b.open /\ b.open[i - 1] = Block(i)
ReasonTold(b) ==
    /\ b.failed = FALSE
    /\ b.stop = IF reader = "gemini" /\ finish # NoStop /\ SawCalls THEN "ToolUse" ELSE finish
    /\ b.terminal \in BOOLEAN
    /\ b.terminal <=> finish # NoStop \/ ended \/ (reader = "gemini" /\ closed = "eof")

\* OpenAI's text has arrived, its calls are put together in slots
Texts   == {i \in Parts : ~IsCall(i) /\ sent[i] > 0}
HasText(body) == \A i \in Texts : \E k \in 1..Len(body) : body[k] = Piece(i, 1)
TextBlock(q) == [type |-> "text", id |-> NoId, named |-> FALSE, body |-> q]
Streamed(b) ==
    /\ b.blocks = <<>> /\ b.failed = FALSE
    /\ DOMAIN b.open = IF texted THEN {0} ELSE {}
    /\ texted => \E q \in Seq(AnyPiece) : b.open[0] = TextBlock(q) /\ HasText(q)
    /\ b.terminal \in BOOLEAN /\ (b.terminal => finish \in Stops)
    /\ b.stop \in Stops \cup {NoStop} /\ (b.stop # NoStop => finish \in Stops)

\* and the answer is complete: a block for each call that can be routed, the text first
CallOf(s) == ToolUse(slots[s].id, slots[s].named, slots[s].args)
Routed    == {s \in DOMAIN slots : Routable(s)}
FinalizedAs(b, given, done) ==
    /\ b.blocks \in Seq(Blocks)
    /\ \A s \in Routed : s + 2 <= Len(b.blocks) /\ b.blocks[s + 2] = CallOf(s)
    /\ \A p \in 1..Len(b.blocks) : p - 2 \in Routed \/ b.blocks[p].type = "text"
    /\ texted => Len(b.blocks) > 0 /\ HasText(b.blocks[1].body)
    /\ Noted => Len(b.blocks) > 0 /\ \E k \in 1..Len(b.blocks[1].body) : b.blocks[1].body[k] = Note
    /\ b.failed \in BOOLEAN /\ (b.failed <=> Fault(done))
    /\ b.terminal = TRUE /\ b.stop = StopFor(given)
Finalized(b) == FinalizedAs(b, finish, ended)

Says(b) ==
    /\ Accumulator(b)
    /\ Faulty => b.failed = TRUE
    /\ ~Faulty /\ reader \notin OpenAI => InParts(b) /\ ReasonTold(b)
    /\ ~Faulty /\ reader \in OpenAI /\ closed = "no" => Streamed(b)
    /\ ~Faulty /\ reader \in OpenAI /\ closed = "eof" => Finalized(b)

(***************************************************************************)
(* The invariant.                                                          *)
(***************************************************************************)
Types1 ==
    /\ reader \in Readers /\ plan \in Plans
    /\ reader \notin OpenAI => \A i \in Parts : plan[i] \notin Nameless
    /\ sent \in [Parts -> Nat] /\ \A i \in Parts : sent[i] <= FramesOf(i)
    /\ finish \in Stops \cup {NoStop, "trouble"} /\ ended \in BOOLEAN
    /\ closed \in {"no", "eof", "reset"}
    /\ texted \in BOOLEAN /\ block \in Nat /\ running \in BOOLEAN
    /\ chan \in Seq(Events)
    /\ Accumulator(acc)

\* parts arrive in the plan's order, but for calls that may take turns
TakesTurns == reader \in {"numbered", "by id"}
Before ==
    \A i, j \in Parts : j < i /\ sent[i] > 0 =>
        Whole(j) \/ (TakesTurns /\ IsCall(j) /\ sent[j] > 0)

Phases ==
    /\ ended => closed = "eof" /\ finish # "trouble" /\ (finish = NoStop => reader \in OpenAI)
    /\ finish = "trouble" => reader = "anthropic"
    /\ ~running => Gone \/ (closed # "no" /\ outbox = <<>>)
    /\ reader = "gemini" => /\ \A i \in 1..block : i \in Parts /\ sent[i] = 1
                            /\ \A i \in Parts : i > block => sent[i] = 0

\* a call's slot is the number of calls before it
Rank(i)     == Cardinality({j \in Parts : j < i /\ IsCall(j)})
OpenedCalls == {i \in Parts : IsCall(i) /\ sent[i] > 0}
Assembled(i) == [id |-> IF plan[i] \in Nameless /\ reader = "numbered" THEN NoId ELSE plan[i],
                 named |-> plan[i] \notin Nameless, args |-> Body(i, sent[i] - 1)]
InSlots ==
    /\ DOMAIN slots = {Rank(i) : i \in OpenedCalls}
    /\ \A i \in OpenedCalls : slots[Rank(i)] = Assembled(i)
    /\ reader # "numbered" =>
         /\ DOMAIN slotOf = {plan[i] : i \in OpenedCalls}
         /\ \A i \in OpenedCalls : slotOf[plan[i]] = Rank(i)
    /\ reader = "bare" =>
         \A i \in OpenedCalls : (\A j \in OpenedCalls : j <= i) => last = Rank(i)
    /\ texted <=> Texts # {}

\* an answer stays true
Concluded ==
    Gone => /\ chan = <<>>
            /\ outcome.kind \in {"ok", "err", "dropped"}
            /\ outcome.kind # "ok" => outcome.blocks = <<>>
            /\ outcome.kind = "ok" => ~running
            /\ outcome.kind = "err" /\ running => closed # "no" \/ finish = "trouble"
            /\ AnswerIsTrue

Flowing ==
    ~Gone => /\ outcome = Pending /\ outbox \in Seq(Events)
             /\ \E b : Heard(acc, chan \o outbox, b) /\ Says(b)

AnswerInv == Types1 /\ Before /\ Phases /\ (reader \in OpenAI => InSlots) /\ Concluded /\ Flowing

(***************************************************************************)
(* What is heard of one event, and of one sequence of events after another.*)
(***************************************************************************)
LEMMA HeardNothing == ASSUME NEW a, NEW b PROVE Heard(a, <<>>, b) <=> b = a
<1>1. Heard(a, <<>>, b) => b = a
  BY DEF Heard
<1>2. Heard(a, <<>>, a)
  <2> DEFINE f == [n \in {0} |-> a]
  <2>1. f[0] = a /\ f[Len(<<>>)] = a /\ (\A n \in 1..Len(<<>>) : f[n] = process_event(f[n - 1], <<>>[n]))
    OBVIOUS
  <2> QED BY <2>1, Zenon DEF Heard
<1> QED BY <1>1, <1>2

LEMMA HeardOne == ASSUME NEW a, NEW e PROVE Heard(a, <<e>>, process_event(a, e))
<1> DEFINE b == process_event(a, e)
<1> HIDE DEF b
<1> DEFINE f == [n \in {0, 1} |-> IF n = 0 THEN a ELSE b]
<1>1. f[0] = a /\ f[1] = b /\ Len(<<e>>) = 1 /\ <<e>>[1] = e
  OBVIOUS
<1>2. \A n \in 1..Len(<<e>>) : f[n] = process_event(f[n - 1], <<e>>[n])
  <2> TAKE n \in 1..Len(<<e>>)
  <2>1. n = 1 /\ n - 1 = 0
    BY <1>1
  <2> QED BY <2>1, <1>1, Zenon DEF b
<1> QED BY <1>1, <1>2, Zenon DEF Heard, b

LEMMA HeardMore ==
    ASSUME NEW S, NEW s \in Seq(S), NEW t \in Seq(S), NEW a, NEW b, NEW c, Heard(a, s, b), Heard(b, t, c)
    PROVE  Heard(a, s \o t, c)
<1>1. PICK f : f[0] = a /\ f[Len(s)] = b /\ \A n \in 1..Len(s) : f[n] = process_event(f[n - 1], s[n])
  BY DEF Heard
<1>2. PICK g : g[0] = b /\ g[Len(t)] = c /\ \A n \in 1..Len(t) : g[n] = process_event(g[n - 1], t[n])
  BY DEF Heard
<1> DEFINE m == Len(s)
           k == Len(t)
           h == [n \in 0..(m + k) |-> IF n <= m THEN f[n] ELSE g[n - m]]
<1>3. m \in Nat /\ k \in Nat /\ Len(s \o t) = m + k
  OBVIOUS
<1>4. h[0] = a /\ h[m + k] = c
  BY <1>1, <1>2, <1>3
<1>5. ASSUME NEW n \in 1..(m + k) PROVE h[n] = process_event(h[n - 1], (s \o t)[n])
  <2>1. CASE n <= m
    <3>1. h[n] = f[n] /\ h[n - 1] = f[n - 1] /\ (s \o t)[n] = s[n] /\ n \in 1..Len(s)
      BY <2>1, <1>3
    <3> QED BY <3>1, <1>1
  <2>2. CASE n > m
    <3>1. h[n] = g[n - m] /\ (s \o t)[n] = t[n - m] /\ n - m \in 1..Len(t)
      BY <2>2, <1>3
    <3>2. h[n - 1] = g[n - m - 1]
      BY <2>2, <1>1, <1>2, <1>3
    <3>3. g[n - m] = process_event(g[n - m - 1], t[n - m])
      BY <3>1, <1>2
    <3> QED BY <3>1, <3>2, <3>3
  <2> QED BY <2>1, <2>2, <1>3
<1> HIDE DEF h
<1> QED BY <1>3, <1>4, <1>5 DEF Heard

LEMMA HeardFirst ==
    ASSUME NEW S, NEW s \in Seq(S), s # <<>>, NEW a, NEW b, Heard(a, s, b)
    PROVE  Heard(process_event(a, Head(s)), Tail(s), b)
<1>1. PICK f : f[0] = a /\ f[Len(s)] = b /\ \A n \in 1..Len(s) : f[n] = process_event(f[n - 1], s[n])
  BY DEF Heard
<1> DEFINE m == Len(Tail(s))
           h == [n \in 0..m |-> f[n + 1]]
<1>2. m \in Nat /\ Len(s) = m + 1 /\ Head(s) = s[1]
  OBVIOUS
<1>3. f[1] = process_event(f[0], s[1])
  BY <1>1, <1>2
<1>4. h[0] = process_event(a, Head(s)) /\ h[m] = b
  BY <1>1, <1>2, <1>3
<1>5. ASSUME NEW n \in 1..m PROVE h[n] = process_event(h[n - 1], Tail(s)[n])
  <2>1. h[n] = f[n + 1] /\ h[n - 1] = f[n] /\ Tail(s)[n] = s[n + 1] /\ n + 1 \in 1..Len(s)
    BY <1>2
  <2>2. f[n + 1] = process_event(f[n + 1 - 1], s[n + 1]) /\ n + 1 - 1 = n
    BY <2>1, <1>1
  <2> QED BY <2>1, <2>2
<1> HIDE DEF h
<1> QED BY <1>2, <1>4, <1>5 DEF Heard

\* a non-empty set of natural numbers has a least element
LEMMA LeastNat ==
    ASSUME NEW T, T \subseteq Nat, T # {}
    PROVE  \E x \in T : \A y \in T : x <= y
<1> DEFINE R == OpToRel(<, Nat)
<1>1. IsWellFoundedOn(R, Nat)
  BY NatLessThanWellFounded
<1>2. \A x, y \in Nat : (<<y, x>> \in R) <=> y < x
  BY SMT DEF R, OpToRel
<1> HIDE DEF R
<1>3. PICK x \in T : \A y \in T : ~ (<<y, x>> \in R)
  BY <1>1, WFMin
<1>4. \A y \in T : x <= y
  <2> TAKE y \in T
  <2>1. ~ (<<y, x>> \in R)
    BY <1>3
  <2>2. x \in Nat /\ y \in Nat
    OBVIOUS
  <2>3. ~ (y < x)
    BY <2>1, <2>2, <1>2
  <2> QED BY <2>2, <2>3
<1> QED BY <1>4

\* events are what their constructors say
LEMMA EventTypes ==
    /\ \A i \in Nat, t \in Types, id \in Calls \cup {NoId}, n \in BOOLEAN : BlockStart(i, t, id, n) \in Events
    /\ \A i \in Nat, p \in AnyPiece : Delta(i, p) \in Events
    /\ \A i \in Nat : BlockStop(i) \in Events
    /\ \A stop \in Stops \cup {NoStop} : MessageDelta(stop) \in Events
    /\ MessageStop \in Events /\ Error \in Events
BY DEF Events, BlockStart, Delta, BlockStop, MessageDelta, MessageStop, Error, Event, Types, AnyPiece, Stops

\* one field of an accumulator at a time
LEMMA SetBlocks ==
    ASSUME NEW a, Record(a), NEW v
    PROVE  LET c == [a EXCEPT !.blocks = v] IN
           Record(c) /\ c.blocks = v /\ c.open = a.open /\ c.stop = a.stop /\ c.failed = a.failed /\ c.terminal = a.terminal
BY DEF Record

LEMMA SetOpen ==
    ASSUME NEW a, Record(a), NEW v
    PROVE  LET c == [a EXCEPT !.open = v] IN
           Record(c) /\ c.open = v /\ c.blocks = a.blocks /\ c.stop = a.stop /\ c.failed = a.failed /\ c.terminal = a.terminal
BY DEF Record

LEMMA SetStop ==
    ASSUME NEW a, Record(a), NEW v
    PROVE  LET c == [a EXCEPT !.stop = v] IN
           Record(c) /\ c.stop = v /\ c.blocks = a.blocks /\ c.open = a.open /\ c.failed = a.failed /\ c.terminal = a.terminal
BY DEF Record

LEMMA SetFailed ==
    ASSUME NEW a, Record(a), NEW v
    PROVE  LET c == [a EXCEPT !.failed = v] IN
           Record(c) /\ c.failed = v /\ c.blocks = a.blocks /\ c.open = a.open /\ c.stop = a.stop /\ c.terminal = a.terminal
BY DEF Record

LEMMA SetTerminal ==
    ASSUME NEW a, Record(a), NEW v
    PROVE  LET c == [a EXCEPT !.terminal = v] IN
           Record(c) /\ c.terminal = v /\ c.blocks = a.blocks /\ c.open = a.open /\ c.stop = a.stop /\ c.failed = a.failed
BY DEF Record

\* what one event makes of an accumulator
StartedAs(a, i, t, id, n, c) ==
    /\ Accumulator(c)
    /\ c.blocks = a.blocks /\ c.stop = a.stop /\ c.failed = a.failed /\ c.terminal = a.terminal
    /\ DOMAIN c.open = DOMAIN a.open \cup {i}
    /\ c.open[i] = [type |-> t, id |-> IF id = NoId THEN Opened(a, i).id ELSE id,
                    named |-> n \/ Opened(a, i).named, body |-> Opened(a, i).body]
    /\ \A j \in DOMAIN a.open \ {i} : c.open[j] = a.open[j]

LEMMA StartOf ==
    ASSUME NEW a, Accumulator(a), NEW i, NEW t, NEW id, NEW n, NEW c, c = process_event(a, BlockStart(i, t, id, n))
    PROVE  StartedAs(a, i, t, id, n, c)
<1> DEFINE e == BlockStart(i, t, id, n)
           o == Opened(a, i)
           x == [type |-> t, id |-> IF id = NoId THEN o.id ELSE id, named |-> n \/ o.named, body |-> o.body]
           w == [j \in DOMAIN a.open \cup {i} |-> IF j = i THEN x ELSE a.open[j]]
<1>1. e.kind = "start" /\ e.index = i /\ e.type = t /\ e.id = id /\ e.named = n
  BY DEF BlockStart, Event
<1>2. process_event(a, e) = Reopen(a, i, x)
  BY <1>1 DEF process_event
<1>3. Reopen(a, i, x) = [a EXCEPT !.open = w]
  BY DEF Reopen
<1> HIDE DEF x, e, o
<1>4. /\ Accumulator([a EXCEPT !.open = w]) /\ [a EXCEPT !.open = w].open = w
      /\ [a EXCEPT !.open = w].blocks = a.blocks /\ [a EXCEPT !.open = w].stop = a.stop
      /\ [a EXCEPT !.open = w].failed = a.failed /\ [a EXCEPT !.open = w].terminal = a.terminal
  <2>1. w = [j \in DOMAIN w |-> w[j]]
    OBVIOUS
  <2> HIDE DEF w
  <2> QED BY <2>1, SetOpen DEF Accumulator
<1>5. DOMAIN w = DOMAIN a.open \cup {i} /\ w[i] = x /\ \A j \in DOMAIN a.open \ {i} : w[j] = a.open[j]
  OBVIOUS
<1> HIDE DEF w
<1>6. /\ Accumulator(c) /\ c.blocks = a.blocks /\ c.stop = a.stop /\ c.failed = a.failed
      /\ c.terminal = a.terminal /\ DOMAIN c.open = DOMAIN a.open \cup {i} /\ c.open[i] = x
      /\ \A j \in DOMAIN a.open \ {i} : c.open[j] = a.open[j]
  BY <1>2, <1>3, <1>4, <1>5 DEF e
<1> QED BY <1>6, Zenon DEF StartedAs, x, o

LEMMA DeltaOf ==
    ASSUME NEW a, Accumulator(a), NEW i, NEW p, NEW c, c = process_event(a, Delta(i, p)),
           NEW t, NEW id, NEW n, NEW q, Opened(a, i) = [type |-> t, id |-> id, named |-> n, body |-> q]
    PROVE  /\ Accumulator(c)
           /\ c.blocks = a.blocks /\ c.stop = a.stop /\ c.failed = a.failed /\ c.terminal = a.terminal
           /\ DOMAIN c.open = DOMAIN a.open \cup {i}
           /\ c.open[i] = [type |-> t, id |-> id, named |-> n, body |-> Append(q, p)]
           /\ \A j \in DOMAIN a.open \ {i} : c.open[j] = a.open[j]
<1> DEFINE e == Delta(i, p)
           x == [Opened(a, i) EXCEPT !.body = Append(@, p)]
           w == [j \in DOMAIN a.open \cup {i} |-> IF j = i THEN x ELSE a.open[j]]
<1>1. e.kind = "delta" /\ e.index = i /\ e.piece = p
  BY DEF Delta, Event
<1>2. process_event(a, e) = Reopen(a, i, x)
  BY <1>1 DEF process_event
<1>3. Reopen(a, i, x) = [a EXCEPT !.open = w]
  BY DEF Reopen
<1> HIDE DEF x, e
<1>4. /\ Accumulator([a EXCEPT !.open = w]) /\ [a EXCEPT !.open = w].open = w
      /\ [a EXCEPT !.open = w].blocks = a.blocks /\ [a EXCEPT !.open = w].stop = a.stop
      /\ [a EXCEPT !.open = w].failed = a.failed /\ [a EXCEPT !.open = w].terminal = a.terminal
  <2>1. w = [j \in DOMAIN w |-> w[j]]
    OBVIOUS
  <2> HIDE DEF w
  <2> QED BY <2>1, SetOpen DEF Accumulator
<1>5. DOMAIN w = DOMAIN a.open \cup {i} /\ w[i] = x /\ \A j \in DOMAIN a.open \ {i} : w[j] = a.open[j]
  OBVIOUS
<1> HIDE DEF w
<1>6. x = [type |-> t, id |-> id, named |-> n, body |-> Append(q, p)]
  <2> DEFINE o == Opened(a, i)
  <2>1. o = [type |-> t, id |-> id, named |-> n, body |-> q]
    OBVIOUS
  <2> HIDE DEF o
  <2>2. [o EXCEPT !.body = Append(@, p)] = [type |-> t, id |-> id, named |-> n, body |-> Append(q, p)]
    BY <2>1, SMTT(20)
  <2> QED BY <2>2 DEF x, o
<1> QED BY <1>2, <1>3, <1>4, <1>5, <1>6 DEF e

LEMMA StopOf ==
    ASSUME NEW a, Accumulator(a), NEW i, NEW c, c = process_event(a, BlockStop(i))
    PROVE  /\ Accumulator(c)
           /\ c.blocks = Placed(a.blocks, i, Built(Opened(a, i)))
           /\ c.stop = a.stop /\ c.failed = a.failed /\ c.terminal = a.terminal
           /\ DOMAIN c.open = DOMAIN a.open \cup {i}
           /\ \A j \in DOMAIN a.open \ {i} : c.open[j] = a.open[j]
<1> DEFINE e == BlockStop(i)
           x == [Idle EXCEPT !.type = Opened(a, i).type]
           p == Placed(a.blocks, i, Built(Opened(a, i)))
           w == [j \in DOMAIN a.open \cup {i} |-> IF j = i THEN x ELSE a.open[j]]
<1>1. e.kind = "stop" /\ e.index = i
  BY DEF BlockStop, Event
<1>2. process_event(a, e) = [Reopen(a, i, x) EXCEPT !.blocks = p]
  BY <1>1 DEF process_event
<1>3. Reopen(a, i, x) = [a EXCEPT !.open = w]
  BY DEF Reopen
<1> HIDE DEF x, e, p
<1> DEFINE y == [[a EXCEPT !.open = w] EXCEPT !.blocks = p]
<1>4. /\ Accumulator(y) /\ y.open = w /\ y.blocks = p /\ y.stop = a.stop
      /\ y.failed = a.failed /\ y.terminal = a.terminal
  <2>1. w = [j \in DOMAIN w |-> w[j]]
    OBVIOUS
  <2> HIDE DEF w
  <2> DEFINE d == [a EXCEPT !.open = w]
  <2>2. /\ Record(d) /\ d.open = w /\ d.stop = a.stop /\ d.failed = a.failed /\ d.terminal = a.terminal
    BY SetOpen DEF Accumulator
  <2> HIDE DEF d
  <2>3. y = [d EXCEPT !.blocks = p]
    BY DEF d
  <2> HIDE DEF y
  <2> QED BY <2>1, <2>2, <2>3, SetBlocks DEF Accumulator
<1>5. DOMAIN w = DOMAIN a.open \cup {i} /\ w[i] = x /\ \A j \in DOMAIN a.open \ {i} : w[j] = a.open[j]
  OBVIOUS
<1> HIDE DEF w
<1>6. process_event(a, e) = y
  BY <1>2, <1>3
<1> HIDE DEF y
<1> QED BY <1>4, <1>5, <1>6 DEF e, x, p

LEMMA EndingsOf ==
    ASSUME NEW a, Accumulator(a)
    PROVE  /\ \A stop \in Stops : process_event(a, MessageDelta(stop)) = [a EXCEPT !.stop = stop, !.terminal = TRUE]
           /\ process_event(a, MessageStop) = [a EXCEPT !.terminal = TRUE]
           /\ process_event(a, Error) = [a EXCEPT !.failed = TRUE]
BY DEF process_event, MessageDelta, MessageStop, Error, Event, Stops, NoStop

\* c is a but for its endings
EndedAs(a, c, stop, failed, terminal) ==
    /\ Accumulator(c) /\ c.blocks = a.blocks /\ c.open = a.open
    /\ c.stop = stop /\ c.failed = failed /\ c.terminal = terminal

LEMMA EndedIs ==
    ASSUME NEW a, Accumulator(a), NEW stop
    PROVE  /\ EndedAs(a, [a EXCEPT !.stop = stop, !.terminal = TRUE], stop, a.failed, TRUE)
           /\ EndedAs(a, [a EXCEPT !.terminal = TRUE], a.stop, a.failed, TRUE)
           /\ EndedAs(a, [a EXCEPT !.failed = TRUE], a.stop, TRUE, a.terminal)
<1>1. ASSUME NEW d, Accumulator(d)
      PROVE  EndedAs(d, [d EXCEPT !.terminal = TRUE], d.stop, d.failed, TRUE)
  BY <1>1, SetTerminal DEF Accumulator, EndedAs
<1>2. EndedAs(a, [a EXCEPT !.failed = TRUE], a.stop, TRUE, a.terminal)
  BY SetFailed DEF Accumulator, EndedAs
<1> DEFINE d == [a EXCEPT !.stop = stop]
<1>3. EndedAs(a, d, stop, a.failed, a.terminal)
  BY SetStop DEF Accumulator, EndedAs
<1>4. [a EXCEPT !.stop = stop, !.terminal = TRUE] = [d EXCEPT !.terminal = TRUE]
  OBVIOUS
<1> HIDE DEF d
<1>5. EndedAs(d, [d EXCEPT !.terminal = TRUE], d.stop, d.failed, TRUE)
  BY <1>1, <1>3 DEF EndedAs
<1>6. EndedAs(a, [d EXCEPT !.terminal = TRUE], stop, a.failed, TRUE)
  BY <1>3, <1>5, Zenon DEF EndedAs
<1>7. EndedAs(a, [a EXCEPT !.terminal = TRUE], a.stop, a.failed, TRUE)
  BY <1>1
<1> QED BY <1>2, <1>4, <1>6, <1>7

\* no event makes an accumulator anything else, or takes a failure back
LEMMA Accumulates ==
    ASSUME NEW a, Accumulator(a), NEW e \in Events
    PROVE  Accumulator(process_event(a, e)) /\ (a.failed = TRUE => process_event(a, e).failed = TRUE)
<1>1. e.kind \in {"start", "delta", "stop", "message_delta", "message_stop", "error"}
  BY DEF Events
<1>2. ASSUME NEW i, NEW x
      PROVE  Accumulator(Reopen(a, i, x)) /\ Reopen(a, i, x).failed = a.failed
  <2> DEFINE w == [j \in DOMAIN a.open \cup {i} |-> IF j = i THEN x ELSE a.open[j]]
  <2>1. w = [j \in DOMAIN w |-> w[j]]
    OBVIOUS
  <2>2. Reopen(a, i, x) = [a EXCEPT !.open = w]
    BY DEF Reopen
  <2> HIDE DEF w
  <2> QED BY <2>1, <2>2, SetOpen DEF Accumulator
<1>3. CASE e.kind = "start"
  BY <1>3, <1>2 DEF process_event
<1>4. CASE e.kind = "delta"
  BY <1>4, <1>2 DEF process_event
<1>5. CASE e.kind = "stop"
  <2> DEFINE d == Reopen(a, e.index, [Idle EXCEPT !.type = Opened(a, e.index).type])
             p == Placed(a.blocks, e.index, Built(Opened(a, e.index)))
  <2>1. process_event(a, e) = [d EXCEPT !.blocks = p]
    BY <1>5 DEF process_event
  <2>2. Accumulator(d) /\ d.failed = a.failed
    BY <1>2
  <2> HIDE DEF d, p
  <2> QED BY <2>1, <2>2, SetBlocks DEF Accumulator
<1>6. CASE e.kind = "message_delta"
  <2>1. process_event(a, e) = IF e.stop = NoStop THEN a ELSE [a EXCEPT !.stop = e.stop, !.terminal = TRUE]
    BY <1>6 DEF process_event
  <2> DEFINE c == [a EXCEPT !.stop = e.stop, !.terminal = TRUE]
  <2>2. Accumulator(c) /\ c.failed = a.failed
    <3> DEFINE d == [a EXCEPT !.stop = e.stop]
    <3>1. Accumulator(d) /\ d.failed = a.failed /\ c = [d EXCEPT !.terminal = TRUE]
      BY SetStop DEF Accumulator
    <3> HIDE DEF d, c
    <3> QED BY <3>1, SetTerminal DEF Accumulator
  <2> HIDE DEF c
  <2>3. process_event(a, e) = a \/ process_event(a, e) = c
    BY <2>1 DEF c
  <2> QED BY <2>2, <2>3
<1>7. CASE e.kind = "message_stop"
  BY <1>7, EndedIs DEF process_event, EndedAs
<1>8. CASE e.kind = "error"
  BY <1>8, EndedIs DEF process_event, EndedAs
<1> QED BY <1>1, <1>3, <1>4, <1>5, <1>6, <1>7, <1>8

LEMMA FailureStays ==
    ASSUME NEW a, Accumulator(a), NEW s \in Seq(Events), NEW b, Heard(a, s, b)
    PROVE  Accumulator(b) /\ (a.failed = TRUE => b.failed = TRUE)
<1>1. PICK f : f[0] = a /\ f[Len(s)] = b /\ \A n \in 1..Len(s) : f[n] = process_event(f[n - 1], s[n])
  BY DEF Heard
<1> DEFINE Holds(n) == Accumulator(f[n]) /\ (a.failed = TRUE => f[n].failed = TRUE)
           T == {n \in 0..Len(s) : ~Holds(n)}
<1>2. T = {}
  <2> SUFFICES ASSUME T # {} PROVE FALSE
    OBVIOUS
  <2>1. PICK n \in T : \A m \in T : n <= m
    <3> T \subseteq Nat
      OBVIOUS
    <3> HIDE DEF T
    <3> QED BY LeastNat
  <2>2. n # 0
    BY <1>1, <2>1
  <2>3. n \in 1..Len(s) /\ n - 1 \in 0..Len(s) /\ n - 1 \notin T
    BY <2>1, <2>2
  <2>4. Holds(n - 1) /\ s[n] \in Events /\ f[n] = process_event(f[n - 1], s[n])
    BY <2>3, <1>1
  <2>5. Holds(n)
    BY <2>4, Accumulates
  <2> QED BY <2>5, <2>1
<1>3. Len(s) \in 0..Len(s)
  OBVIOUS
<1>4. Holds(Len(s))
  BY <1>2, <1>3
<1> QED BY <1>1, <1>4

\* what the ending events change
LEMMA ReasonOf ==
    ASSUME NEW a, Accumulator(a), NEW stop \in Stops, NEW c, c = process_event(a, MessageDelta(stop))
    PROVE  EndedAs(a, c, stop, a.failed, TRUE)
<1> DEFINE d == [a EXCEPT !.stop = stop, !.terminal = TRUE]
<1>1. c = d
  BY EndingsOf
<1>2. EndedAs(a, d, stop, a.failed, TRUE)
  BY EndedIs
<1> HIDE DEF d
<1> QED BY <1>1, <1>2

LEMMA MessageStopOf ==
    ASSUME NEW a, Accumulator(a), NEW c, c = process_event(a, MessageStop)
    PROVE  EndedAs(a, c, a.stop, a.failed, TRUE)
<1> DEFINE d == [a EXCEPT !.terminal = TRUE]
<1>1. c = d
  BY EndingsOf
<1>2. EndedAs(a, d, a.stop, a.failed, TRUE)
  BY EndedIs
<1> HIDE DEF d
<1> QED BY <1>1, <1>2

LEMMA ErrorOf ==
    ASSUME NEW a, Accumulator(a), NEW c, c = process_event(a, Error)
    PROVE  EndedAs(a, c, a.stop, TRUE, a.terminal)
<1> DEFINE d == [a EXCEPT !.failed = TRUE]
<1>1. c = d
  BY EndingsOf
<1>2. EndedAs(a, d, a.stop, TRUE, a.terminal)
  BY EndedIs
<1> HIDE DEF d
<1> QED BY <1>1, <1>2

\* the fragments of a block reach it in order
Fragments(i, q, m) == [k \in 1..m |-> Delta(i, q[k])]

LEMMA FragmentsHeard ==
    ASSUME NEW a, Accumulator(a), NEW i \in Nat, NEW q \in Seq(AnyPiece), NEW t, NEW id, NEW n,
           i \in DOMAIN a.open, a.open[i] = [type |-> t, id |-> id, named |-> n, body |-> <<>>]
    PROVE  \E c : /\ Heard(a, Fragments(i, q, Len(q)), c) /\ Accumulator(c)
                  /\ c.blocks = a.blocks /\ c.stop = a.stop /\ c.failed = a.failed /\ c.terminal = a.terminal
                  /\ DOMAIN c.open = DOMAIN a.open
                  /\ c.open[i] = [type |-> t, id |-> id, named |-> n, body |-> q]
                  /\ \A j \in DOMAIN a.open \ {i} : c.open[j] = a.open[j]
<1> DEFINE Fits(c, m) ==
             /\ Accumulator(c)
             /\ c.blocks = a.blocks /\ c.stop = a.stop /\ c.failed = a.failed /\ c.terminal = a.terminal
             /\ DOMAIN c.open = DOMAIN a.open
             /\ c.open[i] = [type |-> t, id |-> id, named |-> n, body |-> SubSeq(q, 1, m)]
             /\ \A j \in DOMAIN a.open \ {i} : c.open[j] = a.open[j]
           Holds(m) == \E c : Heard(a, Fragments(i, q, m), c) /\ Fits(c, m)
           T == {m \in 0..Len(q) : ~Holds(m)}
<1>1. Holds(0)
  <2>1. Fragments(i, q, 0) = <<>> /\ SubSeq(q, 1, 0) = <<>>
    BY DEF Fragments
  <2>2. Heard(a, <<>>, a)
    BY HeardNothing
  <2>3. Fits(a, 0)
    BY <2>1
  <2> HIDE DEF Fits
  <2> QED BY <2>1, <2>2, <2>3
<1>2. ASSUME NEW m \in 1..Len(q), Holds(m - 1) PROVE Holds(m)
  <2>1. PICK b : Heard(a, Fragments(i, q, m - 1), b) /\ Fits(b, m - 1)
    BY <1>2
  <2> DEFINE e == Delta(i, q[m])
             c == process_event(b, e)
  <2>2. q[m] \in AnyPiece /\ m - 1 \in Nat
    OBVIOUS
  <2>3. \A k \in 1..Len(q) : Delta(i, q[k]) \in Events
    BY EventTypes
  <2>4. Fragments(i, q, m - 1) \in Seq(Events) /\ Fragments(i, q, m) = Fragments(i, q, m - 1) \o <<e>> /\ <<e>> \in Seq(Events)
    <3> DEFINE d(k) == Delta(i, q[k])
    <3>1. \A k \in 1..Len(q) : d(k) \in Events
      BY <2>3
    <3>2. Fragments(i, q, m - 1) = [k \in 1..(m - 1) |-> d(k)] /\ Fragments(i, q, m) = [k \in 1..m |-> d(k)] /\ e = d(m)
      BY DEF Fragments
    <3> HIDE DEF d, e
    <3>3. \A k \in 1..(m - 1) : d(k) \in Events
      BY <3>1
    <3>4. Fragments(i, q, m - 1) \in Seq(Events)
      BY <3>2, <3>3
    <3>5. e \in Events
      BY <3>1, <3>2
    <3>6. Fragments(i, q, m) = Fragments(i, q, m - 1) \o <<e>>
      BY <3>2, SMTT(30)
    <3> QED BY <3>4, <3>5, <3>6
  <2>5. Heard(b, <<e>>, c)
    BY HeardOne
  <2>6. Heard(a, Fragments(i, q, m), c)
    <3> HIDE DEF e, c, Fits
    <3> QED BY <2>1, <2>4, <2>5, HeardMore
  <2>7. Opened(b, i) = [type |-> t, id |-> id, named |-> n, body |-> SubSeq(q, 1, m - 1)]
    BY <2>1 DEF Opened
  <2>8. Append(SubSeq(q, 1, m - 1), q[m]) = SubSeq(q, 1, m)
    OBVIOUS
  <2>9. Fits(c, m)
    <3> HIDE DEF c
    <3>1. c = process_event(b, Delta(i, q[m]))
      BY DEF c
    <3>2. /\ Accumulator(c)
          /\ c.blocks = b.blocks /\ c.stop = b.stop /\ c.failed = b.failed /\ c.terminal = b.terminal
          /\ DOMAIN c.open = DOMAIN b.open \cup {i}
          /\ c.open[i] = [type |-> t, id |-> id, named |-> n, body |-> SubSeq(q, 1, m)]
          /\ \A j \in DOMAIN b.open \ {i} : c.open[j] = b.open[j]
      <4>1. Accumulator(b)
        BY <2>1
      <4> DEFINE x == SubSeq(q, 1, m - 1)
      <4>2. Opened(b, i) = [type |-> t, id |-> id, named |-> n, body |-> x]
        BY <2>7
      <4> HIDE DEF x
      <4>3. /\ Accumulator(c)
            /\ c.blocks = b.blocks /\ c.stop = b.stop /\ c.failed = b.failed /\ c.terminal = b.terminal
            /\ DOMAIN c.open = DOMAIN b.open \cup {i}
            /\ c.open[i] = [type |-> t, id |-> id, named |-> n, body |-> Append(x, q[m])]
            /\ \A j \in DOMAIN b.open \ {i} : c.open[j] = b.open[j]
        BY <3>1, <4>1, <4>2, DeltaOf
      <4> QED BY <4>3, <2>8 DEF x
    <3> QED BY <2>1, <3>2
  <2> HIDE DEF Fits, c, e
  <2> QED BY <2>6, <2>9
<1>3. T = {}
  <2> HIDE DEF Holds
  <2> SUFFICES ASSUME T # {} PROVE FALSE
    OBVIOUS
  <2>1. PICK m \in T : \A k \in T : m <= k
    <3> T \subseteq Nat
      OBVIOUS
    <3> HIDE DEF T
    <3> QED BY LeastNat
  <2>2. m # 0
    BY <1>1, <2>1
  <2>3. m \in 1..Len(q) /\ m - 1 \in 0..Len(q) /\ m - 1 \notin T
    BY <2>1, <2>2
  <2> QED BY <2>1, <2>3, <1>2
<1>4. Holds(Len(q))
  <2> HIDE DEF Holds
  <2>1. Len(q) \in 0..Len(q)
    OBVIOUS
  <2> QED BY <1>3, <2>1
<1>5. SubSeq(q, 1, Len(q)) = q
  OBVIOUS
<1> QED BY <1>4, <1>5

\* a block is heard: it is started, filled and stopped
BlockOf(i, t, id, n, q) ==
    << BlockStart(i, t, id, n) >> \o Fragments(i, q, Len(q)) \o << BlockStop(i) >>

\* c is a with block x in place i, which is no longer in progress
Extended(a, c, i, x) ==
    /\ Accumulator(c) /\ c.blocks = Placed(a.blocks, i, x)
    /\ c.stop = a.stop /\ c.failed = a.failed /\ c.terminal = a.terminal
    /\ DOMAIN c.open = DOMAIN a.open \cup {i}
    /\ \A j \in DOMAIN a.open : c.open[j] = a.open[j]

LEMMA BlockHeard ==
    ASSUME NEW a, Accumulator(a), NEW i \in Nat, i \notin DOMAIN a.open, NEW q \in Seq(AnyPiece),
           NEW t \in Types, NEW id \in Calls \cup {NoId}, NEW n \in BOOLEAN
    PROVE  /\ BlockOf(i, t, id, n, q) \in Seq(Events)
           /\ \E c : /\ Heard(a, BlockOf(i, t, id, n, q), c)
                     /\ Extended(a, c, i, Built([type |-> t, id |-> id, named |-> n, body |-> q]))
<1> DEFINE e == BlockStart(i, t, id, n)
           s == BlockStop(i)
           fs == Fragments(i, q, Len(q))
           x == process_event(a, e)
<1>1. <<e>> \in Seq(Events) /\ <<s>> \in Seq(Events)
  <2>1. e \in Events /\ s \in Events
    BY EventTypes
  <2> HIDE DEF e, s
  <2> QED BY <2>1
<1>2. fs \in Seq(Events)
  <2> DEFINE d(k) == Delta(i, q[k])
  <2>1. \A k \in 1..Len(q) : q[k] \in AnyPiece
    OBVIOUS
  <2>2. \A k \in 1..Len(q) : d(k) \in Events
    BY <2>1, EventTypes
  <2>3. fs = [k \in 1..Len(q) |-> d(k)]
    BY DEF Fragments
  <2> HIDE DEF d, fs
  <2> QED BY <2>2, <2>3
<1>3. Heard(a, <<e>>, x)
  BY HeardOne
<1> HIDE DEF x
<1>4. /\ Accumulator(x) /\ x.blocks = a.blocks /\ x.stop = a.stop /\ x.failed = a.failed
      /\ x.terminal = a.terminal /\ DOMAIN x.open = DOMAIN a.open \cup {i}
      /\ x.open[i] = [type |-> t, id |-> IF id = NoId THEN Opened(a, i).id ELSE id,
                      named |-> n \/ Opened(a, i).named, body |-> Opened(a, i).body]
      /\ \A j \in DOMAIN a.open \ {i} : x.open[j] = a.open[j]
  <2>1. x = process_event(a, BlockStart(i, t, id, n))
    BY DEF x
  <2>2. StartedAs(a, i, t, id, n, x)
    BY <2>1, StartOf
  <2> QED BY <2>2, Zenon DEF StartedAs
<1>5. Opened(a, i).id = NoId /\ Opened(a, i).named = FALSE /\ Opened(a, i).body = <<>>
  BY DEF Opened, Idle
<1>6. x.open[i] = [type |-> t, id |-> id, named |-> n, body |-> <<>>]
  <2>1. (n \/ Opened(a, i).named) = n
    BY <1>5
  <2>2. (IF id = NoId THEN Opened(a, i).id ELSE id) = id
    BY <1>5
  <2> QED BY <1>4, <1>5, <2>1, <2>2, Zenon
<1> HIDE DEF e
<1>7. PICK y : /\ Heard(x, fs, y) /\ Accumulator(y)
               /\ y.blocks = x.blocks /\ y.stop = x.stop /\ y.failed = x.failed /\ y.terminal = x.terminal
               /\ DOMAIN y.open = DOMAIN x.open
               /\ y.open[i] = [type |-> t, id |-> id, named |-> n, body |-> q]
               /\ \A j \in DOMAIN x.open \ {i} : y.open[j] = x.open[j]
  <2>1. i \in DOMAIN x.open
    BY <1>4
  <2> QED BY <1>4, <1>6, <2>1, FragmentsHeard DEF fs
<1> DEFINE c == process_event(y, s)
<1>8. Heard(y, <<s>>, c)
  BY HeardOne
<1> HIDE DEF c
<1>9. /\ Accumulator(c)
      /\ c.blocks = Placed(y.blocks, i, Built(Opened(y, i)))
      /\ c.stop = y.stop /\ c.failed = y.failed /\ c.terminal = y.terminal
      /\ DOMAIN c.open = DOMAIN y.open \cup {i}
      /\ \A j \in DOMAIN y.open \ {i} : c.open[j] = y.open[j]
  <2>1. c = process_event(y, BlockStop(i))
    BY DEF c
  <2> QED BY <2>1, <1>7, StopOf
<1>10. Opened(y, i) = [type |-> t, id |-> id, named |-> n, body |-> q]
  BY <1>4, <1>7 DEF Opened
<1> HIDE DEF s, fs
<1>11. BlockOf(i, t, id, n, q) = <<e>> \o fs \o <<s>>
  BY DEF BlockOf, e, fs, s
<1>12. Heard(a, <<e>> \o fs, y) /\ <<e>> \o fs \in Seq(Events)
  <2>1. <<e>> \o fs \in Seq(Events)
    BY <1>1, <1>2
  <2>2. Heard(a, <<e>> \o fs, y)
    BY <1>1, <1>2, <1>3, <1>7, HeardMore
  <2> QED BY <2>1, <2>2
<1>13. Heard(a, <<e>> \o fs \o <<s>>, c) /\ <<e>> \o fs \o <<s>> \in Seq(Events)
  <2> DEFINE es == <<e>> \o fs
  <2>1. es \in Seq(Events) /\ Heard(a, es, y)
    BY <1>12
  <2> HIDE DEF es
  <2>2. Heard(a, es \o <<s>>, c)
    BY <1>1, <1>8, <2>1, HeardMore
  <2>3. es \o <<s>> \in Seq(Events)
    BY <1>1, <2>1
  <2> QED BY <2>2, <2>3 DEF es
<1>14. c.blocks = Placed(a.blocks, i, Built([type |-> t, id |-> id, named |-> n, body |-> q]))
  BY <1>4, <1>7, <1>9, <1>10
<1>15. DOMAIN c.open = DOMAIN a.open \cup {i} /\ \A j \in DOMAIN a.open : c.open[j] = a.open[j]
  BY <1>4, <1>7, <1>9
<1>16. Accumulator(c) /\ c.stop = a.stop /\ c.failed = a.failed /\ c.terminal = a.terminal
  BY <1>4, <1>7, <1>9
<1>17. Extended(a, c, i, Built([type |-> t, id |-> id, named |-> n, body |-> q]))
  BY <1>14, <1>15, <1>16 DEF Extended
<1> QED BY <1>11, <1>13, <1>17

(***************************************************************************)
(* The calls an OpenAI-compatible reader puts together: the order in which *)
(* they are emitted goes through all that can be routed, and what is heard *)
(* of them is a block for each.                                            *)
(***************************************************************************)
\* sets of natural numbers can be enumerated in order
LEMMA Ascending ==
    ASSUME NEW n \in Nat, NEW S \in SUBSET {k \in Nat : k < n}
    PROVE  \E q \in [1..Cardinality(S) -> S] : \A j, k \in DOMAIN q : j < k => q[j] < q[k]
<1> DEFINE Holds(m) == \A R \in SUBSET {k \in Nat : k < m} :
                         \E q \in [1..Cardinality(R) -> R] : \A j, k \in DOMAIN q : j < k => q[j] < q[k]
           T == {m \in Nat : ~Holds(m)}
<1>1. Holds(0)
  <2> TAKE R \in SUBSET {k \in Nat : k < 0}
  <2>1. R = {}
    OBVIOUS
  <2>2. Cardinality(R) = 0
    BY <2>1, FS_EmptySet
  <2> DEFINE q == [k \in 1..0 |-> 0]
  <2>3. q \in [1..Cardinality(R) -> R] /\ DOMAIN q = {}
    BY <2>1, <2>2
  <2> QED BY <2>3
<1>2. ASSUME NEW m \in Nat, m > 0, Holds(m - 1) PROVE Holds(m)
  <2> TAKE R \in SUBSET {k \in Nat : k < m}
  <2>1. CASE m - 1 \notin R
    <3>1. R \in SUBSET {k \in Nat : k < m - 1}
      BY <2>1
    <3> QED BY <3>1, <1>2
  <2>2. CASE m - 1 \in R
    <3> DEFINE Q == R \ {m - 1}
    <3>1. Q \in SUBSET {k \in Nat : k < m - 1} /\ R = Q \cup {m - 1} /\ m - 1 \notin Q
      BY <2>2
    <3>2. PICK q \in [1..Cardinality(Q) -> Q] : \A j, k \in DOMAIN q : j < k => q[j] < q[k]
      BY <3>1, <1>2
    <3>3. IsFiniteSet(Q)
      <4>1. Q \in SUBSET Nat /\ \A s \in Q : s <= m
        BY <3>1
      <4> HIDE DEF Q
      <4> QED BY <4>1, FS_BoundedSetOfNaturals
    <3> HIDE DEF Q
    <3>4. Cardinality(Q) \in Nat /\ Cardinality(R) = Cardinality(Q) + 1
      BY <3>1, <3>3, FS_CardinalityType, FS_AddElement
    <3> DEFINE c == Cardinality(Q)
               p == [k \in 1..(c + 1) |-> IF k <= c THEN q[k] ELSE m - 1]
    <3>5. \A k \in 1..c : q[k] \in Q /\ q[k] \in Nat /\ q[k] < m - 1
      BY <3>1, <3>2
    <3>6. p \in [1..Cardinality(R) -> R]
      BY <3>1, <3>4, <3>5
    <3>7. ASSUME NEW j \in 1..(c + 1), NEW k \in 1..(c + 1), j < k PROVE p[j] < p[k]
      <4>1. j <= c /\ p[j] = q[j] /\ j \in 1..c
        BY <3>4, <3>7
      <4>2. CASE k <= c
        <5>1. k \in 1..c /\ p[k] = q[k]
          BY <4>2, <3>4
        <5>2. DOMAIN q = 1..c
          BY <3>2
        <5> QED BY <5>1, <5>2, <4>1, <3>7, <3>2
      <4>3. CASE ~(k <= c)
        BY <4>1, <4>3, <3>5
      <4> QED BY <4>2, <4>3
    <3>8. DOMAIN p = 1..(c + 1)
      OBVIOUS
    <3> HIDE DEF p, c
    <3> QED BY <3>6, <3>7, <3>8
  <2> QED BY <2>1, <2>2
<1>3. T = {}
  <2> HIDE DEF Holds
  <2> SUFFICES ASSUME T # {} PROVE FALSE
    OBVIOUS
  <2>1. PICK m \in T : \A k \in T : m <= k
    <3> T \subseteq Nat
      OBVIOUS
    <3> HIDE DEF T
    <3> QED BY LeastNat
  <2>2. m # 0
    BY <1>1, <2>1
  <2>3. m \in Nat /\ m > 0 /\ m - 1 \in Nat /\ m - 1 \notin T
    BY <2>1, <2>2
  <2> QED BY <2>1, <2>3, <1>2
<1>4. Holds(n)
  <2> HIDE DEF Holds
  <2> QED BY <1>3
<1> QED BY <1>4

\* which makes Emitted such an enumeration of the calls that can be routed
LEMMA EmittedIs ==
    ASSUME NEW n \in Nat, DOMAIN slots \subseteq {k \in Nat : k < n}
    PROVE  /\ Emitted \in Seq(Nat) /\ Routed \subseteq Nat
           /\ \A k \in 1..Len(Emitted) : Emitted[k] \in Routed
           /\ \A j, k \in 1..Len(Emitted) : Emitted[j] = Emitted[k] => j = k
           /\ \A s \in Routed : \E k \in 1..Len(Emitted) : Emitted[k] = s
           /\ Emitted = <<>> <=> Routed = {}
<1> DEFINE c == Cardinality(Routed)
           P(q) == \A j, k \in DOMAIN q : j < k => q[j] < q[k]
<1>1. Routed \in SUBSET {k \in Nat : k < n}
  BY DEF Routed
<1>2. IsFiniteSet(Routed) /\ c \in Nat
  <2>1. Routed \in SUBSET Nat /\ \A s \in Routed : s <= n
    BY <1>1
  <2>2. IsFiniteSet(Routed)
    BY <2>1, FS_BoundedSetOfNaturals
  <2> QED BY <2>2, FS_CardinalityType
<1>3. \E q \in [1..c -> Routed] : P(q)
  BY <1>1, Ascending
<1>4. Emitted = CHOOSE q \in [1..c -> Routed] : P(q)
  BY DEF Emitted, Routed
<1>5. Emitted \in [1..c -> Routed] /\ P(Emitted)
  <2> HIDE DEF c, P
  <2> QED BY <1>3, <1>4, Zenon
<1>6. DOMAIN Emitted = 1..c /\ Len(Emitted) = c /\ Emitted \in Seq(Nat)
  <2>1. Emitted \in [1..c -> Nat]
    BY <1>1, <1>5
  <2> HIDE DEF c
  <2> QED BY <2>1, <1>2
<1>7. ASSUME NEW j \in 1..c, NEW k \in 1..c, Emitted[j] = Emitted[k] PROVE j = k
  <2>1. Emitted[j] \in Nat /\ Emitted[k] \in Nat
    BY <1>1, <1>5
  <2>2. ~(j < k) /\ ~(k < j)
    BY <1>5, <1>6, <1>7, <2>1
  <2> QED BY <2>2
<1>8. Emitted \in Surjection(1..c, Routed)
  <2>1. Emitted \in Injection(1..c, Routed)
    BY <1>5, <1>7 DEF Injection, IsInjective
  <2>2. Cardinality(1..c) = c
    BY <1>2, FS_Interval
  <2> QED BY <2>1, <2>2, <1>2, FS_Injection
<1>9. \A s \in Routed : \E k \in 1..c : Emitted[k] = s
  BY <1>8 DEF Surjection
<1>10. Emitted = <<>> <=> Routed = {}
  BY <1>5, <1>6, <1>9
<1> HIDE DEF c
<1> QED BY <1>1, <1>5, <1>6, <1>7, <1>9, <1>10

\* the flattening of a sequence of sequences is built one at a time
LEMMA Flattened ==
    ASSUME NEW S, NEW seqs \in Seq(Seq(S)), Len(seqs) > 0
    PROVE  \E f : /\ f[1] = seqs[1] /\ f[Len(seqs)] = FlattenSeq(seqs)
                  /\ \A i \in 2..Len(seqs) : f[i] = f[i - 1] \o seqs[i]
<1> DEFINE F(f, n) == f = [i \in 1..n |-> IF i = 1 THEN seqs[i] ELSE f[i - 1] \o seqs[i]]
           Grows(n) == \E f : F(f, n)
           T == {n \in 1..Len(seqs) : ~Grows(n)}
<1>0. Len(seqs) \in Nat
  OBVIOUS
<1>1. T = {}
  <2> SUFFICES ASSUME T # {} PROVE FALSE
    OBVIOUS
  <2>1. PICK n \in T : \A k \in T : n <= k
    <3> HIDE DEF Grows
    <3> T \subseteq Nat
      BY <1>0
    <3> HIDE DEF T
    <3> QED BY LeastNat
  <2>2. CASE n = 1
    <3> DEFINE g == [i \in 1..1 |-> seqs[i]]
    <3>1. F(g, 1)
      OBVIOUS
    <3> HIDE DEF F
    <3> QED BY <3>1, <2>1, <2>2
  <2>3. CASE n # 1
    <3>1. n - 1 \in 1..Len(seqs) /\ n - 1 \notin T
      <4> HIDE DEF Grows
      <4> QED BY <1>0, <2>1, <2>3
    <3>2. PICK f : F(f, n - 1)
      BY <3>1
    <3> DEFINE g == [i \in 1..n |-> IF i < n THEN f[i] ELSE f[n - 1] \o seqs[n]]
    <3>3. ASSUME NEW i \in 1..n PROVE g[i] = IF i = 1 THEN seqs[i] ELSE g[i - 1] \o seqs[i]
      <4>1. CASE i < n
        <5>1. i \in 1..(n - 1) /\ g[i] = f[i]
          BY <4>1, <2>1
        <5>2. f[i] = IF i = 1 THEN seqs[i] ELSE f[i - 1] \o seqs[i]
          BY <5>1, <3>2
        <5>3. i # 1 => g[i - 1] = f[i - 1]
          BY <4>1, <2>1
        <5> QED BY <5>1, <5>2, <5>3
      <4>2. CASE i = n
        <5>1. g[i - 1] = f[n - 1] /\ g[i] = f[n - 1] \o seqs[n]
          <6>1. n \in Nat /\ n - 1 \in 1..n /\ n - 1 < n /\ ~(n < n)
            BY <1>0, <3>1
          <6> QED BY <6>1, <4>2
        <5> QED BY <5>1, <4>2, <2>3
      <4> QED BY <4>1, <4>2
    <3>4. g = [i \in 1..n |-> g[i]]
      OBVIOUS
    <3> HIDE DEF g
    <3>5. F(g, n)
      BY <3>3, <3>4
    <3> HIDE DEF F
    <3> QED BY <3>5, <2>1
  <2> QED BY <2>2, <2>3
<1>2. \E f : F(f, Len(seqs))
  <2>1. Len(seqs) \in 1..Len(seqs)
    OBVIOUS
  <2> HIDE DEF F
  <2> QED BY <1>1, <2>1
<1> DEFINE f == CHOOSE x : F(x, Len(seqs))
<1>3. F(f, Len(seqs))
  BY <1>2, Zenon
<1>4. FlattenSeq(seqs) = f[Len(seqs)]
  <2>1. Len(seqs) # 0
    BY <1>0
  <2> QED BY <2>1, Zenon DEF FlattenSeq
<1> HIDE DEF f
<1>5. f[1] = seqs[1] /\ \A i \in 2..Len(seqs) : f[i] = f[i - 1] \o seqs[i]
  <2>1. \A i \in 1..Len(seqs) : f[i] = IF i = 1 THEN seqs[i] ELSE f[i - 1] \o seqs[i]
    BY <1>3, Zenon
  <2>2. f[1] = seqs[1]
    BY <1>0, <2>1
  <2>3. ASSUME NEW i \in 2..Len(seqs) PROVE f[i] = f[i - 1] \o seqs[i]
    <3>1. i \in 1..Len(seqs) /\ i # 1
      BY <1>0
    <3> QED BY <3>1, <2>1
  <2> QED BY <2>2, <2>3
<1> QED BY <1>4, <1>5

\* blocks and their places
LEMMA BlockTypes ==
    /\ Text(<<>>) \in Blocks /\ Text(<<>>).type = "text"
    /\ \A q \in Seq(AnyPiece) : Text(q) \in Blocks /\ Text(q).type = "text" /\ Text(q).body = q
    /\ \A id \in Calls \cup {NoId}, n \in BOOLEAN, q \in Seq(AnyPiece) : ToolUse(id, n, q) \in Blocks
<1>1. \A q : Parses(q) \in BOOLEAN
  BY DEF Parses
<1>2. <<>> \in Seq(AnyPiece)
  OBVIOUS
<1>3. \A q \in Seq(AnyPiece) : Text(q) \in Blocks /\ Text(q).type = "text" /\ Text(q).body = q
  BY DEF Text, Blocks, Types
<1>4. ASSUME NEW id \in Calls \cup {NoId}, NEW n \in BOOLEAN, NEW q \in Seq(AnyPiece)
      PROVE  ToolUse(id, n, q) \in Blocks
  <2> DEFINE v == Parses(q)
  <2>1. v \in BOOLEAN
    BY <1>1
  <2> HIDE DEF v
  <2>2. [type |-> "tool_use", id |-> id, named |-> n, valid |-> v, body |-> q] \in Blocks
    BY <2>1 DEF Blocks, Types
  <2> QED BY <2>2 DEF ToolUse, v
<1> QED BY <1>2, <1>3, <1>4

PlacedAt(p, blocks, i, x) ==
    /\ p \in Seq(Blocks) /\ Len(p) = IF Len(blocks) > i THEN Len(blocks) ELSE i + 1
    /\ p[i + 1] = x
    /\ \A j \in 1..Len(p) : j # i + 1 => p[j] = IF j <= Len(blocks) THEN blocks[j] ELSE Text(<<>>)

LEMMA PlacedIs ==
    ASSUME NEW blocks \in Seq(Blocks), NEW i \in Nat, NEW x \in Blocks
    PROVE  PlacedAt(Placed(blocks, i, x), blocks, i, x)
<1> DEFINE p == Placed(blocks, i, x)
           n == IF Len(blocks) > i THEN Len(blocks) ELSE i + 1
           y == Text(<<>>)
<1>1. n \in Nat /\ i + 1 \in 1..n /\ Len(blocks) \in Nat
  OBVIOUS
<1>2. p = [j \in 1..n |-> IF j = i + 1 THEN x ELSE IF j <= Len(blocks) THEN blocks[j] ELSE y]
  BY DEF Placed
<1>3. y \in Blocks
  BY BlockTypes
<1> HIDE DEF n, y, p
<1>4. \A j \in 1..n : p[j] \in Blocks
  BY <1>1, <1>2, <1>3
<1>5. p \in Seq(Blocks) /\ Len(p) = n
  BY <1>1, <1>2, <1>4
<1>6. p[i + 1] = x /\ \A j \in 1..n : j # i + 1 => p[j] = IF j <= Len(blocks) THEN blocks[j] ELSE y
  BY <1>1, <1>2
<1> QED BY <1>5, <1>6 DEF n, y, p, PlacedAt

\* what the slots hold is a call's id, its name and its arguments
SlotTypes ==
    /\ \E n \in Nat : DOMAIN slots \subseteq {k \in Nat : k < n}
    /\ \A s \in DOMAIN slots : /\ slots[s].id \in Calls \cup {NoId} /\ slots[s].named \in BOOLEAN
                               /\ slots[s].args \in Seq(AnyPiece)

\* b is a with the calls of D
Called(a, b, D) ==
    /\ Accumulator(b) /\ b.stop = a.stop /\ b.failed = a.failed /\ b.terminal = a.terminal
    /\ b.blocks \in Seq(Blocks)
    /\ \A s \in D : s + 2 <= Len(b.blocks) /\ b.blocks[s + 2] = CallOf(s)
    /\ \A p \in 1..Len(b.blocks) : p - 2 \in D \/ b.blocks[p].type = "text"
    /\ \A i \in DOMAIN b.open : i = 0 \/ i - 1 \in D
    /\ 0 \in DOMAIN b.open <=> 0 \in DOMAIN a.open
    /\ 0 \in DOMAIN b.open => b.open[0] = a.open[0]

\* what is heard of one call, and of all that can be routed
LEMMA OneCall ==
    ASSUME SlotTypes, NEW a, NEW b, NEW D \in SUBSET Nat, Called(a, b, D), NEW s \in Routed, s \notin D
    PROVE  /\ CallBlock(s) \in Seq(Events)
           /\ \E c : Heard(b, CallBlock(s), c) /\ Called(a, c, D \cup {s})
<1> DEFINE id == slots[s].id
           n == slots[s].named
           q == slots[s].args
<1>1. s \in Nat /\ id \in Calls \cup {NoId} /\ n \in BOOLEAN /\ q \in Seq(AnyPiece)
  BY DEF SlotTypes, Routed
<1>2. CallBlock(s) = BlockOf(s + 1, "tool_use", id, n, q)
  BY DEF CallBlock, BlockOf, Fragments
<1>3. CallOf(s) = ToolUse(id, n, q)
  BY DEF CallOf
<1>4. Built([type |-> "tool_use", id |-> id, named |-> n, body |-> q]) = ToolUse(id, n, q)
  BY DEF Built
<1> HIDE DEF id, n, q
<1> DEFINE i == s + 1
           t == "tool_use"
<1>5. i \in Nat /\ i + 1 = s + 2 /\ i \notin DOMAIN b.open /\ t \in Types /\ Accumulator(b)
  <2>1. \A k \in DOMAIN b.open : k = 0 \/ k - 1 \in D
    BY DEF Called
  <2>2. i # 0 /\ i - 1 = s
    BY <1>1
  <2>3. i \notin DOMAIN b.open
    BY <2>1, <2>2
  <2> QED BY <1>1, <2>3 DEF Called, Types
<1> HIDE DEF i, t
<1>6. /\ BlockOf(i, t, id, n, q) \in Seq(Events)
      /\ \E c : /\ Heard(b, BlockOf(i, t, id, n, q), c)
                /\ Extended(b, c, i, Built([type |-> t, id |-> id, named |-> n, body |-> q]))
  BY <1>1, <1>5, BlockHeard
<1>7. PICK c : Heard(b, BlockOf(i, t, id, n, q), c) /\ Extended(b, c, i, CallOf(s))
  BY <1>3, <1>4, <1>6 DEF t
<1> DEFINE x == CallOf(s)
           p == c.blocks
<1>8. x \in Blocks /\ b.blocks \in Seq(Blocks)
  BY <1>1, <1>3, BlockTypes DEF Called
<1>9. p = Placed(b.blocks, i, x)
  BY <1>7 DEF Extended
<1> HIDE DEF x, p
<1>10. /\ p \in Seq(Blocks) /\ Len(p) = IF Len(b.blocks) > i THEN Len(b.blocks) ELSE i + 1
       /\ p[i + 1] = x
       /\ \A j \in 1..Len(p) : j # i + 1 => p[j] = IF j <= Len(b.blocks) THEN b.blocks[j] ELSE Text(<<>>)
  <2>1. PlacedAt(p, b.blocks, i, x)
    BY <1>5, <1>8, <1>9, PlacedIs
  <2> QED BY <2>1 DEF PlacedAt
<1>11. i = s + 1 /\ Len(b.blocks) \in Nat /\ Text(<<>>).type = "text"
  BY <1>1, <1>8, BlockTypes DEF i
<1>12. \A r \in D \cup {s} : r + 2 <= Len(p) /\ p[r + 2] = CallOf(r)
  <2> TAKE r \in D \cup {s}
  <2>1. CASE r = s
    BY <2>1, <1>1, <1>5, <1>10, <1>11 DEF x
  <2>2. CASE r # s
    <3>1. r \in D /\ r \in Nat /\ r + 2 <= Len(b.blocks) /\ b.blocks[r + 2] = CallOf(r)
      BY <2>2 DEF Called
    <3>2. r + 2 # s + 2 /\ r + 2 \in 1..Len(p)
      BY <3>1, <2>2, <1>1, <1>5, <1>10, <1>11
    <3> QED BY <3>1, <3>2, <1>5, <1>10, <1>11
  <2> QED BY <2>1, <2>2
<1>13. \A r \in 1..Len(p) : r - 2 \in D \cup {s} \/ p[r].type = "text"
  <2> TAKE r \in 1..Len(p)
  <2>1. CASE r = s + 2
    BY <2>1, <1>1
  <2>2. CASE r # s + 2 /\ r <= Len(b.blocks)
    <3>1. p[r] = b.blocks[r] /\ r \in 1..Len(b.blocks)
      BY <2>2, <1>5, <1>10, <1>11
    <3> QED BY <3>1 DEF Called
  <2>3. CASE r # s + 2 /\ ~(r <= Len(b.blocks))
    BY <2>3, <1>5, <1>10, <1>11
  <2> QED BY <2>1, <2>2, <2>3
<1>14. \A k \in DOMAIN c.open : k = 0 \/ k - 1 \in D \cup {s}
  BY <1>1, <1>7, <1>11 DEF Called, Extended
<1>15. (0 \in DOMAIN c.open <=> 0 \in DOMAIN a.open) /\ (0 \in DOMAIN c.open => c.open[0] = a.open[0])
  BY <1>1, <1>7, <1>11 DEF Called, Extended
<1>16. Called(a, c, D \cup {s})
  <2>1. c.stop = a.stop /\ c.failed = a.failed /\ c.terminal = a.terminal
    BY <1>7 DEF Called, Extended
  <2> QED BY <2>1, <1>7, <1>10, <1>12, <1>13, <1>14, <1>15 DEF Called, Extended, p
<1> QED BY <1>2, <1>6, <1>7, <1>16 DEF i, t

LEMMA CallsHeard ==
    ASSUME SlotTypes, NEW a, Accumulator(a), Called(a, a, {})
    PROVE  LET es == FlattenSeq([k \in 1..Len(Emitted) |-> CallBlock(Emitted[k])]) IN
           es \in Seq(Events) /\ \E c : Heard(a, es, c) /\ Called(a, c, Routed)
<1> DEFINE m == Len(Emitted)
           seqs == [k \in 1..m |-> CallBlock(Emitted[k])]
           es == FlattenSeq(seqs)
           D(i) == {Emitted[k] : k \in 1..i}
<1> SUFFICES es \in Seq(Events) /\ \E c : Heard(a, es, c) /\ Called(a, c, Routed)
  OBVIOUS
<1>1. /\ Emitted \in Seq(Nat) /\ Routed \subseteq Nat
      /\ \A k \in 1..m : Emitted[k] \in Routed
      /\ \A j, k \in 1..m : Emitted[j] = Emitted[k] => j = k
      /\ \A s \in Routed : \E k \in 1..m : Emitted[k] = s
      /\ Emitted = <<>> <=> Routed = {}
  BY EmittedIs DEF SlotTypes
<1>2. m \in Nat
  BY <1>1
<1>3. CASE m = 0
  <2>1. seqs = <<>> /\ Emitted = <<>> /\ Routed = {}
    BY <1>1, <1>3
  <2>2. es = <<>>
    BY <2>1 DEF FlattenSeq
  <2>3. Heard(a, <<>>, a)
    BY HeardNothing
  <2> HIDE DEF es
  <2> QED BY <2>1, <2>2, <2>3
<1>4. CASE m > 0
  <2>1. \A s \in Routed : CallBlock(s) \in Seq(Events)
    <3> TAKE s \in Routed
    <3>1. s \notin {} /\ {} \in SUBSET Nat
      OBVIOUS
    <3> QED BY <3>1, OneCall
  <2>2. seqs \in Seq(Seq(Events)) /\ Len(seqs) = m
    <3> DEFINE d(k) == CallBlock(Emitted[k])
    <3>1. \A k \in 1..m : d(k) \in Seq(Events)
      BY <1>1, <2>1
    <3> HIDE DEF d, m
    <3>2. [k \in 1..m |-> d(k)] \in Seq(Seq(Events)) /\ Len([k \in 1..m |-> d(k)]) = m
      BY <3>1, <1>2
    <3> QED BY <3>2 DEF d
  <2>3. \A k \in 1..m : seqs[k] = CallBlock(Emitted[k])
    OBVIOUS
  <2> HIDE DEF seqs, m
  <2>4. PICK f : /\ f[1] = seqs[1] /\ f[m] = es
                 /\ \A i \in 2..m : f[i] = f[i - 1] \o seqs[i]
    BY <2>2, <1>4, Flattened
  <2> DEFINE Holds(i) == f[i] \in Seq(Events) /\ \E c : Heard(a, f[i], c) /\ Called(a, c, D(i))
  <2>5. ASSUME NEW i \in 1..m, NEW b, NEW g, g \in Seq(Events), Heard(a, g, b), Called(a, b, D(i - 1)), f[i] = g \o seqs[i]
        PROVE  Holds(i)
    <3>1. D(i - 1) \in SUBSET Nat /\ Emitted[i] \in Routed /\ D(i) = D(i - 1) \cup {Emitted[i]}
      BY <1>1, <1>2 DEF m
    <3>2. Emitted[i] \notin D(i - 1)
      BY <1>1, <1>2 DEF m
    <3>3. seqs[i] \in Seq(Events) /\ \E c : Heard(b, seqs[i], c) /\ Called(a, c, D(i - 1) \cup {Emitted[i]})
      <4> DEFINE s == Emitted[i]
                 C == D(i - 1)
      <4>1. Called(a, b, C) /\ s \in Routed /\ s \notin C /\ C \in SUBSET Nat /\ seqs[i] = CallBlock(s)
        BY <2>3, <2>5, <3>1, <3>2
      <4> HIDE DEF D, C, s
      <4>2. CallBlock(s) \in Seq(Events) /\ \E c : Heard(b, CallBlock(s), c) /\ Called(a, c, C \cup {s})
        BY <4>1, OneCall
      <4> QED BY <4>1, <4>2 DEF C, s
    <3> HIDE DEF D
    <3>4. PICK c : Heard(b, seqs[i], c) /\ Called(a, c, D(i))
      BY <3>1, <3>3
    <3>5. Heard(a, g \o seqs[i], c) /\ g \o seqs[i] \in Seq(Events)
      <4>1. g \o seqs[i] \in Seq(Events)
        BY <2>5, <3>3
      <4>2. Heard(a, g \o seqs[i], c)
        BY <2>5, <3>3, <3>4, HeardMore
      <4> QED BY <4>1, <4>2
    <3> QED BY <2>5, <3>4, <3>5
  <2>6. Holds(1)
    <3>1. Heard(a, <<>>, a) /\ <<>> \in Seq(Events)
      BY HeardNothing
    <3>2. 1 \in 1..m /\ D(1 - 1) = {}
      BY <1>2, <1>4
    <3>3. seqs[1] \in Seq(Events)
      BY <2>2, <1>2, <1>4
    <3>4. f[1] = <<>> \o seqs[1]
      BY <3>3, <2>4
    <3> HIDE DEF D, Holds
    <3> QED BY <3>1, <3>2, <3>4, <2>5
  <2>7. ASSUME NEW i \in 2..m, Holds(i - 1) PROVE Holds(i)
    <3>1. i \in 1..m
      BY <1>2
    <3>2. PICK b : Heard(a, f[i - 1], b) /\ Called(a, b, D(i - 1))
      BY <2>7
    <3>3. f[i] = f[i - 1] \o seqs[i] /\ f[i - 1] \in Seq(Events)
      BY <2>4, <2>7
    <3> DEFINE g == f[i - 1]
    <3> HIDE DEF D, Holds
    <3> QED BY <2>5, <3>1, <3>2, <3>3
  <2> DEFINE T == {i \in 1..m : ~Holds(i)}
  <2>8. T = {}
    <3> HIDE DEF Holds
    <3> SUFFICES ASSUME T # {} PROVE FALSE
      OBVIOUS
    <3>1. PICK i \in T : \A k \in T : i <= k
      <4> T \subseteq Nat
        BY <1>2
      <4> HIDE DEF T
      <4> QED BY LeastNat
    <3>2. i # 1
      BY <2>6, <3>1
    <3>3. i \in 2..m /\ i - 1 \in 1..m /\ i - 1 \notin T
      BY <1>2, <3>1, <3>2
    <3> QED BY <3>1, <3>3, <2>7
  <2>9. Holds(m)
    <3> HIDE DEF Holds
    <3>1. m \in 1..m
      BY <1>2, <1>4
    <3> QED BY <2>8, <3>1
  <2>10. D(m) = Routed
    <3>1. \A k \in 1..m : Emitted[k] \in Routed
      BY <1>1 DEF m
    <3>2. \A s \in Routed : \E k \in 1..m : Emitted[k] = s
      BY <1>1 DEF m
    <3> QED BY <3>1, <3>2
  <2> HIDE DEF D
  <2> QED BY <2>4, <2>9, <2>10
<1> QED BY <1>2, <1>3, <1>4

\* the end of the message: what could not be routed is noted, and the text ends
TextOpen(b) ==
    \E q \in Seq(AnyPiece) :
        /\ 0 \in DOMAIN b.open /\ b.open[0] = TextBlock(q)
        /\ texted => HasText(q)
        /\ Noted => \E k \in 1..Len(q) : q[k] = Note

\* b has a's blocks and endings, and its open blocks but for the text
SameBlocks(a, b) ==
    /\ Accumulator(b) /\ b.blocks = a.blocks
    /\ b.stop = a.stop /\ b.failed = a.failed /\ b.terminal = a.terminal

LEMMA TextDelta ==
    ASSUME NEW a, Accumulator(a), NEW q \in Seq(AnyPiece), 0 \in DOMAIN a.open, a.open[0] = TextBlock(q),
           NEW p \in AnyPiece, NEW c, c = process_event(a, Delta(0, p))
    PROVE  /\ SameBlocks(a, c) /\ DOMAIN c.open = DOMAIN a.open /\ c.open[0] = TextBlock(Append(q, p))
<1> DEFINE t == "text"
           id == NoId
           n == FALSE
<1>1. Opened(a, 0) = [type |-> t, id |-> id, named |-> n, body |-> q]
  BY DEF Opened, TextBlock
<1>2. TextBlock(Append(q, p)) = [type |-> t, id |-> id, named |-> n, body |-> Append(q, p)]
  BY DEF TextBlock
<1> HIDE DEF t, id, n
<1>3. /\ Accumulator(c)
      /\ c.blocks = a.blocks /\ c.stop = a.stop /\ c.failed = a.failed /\ c.terminal = a.terminal
      /\ DOMAIN c.open = DOMAIN a.open \cup {0}
      /\ c.open[0] = [type |-> t, id |-> id, named |-> n, body |-> Append(q, p)]
  BY <1>1, DeltaOf
<1> QED BY <1>2, <1>3 DEF SameBlocks

LEMMA TextStart ==
    ASSUME NEW a, Accumulator(a), 0 \notin DOMAIN a.open, NEW c, c = process_event(a, BlockStart(0, "text", NoId, FALSE))
    PROVE  /\ SameBlocks(a, c) /\ DOMAIN c.open = DOMAIN a.open \cup {0} /\ c.open[0] = TextBlock(<<>>)
<1> DEFINE t == "text"
           id == NoId
           n == FALSE
           o == Opened(a, 0)
<1>1. o.id = NoId /\ o.named = FALSE /\ o.body = <<>>
  BY DEF Opened, Idle
<1>2. (n \/ o.named) = FALSE /\ (IF id = NoId THEN o.id ELSE id) = NoId
  BY <1>1
<1> HIDE DEF t, id, n
<1>3. c = process_event(a, BlockStart(0, t, id, n))
  BY DEF t, id, n
<1>4. /\ Accumulator(c)
      /\ c.blocks = a.blocks /\ c.stop = a.stop /\ c.failed = a.failed /\ c.terminal = a.terminal
      /\ DOMAIN c.open = DOMAIN a.open \cup {0}
      /\ c.open[0] = [type |-> t, id |-> IF id = NoId THEN o.id ELSE id, named |-> n \/ o.named, body |-> o.body]
  <2>1. StartedAs(a, 0, t, id, n, c)
    BY <1>3, StartOf
  <2> QED BY <2>1, Zenon DEF StartedAs, o
<1>5. c.open[0] = [type |-> "text", id |-> NoId, named |-> FALSE, body |-> <<>>]
  BY <1>1, <1>2, <1>4, Zenon DEF t
<1> QED BY <1>4, <1>5 DEF SameBlocks, TextBlock

\* the text opens when there is none yet
LEMMA OpenTextHeard ==
    ASSUME NEW a, Accumulator(a), texted \in BOOLEAN, texted <=> 0 \in DOMAIN a.open,
           NEW q \in Seq(AnyPiece), texted => a.open[0] = TextBlock(q), ~texted => q = <<>>
    PROVE  /\ OpenText \in Seq(Events)
           /\ \E c : /\ Heard(a, OpenText, c) /\ SameBlocks(a, c)
                     /\ DOMAIN c.open = DOMAIN a.open \cup {0} /\ c.open[0] = TextBlock(q)
<1>1. CASE texted
  <2>1. OpenText = <<>> /\ Heard(a, <<>>, a) /\ <<>> \in Seq(Events)
    BY <1>1, HeardNothing DEF OpenText
  <2>2. SameBlocks(a, a) /\ DOMAIN a.open = DOMAIN a.open \cup {0} /\ a.open[0] = TextBlock(q)
    BY <1>1 DEF SameBlocks
  <2> QED BY <2>1, <2>2
<1>2. CASE ~texted
  <2> DEFINE e == BlockStart(0, "text", NoId, FALSE)
             c == process_event(a, e)
  <2>1. OpenText = <<e>> /\ Heard(a, <<e>>, c)
    BY <1>2, HeardOne DEF OpenText
  <2>2. <<e>> \in Seq(Events)
    <3>1. e \in Events
      BY EventTypes DEF Types
    <3> HIDE DEF e
    <3> QED BY <3>1
  <2> HIDE DEF c
  <2>3. c = process_event(a, BlockStart(0, "text", NoId, FALSE))
    BY DEF c
  <2> HIDE DEF e
  <2>4. SameBlocks(a, c) /\ DOMAIN c.open = DOMAIN a.open \cup {0} /\ c.open[0] = TextBlock(<<>>)
    BY <1>2, <2>3, TextStart
  <2> QED BY <1>2, <2>1, <2>2, <2>4
<1> QED BY <1>1, <1>2

\* a piece more of the text, which opens when there is none yet
LEMMA PieceHeard ==
    ASSUME NEW a, Accumulator(a), texted \in BOOLEAN, texted <=> 0 \in DOMAIN a.open,
           NEW q \in Seq(AnyPiece), texted => a.open[0] = TextBlock(q), ~texted => q = <<>>,
           NEW p \in AnyPiece
    PROVE  LET es == OpenText \o << Delta(0, p) >> IN
           /\ es \in Seq(Events)
           /\ \E c : /\ Heard(a, es, c) /\ SameBlocks(a, c)
                     /\ DOMAIN c.open = DOMAIN a.open \cup {0} /\ c.open[0] = TextBlock(Append(q, p))
<1> DEFINE e == Delta(0, p)
           es == OpenText \o << e >>
<1> SUFFICES /\ es \in Seq(Events)
             /\ \E c : /\ Heard(a, es, c) /\ SameBlocks(a, c)
                       /\ DOMAIN c.open = DOMAIN a.open \cup {0} /\ c.open[0] = TextBlock(Append(q, p))
  OBVIOUS
<1>1. PICK x : /\ Heard(a, OpenText, x) /\ SameBlocks(a, x)
               /\ DOMAIN x.open = DOMAIN a.open \cup {0} /\ x.open[0] = TextBlock(q)
  BY OpenTextHeard
<1>2. OpenText \in Seq(Events)
  BY OpenTextHeard
<1>3. e \in Events
  BY EventTypes
<1> DEFINE c == process_event(x, e)
<1>4. Heard(x, <<e>>, c)
  BY HeardOne
<1> HIDE DEF c
<1>5. SameBlocks(x, c) /\ DOMAIN c.open = DOMAIN x.open /\ c.open[0] = TextBlock(Append(q, p))
  <2>1. Accumulator(x) /\ 0 \in DOMAIN x.open /\ c = process_event(x, Delta(0, p))
    BY <1>1 DEF c, SameBlocks
  <2> QED BY <2>1, <1>1, TextDelta
<1> HIDE DEF e
<1>6. es \in Seq(Events) /\ <<e>> \in Seq(Events)
  BY <1>2, <1>3
<1>7. Heard(a, es, c)
  BY <1>1, <1>2, <1>4, <1>6, HeardMore
<1>8. SameBlocks(a, c)
  BY <1>1, <1>5 DEF SameBlocks
<1> HIDE DEF es
<1> QED BY <1>1, <1>5, <1>6, <1>7, <1>8


\* what is heard of some events
Hears(a, es, b) == es \in Seq(Events) /\ Heard(a, es, b)

LEMMA HearsMore ==
    ASSUME NEW s, NEW t, NEW a, NEW b, NEW c, Hears(a, s, b), Hears(b, t, c)
    PROVE  Hears(a, s \o t, c)
<1>1. s \in Seq(Events) /\ t \in Seq(Events)
  BY DEF Hears
<1>2. s \o t \in Seq(Events)
  BY <1>1
<1>3. Heard(a, s \o t, c)
  BY <1>1, HeardMore DEF Hears
<1> QED BY <1>2, <1>3 DEF Hears

LEMMA HearsOne ==
    ASSUME NEW e \in Events, NEW a
    PROVE  Hears(a, <<e>>, process_event(a, e)) /\ Hears(a, <<>>, a)
<1>1. Heard(a, <<e>>, process_event(a, e)) /\ Heard(a, <<>>, a)
  BY HeardOne, HeardNothing
<1>2. <<e>> \in Seq(Events) /\ <<>> \in Seq(Events)
  OBVIOUS
<1> QED BY <1>1, <1>2 DEF Hears

\* the blocks of a complete answer, and its endings
Closing(b) ==
    /\ Accumulator(b) /\ b.blocks \in Seq(Blocks)
    /\ \A s \in Routed : s + 2 <= Len(b.blocks) /\ b.blocks[s + 2] = CallOf(s)
    /\ \A p \in 1..Len(b.blocks) : p - 2 \in Routed \/ b.blocks[p].type = "text"
    /\ texted => Len(b.blocks) > 0 /\ HasText(b.blocks[1].body)
    /\ Noted => Len(b.blocks) > 0 /\ \E k \in 1..Len(b.blocks[1].body) : b.blocks[1].body[k] = Note
    /\ b.failed = FALSE

LEMMA ClosingStays ==
    ASSUME NEW a, NEW b, Closing(a), Accumulator(b), b.blocks = a.blocks, b.failed = a.failed
    PROVE  Closing(b)
BY DEF Closing

\* what is heard of the note, of the text's end and of all of Finalize
LEMMA NoticeHeard ==
    ASSUME NEW a, NEW x, Streamed(a), Called(a, x, Routed), texted \in BOOLEAN
    PROVE  \E y : Hears(x, Notice, y) /\ SameBlocks(x, y) /\ (texted \/ Noted => TextOpen(y))
<1>1. Accumulator(x) /\ (texted <=> 0 \in DOMAIN x.open)
  <2>1. Accumulator(x) /\ (0 \in DOMAIN x.open <=> 0 \in DOMAIN a.open)
    BY DEF Called
  <2>2. texted <=> 0 \in DOMAIN a.open
    BY DEF Streamed
  <2> QED BY <2>1, <2>2
<1>2. PICK q \in Seq(AnyPiece) : (texted => x.open[0] = TextBlock(q) /\ HasText(q)) /\ (~texted => q = <<>>)
  <2>1. CASE texted
    <3>1. PICK q \in Seq(AnyPiece) : a.open[0] = TextBlock(q) /\ HasText(q)
      BY <2>1 DEF Streamed
    <3>2. x.open[0] = a.open[0]
      BY <1>1, <2>1 DEF Called
    <3> QED BY <2>1, <3>1, <3>2
  <2>2. CASE ~texted
    <3>1. <<>> \in Seq(AnyPiece)
      OBVIOUS
    <3> QED BY <2>2, <3>1
  <2> QED BY <2>1, <2>2
<1>3. CASE Noted
  <2> DEFINE p == Note
             r == Append(q, p)
  <2>1. p \in AnyPiece
    BY DEF AnyPiece
  <2> HIDE DEF p
  <2>2. LET es == OpenText \o << Delta(0, p) >> IN
        /\ es \in Seq(Events)
        /\ \E y : /\ Heard(x, es, y) /\ SameBlocks(x, y)
                  /\ DOMAIN y.open = DOMAIN x.open \cup {0} /\ y.open[0] = TextBlock(Append(q, p))
    BY <1>1, <1>2, <2>1, PieceHeard
  <2>3. Notice = OpenText \o << Delta(0, p) >>
    BY <1>3 DEF Notice, p
  <2>4. PICK y : /\ Hears(x, Notice, y) /\ SameBlocks(x, y)
                 /\ DOMAIN y.open = DOMAIN x.open \cup {0} /\ y.open[0] = TextBlock(r)
    BY <2>2, <2>3 DEF Hears
  <2>5. r \in Seq(AnyPiece) /\ Len(r) = Len(q) + 1 /\ r[Len(q) + 1] = p /\ \A k \in 1..Len(q) : r[k] = q[k]
    BY <2>1
  <2> HIDE DEF r
  <2>6. texted => HasText(r)
    <3> SUFFICES ASSUME texted, NEW i \in Texts PROVE \E k \in 1..Len(r) : r[k] = Piece(i, 1)
      BY DEF HasText
    <3>1. PICK k \in 1..Len(q) : q[k] = Piece(i, 1)
      BY <1>2 DEF HasText
    <3> QED BY <3>1, <2>5
  <2>7. \E k \in 1..Len(r) : r[k] = Note
    <3>1. Len(q) + 1 \in 1..Len(r)
      BY <2>5
    <3> QED BY <3>1, <2>5 DEF p
  <2>8. TextOpen(y)
    BY <2>4, <2>5, <2>6, <2>7 DEF TextOpen
  <2> QED BY <2>4, <2>8
<1>4. CASE ~Noted
  <2>1. Notice = <<>>
    BY <1>4 DEF Notice
  <2>2. Hears(x, <<>>, x)
    <3>1. Heard(x, <<>>, x) /\ <<>> \in Seq(Events)
      BY HeardNothing
    <3> QED BY <3>1 DEF Hears
  <2>3. SameBlocks(x, x)
    BY <1>1 DEF SameBlocks
  <2>4. texted \/ Noted => TextOpen(x)
    BY <1>1, <1>2, <1>4 DEF TextOpen
  <2> QED BY <2>1, <2>2, <2>3, <2>4
<1> QED BY <1>3, <1>4

LEMMA TextStopHeard ==
    ASSUME NEW a, NEW x, NEW y, Streamed(a), Called(a, x, Routed), SameBlocks(x, y), Routed \subseteq Nat,
           texted \/ Noted => TextOpen(y)
    PROVE  \E z : Hears(y, IF texted \/ Noted THEN << BlockStop(0) >> ELSE <<>>, z) /\ Closing(z)
<1>1. /\ Accumulator(y) /\ y.blocks = x.blocks /\ y.failed = FALSE
      /\ y.blocks \in Seq(Blocks)
      /\ \A s \in Routed : s + 2 <= Len(y.blocks) /\ y.blocks[s + 2] = CallOf(s)
      /\ \A p \in 1..Len(y.blocks) : p - 2 \in Routed \/ y.blocks[p].type = "text"
  BY DEF Called, SameBlocks, Streamed
<1>2. CASE ~(texted \/ Noted)
  <2>1. Heard(y, <<>>, y) /\ <<>> \in Seq(Events)
    BY HeardNothing
  <2>2. Closing(y)
    BY <1>1, <1>2 DEF Closing
  <2> QED BY <1>2, <2>1, <2>2 DEF Hears
<1>3. CASE texted \/ Noted
  <2>1. PICK q \in Seq(AnyPiece) :
            /\ 0 \in DOMAIN y.open /\ y.open[0] = TextBlock(q)
            /\ texted => HasText(q)
            /\ Noted => \E k \in 1..Len(q) : q[k] = Note
    BY <1>3 DEF TextOpen
  <2> DEFINE e == BlockStop(0)
             z == process_event(y, e)
  <2>2. e \in Events
    BY EventTypes
  <2> HIDE DEF e
  <2>3. Hears(y, <<e>>, z)
    BY <2>2, HearsOne
  <2> HIDE DEF z
  <2>4. /\ Accumulator(z) /\ z.blocks = Placed(y.blocks, 0, Built(Opened(y, 0)))
        /\ z.stop = y.stop /\ z.failed = y.failed /\ z.terminal = y.terminal
    <3>1. z = process_event(y, BlockStop(0))
      BY DEF z, e
    <3> QED BY <1>1, <3>1, StopOf
  <2> DEFINE t == Text(q)
             n == 0
  <2>5. Built(Opened(y, 0)) = t
    BY <2>1 DEF Opened, Built, TextBlock
  <2>6. t \in Blocks /\ t.type = "text" /\ t.body = q
    BY BlockTypes
  <2> HIDE DEF t
  <2>7. PlacedAt(z.blocks, y.blocks, n, t)
    <3>1. PlacedAt(Placed(y.blocks, n, t), y.blocks, n, t)
      BY <1>1, <2>6, PlacedIs
    <3> QED BY <3>1, <2>4, <2>5
  <2> DEFINE p == z.blocks
  <2>8. /\ p \in Seq(Blocks) /\ Len(p) = (IF Len(y.blocks) > 0 THEN Len(y.blocks) ELSE 1)
        /\ p[1] = t
        /\ \A j \in 1..Len(p) : j # 1 => p[j] = IF j <= Len(y.blocks) THEN y.blocks[j] ELSE Text(<<>>)
    BY <2>7 DEF PlacedAt
  <2> HIDE DEF p
  <2>9. \A s \in Routed : s + 2 <= Len(p) /\ p[s + 2] = CallOf(s)
    <3> TAKE s \in Routed
    <3>1. s + 2 <= Len(y.blocks) /\ y.blocks[s + 2] = CallOf(s) /\ s \in Nat /\ Len(y.blocks) \in Nat
      BY <1>1
    <3>2. s + 2 \in 1..Len(p) /\ s + 2 # 1
      BY <3>1, <2>8
    <3> QED BY <3>1, <3>2, <2>8
  <2>10. \A j \in 1..Len(p) : j - 2 \in Routed \/ p[j].type = "text"
    <3> TAKE j \in 1..Len(p)
    <3>1. CASE j = 1
      BY <3>1, <2>6, <2>8
    <3>2. CASE j # 1
      <4>1. Len(y.blocks) \in Nat
        BY <1>1
      <4>2. j \in 1..Len(y.blocks)
        BY <2>8, <3>2, <4>1
      <4> QED BY <4>1, <4>2, <2>8, <1>1, <3>2
    <3> QED BY <3>1, <3>2
  <2>11. Len(p) > 0 /\ p[1].body = q
    BY <1>1, <2>6, <2>8
  <2>12. Closing(z)
    <3>1. texted => HasText(p[1].body)
      BY <2>1, <2>11
    <3>2. Noted => \E k \in 1..Len(p[1].body) : p[1].body[k] = Note
      BY <2>1, <2>11
    <3> QED BY <1>1, <2>4, <2>8, <2>9, <2>10, <2>11, <3>1, <3>2 DEF Closing, p
  <2> QED BY <1>3, <2>3, <2>12 DEF e
<1> QED BY <1>2, <1>3

LEMMA FinalizeHeard ==
    ASSUME SlotTypes, texted \in BOOLEAN, NEW given \in Stops \cup {NoStop}, NEW done,
           NEW a, Accumulator(a), Streamed(a)
    PROVE  \E c : Hears(a, Finalize(given, done), c) /\ Accumulator(c) /\ FinalizedAs(c, given, done)
<1> DEFINE calls == FlattenSeq([k \in 1..Len(Emitted) |-> CallBlock(Emitted[k])])
           ending == IF texted \/ Noted THEN << BlockStop(0) >> ELSE <<>>
           stop == StopFor(given)
           e == MessageDelta(stop)
           fault == IF Fault(done) THEN << Error >> ELSE <<>>
<1>0. Routed \subseteq Nat
  BY EmittedIs DEF SlotTypes
<1>1. PICK x : Hears(a, calls, x) /\ Called(a, x, Routed)
  <2>1. Called(a, a, {})
    BY DEF Called, Streamed
  <2>2. calls \in Seq(Events) /\ \E c : Heard(a, calls, c) /\ Called(a, c, Routed)
    BY <2>1, CallsHeard
  <2> QED BY <2>2 DEF Hears
<1> HIDE DEF calls
<1>2. PICK y : Hears(x, Notice, y) /\ SameBlocks(x, y) /\ (texted \/ Noted => TextOpen(y))
  BY <1>1, NoticeHeard
<1>3. PICK z : Hears(y, ending, z) /\ Closing(z)
  BY <1>0, <1>1, <1>2, TextStopHeard
<1> HIDE DEF ending
<1>4. stop \in Stops
  BY DEF StopFor, Stops, NoStop
<1> HIDE DEF stop
<1> DEFINE u == process_event(z, e)
<1>5. Hears(z, <<e>>, u)
  BY <1>4, EventTypes, HearsOne
<1>6. Closing(u) /\ u.stop = stop
  <2>1. Accumulator(z)
    BY <1>3 DEF Closing
  <2>2. EndedAs(z, u, stop, z.failed, TRUE)
    BY <1>4, <2>1, ReasonOf
  <2> HIDE DEF u
  <2> QED BY <2>2, <1>3, ClosingStays DEF EndedAs
<1> HIDE DEF u, e
<1>7. PICK v : /\ Hears(u, fault, v) /\ Accumulator(v) /\ v.blocks = u.blocks /\ v.stop = u.stop
               /\ v.failed \in BOOLEAN /\ (v.failed <=> Fault(done))
  <2>1. CASE Fault(done)
    <3> DEFINE r == Error
               w == process_event(u, r)
    <3>1. EndedAs(u, w, u.stop, TRUE, u.terminal)
      BY <1>6, ErrorOf DEF Closing
    <3>2. r \in Events
      BY EventTypes
    <3> HIDE DEF r
    <3>3. Hears(u, <<r>>, w)
      BY <3>2, HearsOne
    <3> HIDE DEF w
    <3>4. Accumulator(w) /\ w.blocks = u.blocks /\ w.stop = u.stop /\ w.failed = TRUE
      BY <3>1 DEF EndedAs
    <3>5. fault = <<r>>
      BY <2>1 DEF r
    <3> QED BY <2>1, <3>3, <3>4, <3>5
  <2>2. CASE ~Fault(done)
    <3>1. Hears(u, <<>>, u)
      <4>1. Heard(u, <<>>, u) /\ <<>> \in Seq(Events)
        BY HeardNothing
      <4> QED BY <4>1 DEF Hears
    <3>2. fault = <<>> /\ Accumulator(u) /\ u.failed = FALSE
      BY <1>6, <2>2 DEF Closing
    <3> QED BY <2>2, <3>1, <3>2
  <2> QED BY <2>1, <2>2
<1> HIDE DEF fault
<1> DEFINE m == MessageStop
           c == process_event(v, m)
<1>8. m \in Events /\ EndedAs(v, c, v.stop, v.failed, TRUE)
  BY <1>7, EventTypes, MessageStopOf
<1> HIDE DEF m
<1>9. Hears(v, <<m>>, c)
  BY <1>8, HearsOne
<1> HIDE DEF c
<1>10. Accumulator(c) /\ c.blocks = v.blocks /\ c.stop = v.stop /\ c.failed = v.failed /\ c.terminal = TRUE
  BY <1>7, <1>8 DEF EndedAs
<1>11. Hears(a, calls \o Notice \o ending \o <<e>> \o fault \o <<m>>, c)
  <2>1. Hears(a, calls \o Notice, y)
    BY <1>1, <1>2, HearsMore
  <2>2. Hears(a, calls \o Notice \o ending, z)
    BY <2>1, <1>3, HearsMore
  <2>3. Hears(a, calls \o Notice \o ending \o <<e>>, u)
    BY <2>2, <1>5, HearsMore
  <2>4. Hears(a, calls \o Notice \o ending \o <<e>> \o fault, v)
    BY <2>3, <1>7, HearsMore
  <2> QED BY <2>4, <1>9, HearsMore
<1>12. Finalize(given, done) = calls \o Notice \o ending \o <<e>> \o fault \o <<m>>
  BY Zenon DEF Finalize, calls, ending, e, stop, fault, m
<1>13. FinalizedAs(c, given, done)
  <2>1. c.blocks = u.blocks /\ c.stop = stop
    BY <1>6, <1>7, <1>10
  <2> QED BY <2>1, <1>6, <1>7, <1>10 DEF FinalizedAs, Closing, stop
<1> QED BY <1>10, <1>11, <1>12, <1>13

(***************************************************************************)
(* What the provider means to say, and the slots of its calls.             *)
(***************************************************************************)
\* the parts of a plan
LEMMA PlanTypes ==
    ASSUME plan \in Plans
    PROVE  /\ Len(plan) \in Nat /\ Parts = 1..Len(plan)
           /\ \A i \in Parts : /\ i \in Nat /\ i > 0 /\ plan[i] \in Calls \cup {"text"}
                               /\ IsCall(i) => plan[i] \in Calls
                               /\ Size(i) \in Nat /\ (~IsCall(i) => Size(i) = 1)
                               /\ FramesOf(i) \in Nat /\ FramesOf(i) > 0
                               /\ \A n \in Nat : Piece(i, n) \in AnyPiece
           /\ \A i, j \in Parts : IsCall(i) /\ plan[i] = plan[j] => i = j
<1>1. plan \in Seq(Calls \cup {"text"})
  BY StreamAssumption
<1>2. Len(plan) \in Nat /\ Parts = 1..Len(plan)
  BY <1>1 DEF Parts
<1>3. ASSUME NEW i \in Parts
      PROVE  /\ i \in Nat /\ i > 0 /\ plan[i] \in Calls \cup {"text"}
             /\ IsCall(i) => plan[i] \in Calls
             /\ Size(i) \in Nat /\ (~IsCall(i) => Size(i) = 1)
             /\ FramesOf(i) \in Nat /\ FramesOf(i) > 0
             /\ \A n \in Nat : Piece(i, n) \in AnyPiece
  <2>1. i \in Nat /\ i > 0 /\ plan[i] \in Calls \cup {"text"}
    BY <1>1, <1>2
  <2>2. IsCall(i) => plan[i] \in Calls
    BY <2>1 DEF IsCall
  <2>3. Size(i) \in Nat /\ (~IsCall(i) => Size(i) = 1)
    BY <2>2, CallAssumption DEF Size
  <2>4. FramesOf(i) \in Nat /\ FramesOf(i) > 0
    BY <2>3 DEF FramesOf
  <2>5. \A n \in Nat : Piece(i, n) \in AnyPiece
    BY <2>1 DEF Piece, AnyPiece
  <2> QED BY <2>1, <2>2, <2>3, <2>4, <2>5
<1>4. \A i, j \in Parts : IsCall(i) /\ plan[i] = plan[j] => i = j
  BY StreamAssumption DEF IsCall, Parts
<1> QED BY <1>2, <1>3, <1>4

\* a body grows by one piece after the other
LEMMA BodyGrows ==
    ASSUME plan \in Plans, NEW i \in Parts, NEW n \in Nat
    PROVE  /\ Body(i, n) \in Seq(AnyPiece) /\ Len(Body(i, n)) = n
           /\ Append(Body(i, n), Piece(i, n + 1)) = Body(i, n + 1)
           /\ Body(i, 0) = <<>>
           /\ \A k \in 1..n : Body(i, n)[k] = Piece(i, k)
<1> DEFINE d(k) == Piece(i, k)
<1>1. \A k \in Nat : d(k) \in AnyPiece
  BY PlanTypes
<1>2. \A m : Body(i, m) = [k \in 1..m |-> d(k)]
  BY DEF Body
<1>3. Piece(i, n + 1) = d(n + 1)
  OBVIOUS
<1>4. \A k : Piece(i, k) = d(k)
  OBVIOUS
<1> HIDE DEF d
<1>5. Body(i, n) = [k \in 1..n |-> d(k)] /\ Body(i, 0) = [k \in 1..0 |-> d(k)]
  BY <1>2
<1>6. Body(i, n + 1) = [k \in 1..(n + 1) |-> d(k)]
  BY <1>2
<1>7. \A k \in 1..n : d(k) \in AnyPiece
  BY <1>1
<1>8. Body(i, n) \in Seq(AnyPiece) /\ Len(Body(i, n)) = n
  BY <1>5, <1>7
<1>9. Append(Body(i, n), d(n + 1)) = Body(i, n + 1)
  BY <1>5, <1>6
<1>10. Body(i, 0) = <<>>
  BY <1>5
<1>11. \A k \in 1..n : Body(i, n)[k] = d(k)
  BY <1>5
<1> QED BY <1>3, <1>4, <1>8, <1>9, <1>10, <1>11

\* the calls before part i
CallsBefore(i) == {j \in Parts : j < i /\ IsCall(j)}

LEMMA RankIs ==
    ASSUME plan \in Plans
    PROVE  /\ \A i \in Parts : Rank(i) \in Nat /\ IsFiniteSet(CallsBefore(i)) /\ Rank(i) <= Len(plan)
           /\ \A i, j \in Parts : IsCall(j) /\ j < i => Rank(j) < Rank(i)
           /\ \A i, j \in Parts : /\ IsCall(j) /\ j < i
                                  /\ \A k \in Parts : j < k /\ k < i => ~IsCall(k)
                                  => Rank(i) = Rank(j) + 1
<1>1. Len(plan) \in Nat /\ Parts = 1..Len(plan)
  BY PlanTypes
<1>2. ASSUME NEW i \in Parts
      PROVE  Rank(i) \in Nat /\ IsFiniteSet(CallsBefore(i)) /\ Rank(i) <= Len(plan)
  <2>1. CallsBefore(i) \in SUBSET (1..Len(plan))
    BY <1>1 DEF CallsBefore
  <2>2. IsFiniteSet(1..Len(plan)) /\ Cardinality(1..Len(plan)) = Len(plan)
    <3> DEFINE n == Len(plan)
    <3>1. n \in Nat
      BY <1>1
    <3> HIDE DEF n
    <3>2. IsFiniteSet(1..n) /\ Cardinality(1..n) = IF 1 > n THEN 0 ELSE n - 1 + 1
      BY <3>1, FS_Interval
    <3> QED BY <3>1, <3>2 DEF n
  <2>3. IsFiniteSet(CallsBefore(i)) /\ Cardinality(CallsBefore(i)) <= Len(plan)
    BY <2>1, <2>2, FS_Subset
  <2>4. Cardinality(CallsBefore(i)) \in Nat
    BY <2>3, FS_CardinalityType
  <2>5. Rank(i) = Cardinality(CallsBefore(i))
    BY DEF Rank, CallsBefore
  <2> QED BY <2>3, <2>4, <2>5
<1>3. ASSUME NEW i \in Parts, NEW j \in Parts, IsCall(j), j < i
      PROVE  Rank(j) < Rank(i)
  <2>1. CallsBefore(j) \cup {j} \subseteq CallsBefore(i) /\ j \notin CallsBefore(j)
    BY <1>1, <1>3 DEF CallsBefore
  <2>2. IsFiniteSet(CallsBefore(j)) /\ IsFiniteSet(CallsBefore(i))
    BY <1>2
  <2>3. Cardinality(CallsBefore(j) \cup {j}) = Cardinality(CallsBefore(j)) + 1
    BY <2>1, <2>2, FS_AddElement
  <2>4. Cardinality(CallsBefore(j) \cup {j}) <= Cardinality(CallsBefore(i))
    BY <2>1, <2>2, FS_Subset
  <2>5. Rank(i) = Cardinality(CallsBefore(i)) /\ Rank(j) = Cardinality(CallsBefore(j))
    BY DEF Rank, CallsBefore
  <2>6. Rank(i) \in Nat /\ Rank(j) \in Nat
    BY <1>2
  <2> QED BY <2>3, <2>4, <2>5, <2>6
<1>4. ASSUME NEW i \in Parts, NEW j \in Parts, IsCall(j), j < i, \A k \in Parts : j < k /\ k < i => ~IsCall(k)
      PROVE  Rank(i) = Rank(j) + 1
  <2>1. CallsBefore(j) \cup {j} = CallsBefore(i) /\ j \notin CallsBefore(j)
    BY <1>1, <1>4 DEF CallsBefore
  <2>2. IsFiniteSet(CallsBefore(j))
    BY <1>2
  <2>3. Cardinality(CallsBefore(j) \cup {j}) = Cardinality(CallsBefore(j)) + 1
    BY <2>1, <2>2, FS_AddElement
  <2>5. Rank(i) = Cardinality(CallsBefore(i)) /\ Rank(j) = Cardinality(CallsBefore(j))
    BY DEF Rank, CallsBefore
  <2> QED BY <2>1, <2>3, <2>5
<1> QED BY <1>2, <1>3, <1>4

\* a finite set of natural numbers has a greatest element
LEMMA GreatestNat ==
    ASSUME NEW n \in Nat, NEW T, T \subseteq 0..n, T # {}
    PROVE  \E x \in T : \A y \in T : y <= x
<1> DEFINE U == {k \in 0..n : n - k \in T}
<1>1. U \subseteq Nat /\ U # {}
  <2>1. PICK t \in T : t \in 0..n
    OBVIOUS
  <2>2. n - t \in 0..n /\ n - (n - t) = t
    BY <2>1
  <2>3. n - t \in U
    BY <2>1, <2>2
  <2> QED BY <2>3
<1>2. PICK u \in U : \A k \in U : u <= k
  <2> HIDE DEF U
  <2> QED BY <1>1, LeastNat
<1>3. n - u \in T /\ u \in 0..n
  BY <1>2
<1>4. \A y \in T : y <= n - u
  <2> TAKE y \in T
  <2>1. y \in 0..n /\ n - y \in 0..n /\ n - (n - y) = y
    OBVIOUS
  <2>2. n - y \in U
    BY <2>1
  <2>3. u <= n - y
    BY <1>2, <2>2
  <2> QED BY <1>3, <2>1, <2>3
<1> QED BY <1>3, <1>4

\* the slot after those of all the calls before i is i's
LEMMA NextRank ==
    ASSUME plan \in Plans, NEW i \in Parts, DOMAIN slots = {Rank(j) : j \in CallsBefore(i)}
    PROVE  NextSlot = Rank(i)
<1>1. Len(plan) \in Nat /\ Parts = 1..Len(plan)
  BY PlanTypes
<1>2. CASE CallsBefore(i) = {}
  <2>1. NextSlot = 0
    BY <1>2 DEF NextSlot
  <2>2. Rank(i) = Cardinality({})
    BY <1>2, Zenon DEF Rank, CallsBefore
  <2> QED BY <2>1, <2>2, FS_EmptySet
<1>3. CASE CallsBefore(i) # {}
  <2>1. CallsBefore(i) \subseteq 0..Len(plan)
    BY <1>1 DEF CallsBefore
  <2>2. PICK j \in CallsBefore(i) : \A k \in CallsBefore(i) : k <= j
    BY <1>1, <1>3, <2>1, GreatestNat
  <2>3. j \in Parts /\ IsCall(j) /\ j < i
    BY <2>2 DEF CallsBefore
  <2>4. \A k \in Parts : j < k /\ k < i => ~IsCall(k)
    BY <1>1, <2>2, <2>3 DEF CallsBefore
  <2>5. Rank(i) = Rank(j) + 1 /\ Rank(j) \in Nat
    BY <2>3, <2>4, RankIs
  <2>6. \A k \in CallsBefore(i) : k \in Parts /\ Rank(k) \in Nat /\ Rank(k) <= Rank(j)
    <3> TAKE k \in CallsBefore(i)
    <3>1. k \in Parts /\ IsCall(k) /\ k <= j
      BY <2>2 DEF CallsBefore
    <3>2. k = j \/ k < j
      BY <1>1, <2>3, <3>1
    <3>3. k < j => Rank(k) < Rank(j)
      BY <2>3, <3>1, RankIs
    <3>4. Rank(k) \in Nat
      BY <3>1, RankIs
    <3> QED BY <2>5, <3>1, <3>2, <3>3, <3>4
  <2> DEFINE D == DOMAIN slots
  <2>7. Rank(j) \in D /\ \A d \in D : d \in Nat /\ d <= Rank(j)
    BY <2>2, <2>6
  <2> HIDE DEF D
  <2>8. Max(D) = Rank(j)
    <3> DEFINE r == Rank(j)
    <3>1. r \in D /\ \A d \in D : d \in Nat /\ r >= d
      BY <2>5, <2>7
    <3> HIDE DEF r
    <3>2. r \in Nat
      BY <3>1
    <3>3. \A x \in D : (\A y \in D : x >= y) => x = r
      BY <3>1, <3>2
    <3>4. Max(D) = CHOOSE x \in D : \A y \in D : x >= y
      BY Zenon DEF Max
    <3>5. Max(D) \in D /\ \A y \in D : Max(D) >= y
      BY <3>1, <3>4, Zenon
    <3> QED BY <3>3, <3>5 DEF r
  <2>9. NextSlot = Max(D) + 1
    BY <2>7 DEF NextSlot, D
  <2> QED BY <2>5, <2>8, <2>9
<1> QED BY <1>2, <1>3

\* a slot is one call's
LEMMA SlotsAre ==
    ASSUME plan \in Plans, sent \in [Parts -> Nat], InSlots
    PROVE  /\ SlotTypes /\ Routed \subseteq Nat /\ DOMAIN slots \subseteq Nat
           /\ \A s \in DOMAIN slots : \E i \in OpenedCalls : s = Rank(i) /\ slots[s] = Assembled(i)
           /\ \A i \in OpenedCalls : Rank(i) \in DOMAIN slots /\ slots[Rank(i)] = Assembled(i)
           /\ \A i, j \in Parts : IsCall(i) /\ IsCall(j) => (Rank(i) = Rank(j) <=> i = j)
           /\ \A i, j \in Parts : IsCall(i) /\ IsCall(j) => (i < j <=> Rank(i) < Rank(j))
<1>1. Len(plan) \in Nat /\ Parts = 1..Len(plan)
  BY PlanTypes
<1>2. \A s \in DOMAIN slots : \E i \in OpenedCalls : s = Rank(i) /\ slots[s] = Assembled(i)
  BY DEF InSlots
<1>3. \A i \in OpenedCalls : Rank(i) \in DOMAIN slots /\ slots[Rank(i)] = Assembled(i)
  BY DEF InSlots
<1>4. \A i \in Parts : Rank(i) \in Nat /\ Rank(i) <= Len(plan)
  BY RankIs
<1>5. \A i, j \in Parts : IsCall(j) /\ j < i => Rank(j) < Rank(i)
  BY RankIs
<1>6. \A i \in OpenedCalls : i \in Parts /\ sent[i] \in Nat /\ sent[i] - 1 \in Nat
  BY DEF OpenedCalls
<1>7. \A s \in DOMAIN slots : s \in Nat /\ s < Len(plan) + 1
  BY <1>1, <1>2, <1>4, <1>6
<1>8. SlotTypes
  <2>1. \E n \in Nat : DOMAIN slots \subseteq {k \in Nat : k < n}
    BY <1>1, <1>7
  <2>2. ASSUME NEW s \in DOMAIN slots
        PROVE  slots[s].id \in Calls \cup {NoId} /\ slots[s].named \in BOOLEAN /\ slots[s].args \in Seq(AnyPiece)
    <3>1. PICK i \in OpenedCalls : slots[s] = Assembled(i)
      BY <1>2
    <3>2. i \in Parts /\ IsCall(i) /\ sent[i] - 1 \in Nat
      BY <3>1, <1>6 DEF OpenedCalls
    <3>3. plan[i] \in Calls /\ Body(i, sent[i] - 1) \in Seq(AnyPiece)
      BY <3>2, PlanTypes, BodyGrows
    <3> QED BY <3>1, <3>3 DEF Assembled
  <2> QED BY <2>1, <2>2 DEF SlotTypes
<1>9. \A i, j \in Parts : IsCall(i) /\ IsCall(j) => (Rank(i) = Rank(j) <=> i = j)
  BY <1>1, <1>4, <1>5
<1>10. \A i, j \in Parts : IsCall(i) /\ IsCall(j) => (i < j <=> Rank(i) < Rank(j))
  BY <1>1, <1>4, <1>5
<1> QED BY <1>2, <1>3, <1>7, <1>8, <1>9, <1>10 DEF Routed

(***************************************************************************)
(* The answer. A refusal hides nothing that had arrived whole, and an      *)
(* answer is what was sent.                                                *)
(***************************************************************************)
Behaved == Types1 /\ Before /\ Phases /\ (reader \in OpenAI => InSlots)

\* nothing that had to survive was there
Empty == \A i \in Parts : ~Good(i) /\ ~(~IsCall(i) /\ Whole(i) /\ Rejected = {})

\* no answer is no false answer as long as nothing was lost with it
LEMMA NoAnswerIsTrue ==
    ASSUME outcome.kind # "ok", outcome.blocks = <<>>, Decided => Empty
    PROVE  AnswerIsTrue
<1>1. Tools(outcome) = {}
  BY DEF Tools
<1>2. AnswerWasEnded /\ CallsAreRun /\ ArgumentsStayApart
  BY <1>1 DEF AnswerWasEnded, CallsAreRun, ArgumentsStayApart
<1>3. WholePartsSurvive
  BY <1>1 DEF WholePartsSurvive, Empty
<1> QED BY <1>2, <1>3 DEF AnswerIsTrue, PartsArrive

\* a call that arrived whole is routed
LEMMA GoodIsRouted ==
    ASSUME Types1, InSlots, reader \in OpenAI, NEW i \in Parts, Good(i)
    PROVE  /\ Rank(i) \in Routed /\ slots[Rank(i)] = Assembled(i) /\ i \in OpenedCalls
           /\ Assembled(i).args = Received(i) /\ Assembled(i).id = plan[i] /\ plan[i] \in Calls
<1>1. IsCall(i) /\ Whole(i) /\ plan[i] \notin Nameless /\ plan \in Plans /\ sent \in [Parts -> Nat]
  BY DEF Good, Types1
<1>2. Size(i) \in Nat /\ plan[i] \in Calls
  BY <1>1, PlanTypes
<1>3. sent[i] = Size(i) + 1
  BY <1>1 DEF Whole, FramesOf, OpenAI
<1>4. i \in OpenedCalls
  BY <1>1, <1>2, <1>3 DEF OpenedCalls
<1>5. Rank(i) \in DOMAIN slots /\ slots[Rank(i)] = Assembled(i)
  BY <1>1, <1>4, SlotsAre
<1>6. Assembled(i).id = plan[i] /\ Assembled(i).named = TRUE /\ Assembled(i).args = Body(i, sent[i] - 1)
  BY <1>1 DEF Assembled
<1>7. sent[i] - 1 = Pieces[plan[i]]
  BY <1>1, <1>2, <1>3 DEF Size
<1>8. Body(i, Pieces[plan[i]]) = Received(i)
  BY DEF Body, Received
<1>9. Rank(i) \in Routed
  BY <1>2, <1>5, <1>6, CallAssumption DEF Routed, Routable
<1> QED BY <1>2, <1>4, <1>5, <1>6, <1>7, <1>8, <1>9

LEMMA FaultIsEmpty ==
    ASSUME Types1, InSlots, reader \in OpenAI, NEW done, Fault(done)
    PROVE  Empty
<1>1. plan \in Plans /\ sent \in [Parts -> Nat]
  BY DEF Types1
<1>2. Emitted = <<>> <=> Routed = {}
  <2>1. \E n \in Nat : DOMAIN slots \subseteq {k \in Nat : k < n}
    BY <1>1, SlotsAre DEF SlotTypes
  <2> QED BY <2>1, EmittedIs
<1>3. Routed = {}
  BY <1>2 DEF Fault
<1>4. ASSUME NEW i \in Parts PROVE ~Good(i)
  BY <1>3, GoodIsRouted
<1>5. ASSUME NEW i \in Parts, ~IsCall(i), Whole(i), Rejected = {} PROVE FALSE
  <2>1. FramesOf(i) > 0 /\ sent[i] = FramesOf(i)
    BY <1>1, <1>5, PlanTypes DEF Whole
  <2>2. i \in Texts
    BY <1>5, <2>1 DEF Texts
  <2>3. texted
    BY <2>2 DEF InSlots
  <2> QED BY <1>5, <2>3 DEF Fault
<1> QED BY <1>4, <1>5 DEF Empty

\* what was told is no answer: nothing whole came, or the provider is at fault
LEMMA FailedIsEmpty ==
    ASSUME Behaved, NEW b, Says(b), b.failed = TRUE
    PROVE  (closed # "no" \/ finish = "trouble") /\ (Decided => Empty)
<1>1. CASE Faulty
  BY <1>1 DEF Faulty, Decided
<1>2. CASE ~Faulty
  <2>1. reader \in OpenAI /\ closed # "no"
    BY <1>2 DEF Says, ReasonTold, Streamed
  <2>2. closed = "eof"
    BY <1>2, <2>1 DEF Behaved, Types1, Faulty
  <2>3. Fault(ended)
    BY <1>2, <2>1, <2>2 DEF Says, Finalized, FinalizedAs
  <2> QED BY <2>1, <2>2, <2>3, FaultIsEmpty DEF Behaved
<1> QED BY <1>1, <1>2

LEMMA RefusedIsTrue ==
    ASSUME Behaved, NEW b, Says(b), b.failed = TRUE, outcome = Refused
    PROVE  AnswerIsTrue
<1>1. outcome.kind # "ok" /\ outcome.blocks = <<>>
  BY DEF Refused
<1>2. Decided => Empty
  BY FailedIsEmpty
<1> QED BY <1>1, <1>2, NoAnswerIsTrue

\* an answer, as a block per part
LEMMA PartsAnswer ==
    ASSUME Behaved, ~Faulty, reader \notin OpenAI, NEW b, Accumulator(b), InParts(b), ReasonTold(b),
           outcome.kind = "ok", outcome.blocks = b.blocks,
           ~(b.stop = NoStop /\ ~b.terminal),
           outcome.stop = IF b.stop = NoStop THEN "EndTurn" ELSE b.stop
    PROVE  AnswerIsTrue
<1>1. /\ plan \in Plans /\ sent \in [Parts -> Nat] /\ finish \in Stops \cup {NoStop, "trouble"}
      /\ \A i \in Parts : plan[i] \notin Nameless
      /\ reader \in {"anthropic", "gemini"}
  BY DEF Behaved, Types1, Readers, OpenAI
<1> DEFINE n == Len(b.blocks)
<1>2. /\ b.blocks \in Seq(Blocks) /\ DOMAIN b.blocks = 1..n
      /\ \A k \in 1..n : k \in Parts /\ Stopped(k) /\ b.blocks[k] = Built(Block(k))
      /\ \A k \in Parts : Stopped(k) => k \in 1..n
  <2>1. b.blocks \in Seq(Blocks) /\ DOMAIN b.blocks = 1..n /\ n \in Nat
    BY DEF InParts
  <2>2. \A k \in 1..n : k \in Parts /\ Stopped(k) /\ b.blocks[k] = Built(Block(k))
    BY DEF InParts
  <2>3. \A k \in Parts : Stopped(k) => k <= n /\ k \in Nat /\ k > 0
    BY <1>1, PlanTypes DEF InParts
  <2> QED BY <2>1, <2>2, <2>3
<1> HIDE DEF n
<1>3. ASSUME NEW k \in 1..n
      PROVE  /\ b.blocks[k].type = "tool_use" <=> IsCall(k)
             /\ IsCall(k) => /\ b.blocks[k].id = plan[k] /\ plan[k] \in Calls
                             /\ b.blocks[k].body = Body(k, Got(k))
                             /\ b.blocks[k].valid = Parses(Body(k, Got(k)))
             /\ ~IsCall(k) => b.blocks[k].body = Body(k, Got(k))
  <2>1. b.blocks[k] = Built(Block(k)) /\ k \in Parts
    BY <1>2
  <2>2. IsCall(k) => plan[k] \in Calls
    BY <1>1, <2>1, PlanTypes
  <2>3. CASE IsCall(k)
    <3>1. Built(Block(k)) = ToolUse(plan[k], TRUE, Body(k, Got(k)))
      BY <2>3 DEF Block, Built
    <3> QED BY <2>1, <2>2, <2>3, <3>1 DEF ToolUse
  <2>4. CASE ~IsCall(k)
    <3>1. Built(Block(k)) = Text(Body(k, Got(k)))
      BY <2>4 DEF Block, Built
    <3>2. b.blocks[k].type = "text" /\ b.blocks[k].body = Body(k, Got(k))
      BY <2>1, <3>1 DEF Text
    <3> QED BY <2>4, <3>2
  <2> QED BY <2>3, <2>4
<1>4. Tools(outcome) = {k \in 1..n : IsCall(k)}
  BY <1>2, <1>3 DEF Tools
<1>5. AnswerWasEnded
  <2>1. closed # "reset" /\ finish # "trouble"
    BY DEF Faulty
  <2>2. CASE reader = "anthropic"
    <3>1. b.stop = finish /\ (b.terminal <=> finish # NoStop \/ ended)
      BY <2>2 DEF ReasonTold
    <3>2. ended \/ finish \in Stops
      BY <1>1, <2>1, <3>1 DEF ReasonTold
    <3> QED BY <2>1, <3>2 DEF AnswerWasEnded
  <2> QED BY <1>1, <2>1, <2>2 DEF AnswerWasEnded
<1>6. ASSUME NEW k \in 1..n
      PROVE  k \in Parts /\ sent[k] > 0 /\ Got(k) \in Nat /\ (Whole(k) => Got(k) = Size(k))
  <2>1. k \in Parts /\ Stopped(k) /\ sent[k] \in Nat
    BY <1>1, <1>2
  <2>2. Size(k) \in Nat /\ FramesOf(k) > 0
    BY <1>1, <2>1, PlanTypes
  <2>3. sent[k] > 0
    BY <2>1, <2>2 DEF Stopped, Whole
  <2>4. Got(k) \in Nat
    BY <2>1, <2>2, <2>3 DEF Got
  <2>5. Whole(k) => Got(k) = Size(k)
    BY <1>1, <2>2 DEF Got, Whole, FramesOf
  <2> QED BY <2>1, <2>3, <2>4, <2>5
<1>7. ArgumentsStayApart
  <2> SUFFICES ASSUME NEW k \in Tools(outcome)
               PROVE  /\ b.blocks[k].id \in Calls
                      /\ b.blocks[k].body = [j \in 1..Len(b.blocks[k].body) |-> <<b.blocks[k].id, j>>]
    BY Zenon DEF ArgumentsStayApart
  <2>1. k \in 1..n /\ IsCall(k)
    BY <1>4
  <2> DEFINE m == Got(k)
  <2>2. m \in Nat /\ k \in Parts
    BY <1>6, <2>1
  <2>3. b.blocks[k].id = plan[k] /\ plan[k] \in Calls /\ b.blocks[k].body = Body(k, m)
    BY <1>3, <2>1
  <2> HIDE DEF m
  <2>4. Len(Body(k, m)) = m
    BY <1>1, <2>2, BodyGrows
  <2>5. Body(k, m) = [j \in 1..m |-> <<plan[k], j>>]
    BY DEF Body, Piece
  <2> QED BY <2>3, <2>4, <2>5
<1>8. ASSUME NEW i \in Parts, NEW k \in DOMAIN outcome.blocks, IsCall(i), Carries(k, i)
      PROVE  k = i
  <2>1. k \in 1..n /\ b.blocks[k].type = "tool_use" /\ b.blocks[k].id = plan[i]
    BY <1>2, <1>8 DEF Carries
  <2>2. IsCall(k) /\ plan[k] = plan[i] /\ k \in Parts
    BY <1>3, <1>6, <2>1
  <2> QED BY <1>1, <2>2, PlanTypes
<1>9. ASSUME NEW i \in Parts, Whole(i), IsCall(i) \/ ~IsCall(i) PROVE i \in DOMAIN outcome.blocks /\ Carries(i, i)
  <2>1. i \in 1..n /\ i \in DOMAIN outcome.blocks
    BY <1>2, <1>9 DEF Stopped
  <2>2. Got(i) = Size(i) /\ Size(i) \in Nat
    BY <1>1, <1>6, <1>9, <2>1, PlanTypes
  <2>3. CASE IsCall(i)
    <3>1. Body(i, Got(i)) = Received(i)
      BY <2>2, <2>3 DEF Body, Received, Size
    <3>2. plan[i] \in Calls
      BY <1>1, <2>3, PlanTypes
    <3>3. Body(i, Got(i)) = [j \in 1..Pieces[plan[i]] |-> <<plan[i], j>>]
      BY <2>2, <2>3 DEF Body, Piece, Size
    <3>4. Parses(Body(i, Got(i)))
      BY <3>2, <3>3, Zenon DEF Parses
    <3>5. /\ outcome.blocks[i].type = "tool_use" /\ outcome.blocks[i].id = plan[i]
          /\ outcome.blocks[i].valid /\ outcome.blocks[i].body = Received(i)
      BY <1>3, <2>1, <2>3, <3>1, <3>4
    <3> QED BY <2>1, <2>3, <3>5 DEF Carries
  <2>4. CASE ~IsCall(i)
    <3>1. Got(i) = 1
      BY <1>1, <2>2, <2>4, PlanTypes
    <3> DEFINE m == 1
               q == Body(i, m)
    <3>2. Len(q) = 1 /\ q[1] = Piece(i, 1)
      <4>1. m \in Nat /\ m = 1
        OBVIOUS
      <4> HIDE DEF m
      <4>2. Len(q) = m /\ \A k \in 1..m : q[k] = Piece(i, k)
        BY <1>1, <4>1, BodyGrows
      <4> QED BY <4>1, <4>2
    <3>3. b.blocks[i].body = q /\ b.blocks[i].type # "tool_use"
      BY <1>3, <2>1, <2>4, <3>1
    <3>6. b.blocks[i] \in Blocks
      <4> DEFINE w == b.blocks
      <4>1. w \in Seq(Blocks) /\ i \in DOMAIN w
        BY <1>2, <2>1
      <4> HIDE DEF w
      <4>2. w[i] \in Blocks
        BY <4>1
      <4> QED BY <4>2 DEF w
    <3> HIDE DEF q
    <3>4. b.blocks[i].type = "text"
      BY <3>3, <3>6 DEF Blocks, Types
    <3>5. Piece(i, 1) \in {q[j] : j \in DOMAIN q}
      <4>1. q \in Seq(AnyPiece)
        BY <1>2, <2>1, <3>3, <3>6 DEF Blocks
      <4> QED BY <3>2, <4>1
    <3> QED BY <2>1, <2>4, <3>3, <3>4, <3>5 DEF Carries
  <2> QED BY <2>3, <2>4
<1>10. WholePartsSurvive
  <2>1. ASSUME NEW i \in Parts, Good(i) \/ (~IsCall(i) /\ Whole(i) /\ Rejected = {})
        PROVE  \E k \in DOMAIN outcome.blocks : Carries(k, i)
    BY <1>9, <2>1 DEF Good
  <2>2. ASSUME NEW i \in Parts, NEW j \in Parts, NEW k \in Tools(outcome), NEW l \in Tools(outcome),
               Good(i) /\ Good(j) /\ Carries(k, i) /\ Carries(l, j)
        PROVE  i < j <=> k < l
    <3>1. k = i /\ l = j
      BY <1>8, <2>2 DEF Good, Tools
    <3> QED BY <3>1
  <2>3. ~(\E i \in Parts : IsCall(i) /\ sent[i] > 0 /\ plan[i] \in Nameless)
    BY <1>1
  <2> QED BY <2>1, <2>2, <2>3 DEF WholePartsSurvive
<1>11. CallsAreRun
  <2> SUFFICES ASSUME reader = "gemini", finish # NoStop, NEW k \in Tools(outcome)
               PROVE  outcome.stop = "ToolUse"
    BY DEF CallsAreRun
  <2>1. k \in Parts /\ IsCall(k) /\ sent[k] > 0
    BY <1>4, <1>6
  <2>2. b.stop = "ToolUse"
    BY <2>1 DEF ReasonTold, SawCalls
  <2> QED BY <2>2 DEF NoStop
<1> QED BY <1>5, <1>7, <1>10, <1>11 DEF AnswerIsTrue, PartsArrive

\* an answer, as the text and a block per call that could be routed
LEMMA SlotsAnswer ==
    ASSUME Behaved, ~Faulty, reader \in OpenAI, closed # "no", NEW b, Accumulator(b), Finalized(b),
           b.failed = FALSE,
           outcome.kind = "ok", outcome.blocks = b.blocks,
           outcome.stop = IF b.stop = NoStop THEN "EndTurn" ELSE b.stop
    PROVE  AnswerIsTrue
<1>1. /\ plan \in Plans /\ sent \in [Parts -> Nat] /\ InSlots /\ Types1
      /\ finish \in Stops \cup {NoStop, "trouble"}
  BY DEF Behaved, Types1
<1> DEFINE n == Len(b.blocks)
<1>2. /\ b.blocks \in Seq(Blocks) /\ DOMAIN b.blocks = 1..n /\ n \in Nat
      /\ \A s \in Routed : s + 2 \in 1..n /\ b.blocks[s + 2] = CallOf(s)
      /\ \A p \in 1..n : p - 2 \in Routed \/ b.blocks[p].type = "text"
  <2>1. Routed \subseteq Nat
    BY <1>1, SlotsAre
  <2>2. b.blocks \in Seq(Blocks) /\ DOMAIN b.blocks = 1..n /\ n \in Nat
    BY DEF Finalized, FinalizedAs
  <2>3. \A s \in Routed : s + 2 <= n /\ b.blocks[s + 2] = CallOf(s)
    BY DEF Finalized, FinalizedAs
  <2>4. \A p \in 1..n : p - 2 \in Routed \/ b.blocks[p].type = "text"
    BY DEF Finalized, FinalizedAs
  <2> QED BY <2>1, <2>2, <2>3, <2>4
<1>3. /\ texted => n > 0 /\ HasText(b.blocks[1].body)
      /\ Noted => n > 0 /\ \E k \in 1..Len(b.blocks[1].body) : b.blocks[1].body[k] = Note
      /\ ~Fault(ended) /\ b.stop = StopFor(finish)
  BY DEF Finalized, FinalizedAs
<1> HIDE DEF n
<1>4. /\ Routed \subseteq Nat /\ SlotTypes
      /\ \A s \in DOMAIN slots : \E i \in OpenedCalls : s = Rank(i) /\ slots[s] = Assembled(i)
      /\ \A i \in OpenedCalls : Rank(i) \in DOMAIN slots /\ slots[Rank(i)] = Assembled(i)
      /\ \A i, j \in Parts : IsCall(i) /\ IsCall(j) => (Rank(i) = Rank(j) <=> i = j)
      /\ \A i, j \in Parts : IsCall(i) /\ IsCall(j) => (i < j <=> Rank(i) < Rank(j))
  BY <1>1, SlotsAre
<1>5. Emitted = <<>> <=> Routed = {}
  <2>1. \E m \in Nat : DOMAIN slots \subseteq {k \in Nat : k < m}
    BY <1>4 DEF SlotTypes
  <2> QED BY <2>1, EmittedIs
\* a tool block is a call that was routed
<1>6. ASSUME NEW k \in Tools(outcome)
      PROVE  \E i \in OpenedCalls :
               /\ k = Rank(i) + 2 /\ Rank(i) \in Routed /\ i \in Parts /\ IsCall(i)
               /\ b.blocks[k].id = plan[i] /\ plan[i] \in Calls
               /\ b.blocks[k].body = Body(i, sent[i] - 1) /\ sent[i] - 1 \in Nat
               /\ b.blocks[k].valid = Parses(slots[Rank(i)].args)
  <2>1. k \in 1..n /\ b.blocks[k].type # "text"
    BY <1>2 DEF Tools
  <2> DEFINE s == k - 2
  <2>2. s \in Routed /\ s + 2 = k /\ b.blocks[k] = CallOf(s)
    BY <1>2, <1>4, <2>1
  <2> HIDE DEF s
  <2>3. PICK i \in OpenedCalls : s = Rank(i) /\ slots[s] = Assembled(i)
    BY <1>4, <2>2 DEF Routed
  <2>4. slots[s].id # NoId
    BY <2>2 DEF Routed, Routable
  <2>5. i \in Parts /\ IsCall(i) /\ sent[i] - 1 \in Nat
    BY <1>1 DEF OpenedCalls
  <2>6. plan[i] \in Calls
    BY <1>1, <2>5, PlanTypes
  <2>7. slots[s].id = plan[i] /\ slots[s].args = Body(i, sent[i] - 1)
    BY <2>3, <2>4 DEF Assembled
  <2>8. b.blocks[k].id = slots[s].id /\ b.blocks[k].body = slots[s].args /\ b.blocks[k].valid = Parses(slots[s].args)
    BY <2>2 DEF CallOf, ToolUse
  <2> QED BY <2>2, <2>3, <2>5, <2>6, <2>7, <2>8
<1>7. AnswerWasEnded
  <2>1. closed # "reset" /\ finish # "trouble"
    BY DEF Faulty
  <2>2. ended \/ Emitted # <<>> \/ texted
    BY <1>3 DEF Fault
  <2>3. CASE Emitted # <<>>
    <3>1. PICK s \in DOMAIN slots : TRUE
      BY <1>5, <2>3 DEF Routed
    <3>2. PICK i \in OpenedCalls : s = Rank(i)
      BY <1>4
    <3> QED BY <2>1, <3>2 DEF AnswerWasEnded, OpenedCalls
  <2>4. CASE texted
    <3>1. Texts # {}
      BY <1>1, <2>4 DEF InSlots
    <3> QED BY <2>1, <3>1 DEF AnswerWasEnded, Texts
  <2> QED BY <2>1, <2>2, <2>3, <2>4 DEF AnswerWasEnded
<1>8. ArgumentsStayApart
  <2> SUFFICES ASSUME NEW k \in Tools(outcome)
               PROVE  /\ b.blocks[k].id \in Calls
                      /\ b.blocks[k].body = [j \in 1..Len(b.blocks[k].body) |-> <<b.blocks[k].id, j>>]
    BY Zenon DEF ArgumentsStayApart
  <2>1. PICK i \in OpenedCalls :
               /\ i \in Parts /\ b.blocks[k].id = plan[i] /\ plan[i] \in Calls
               /\ b.blocks[k].body = Body(i, sent[i] - 1) /\ sent[i] - 1 \in Nat
    BY <1>6
  <2> DEFINE m == sent[i] - 1
  <2>2. m \in Nat /\ b.blocks[k].body = Body(i, m)
    BY <2>1
  <2> HIDE DEF m
  <2>4. Len(Body(i, m)) = m
    BY <1>1, <2>1, <2>2, BodyGrows
  <2>5. Body(i, m) = [j \in 1..m |-> <<plan[i], j>>]
    BY DEF Body, Piece
  <2> QED BY <2>1, <2>2, <2>4, <2>5
<1>9. ASSUME NEW i \in Parts, Good(i), NEW k \in Tools(outcome), Carries(k, i)
      PROVE  k = Rank(i) + 2 /\ Rank(i) \in Nat /\ IsCall(i)
  <2>1. IsCall(i)
    BY <1>9 DEF Good
  <2>2. outcome.blocks[k].id = plan[i]
    BY <1>9, <2>1 DEF Carries
  <2>3. PICK j \in OpenedCalls : k = Rank(j) + 2 /\ j \in Parts /\ IsCall(j) /\ b.blocks[k].id = plan[j]
    BY <1>6
  <2>4. i = j
    BY <1>1, <2>1, <2>2, <2>3, PlanTypes
  <2>5. Rank(i) \in Nat
    BY <1>1, RankIs
  <2> QED BY <2>1, <2>3, <2>4, <2>5
<1>10. WholePartsSurvive
  <2>1. ASSUME NEW i \in Parts, Good(i)
        PROVE  \E k \in DOMAIN outcome.blocks : Carries(k, i)
    <3>1. /\ Rank(i) \in Routed /\ slots[Rank(i)] = Assembled(i) /\ plan[i] \in Calls
          /\ Assembled(i).args = Received(i) /\ Assembled(i).id = plan[i] /\ IsCall(i)
      BY <1>1, <2>1, GoodIsRouted DEF Good
    <3> DEFINE k == Rank(i) + 2
               x == b.blocks[k]
    <3>2. k \in DOMAIN outcome.blocks /\ x = CallOf(Rank(i))
      BY <1>2, <3>1
    <3>3. CallOf(Rank(i)) = ToolUse(plan[i], slots[Rank(i)].named, Received(i))
      BY <3>1 DEF CallOf
    <3>4. Parses(Received(i))
      BY <3>1, Zenon DEF Parses, Received, Piece
    <3>5. x.type = "tool_use" /\ x.id = plan[i] /\ x.valid = Parses(Received(i)) /\ x.body = Received(i)
      BY <3>2, <3>3 DEF ToolUse
    <3>6. Carries(k, i)
      <4>1. outcome.blocks[k] = x
        OBVIOUS
      <4> HIDE DEF x, k
      <4> QED BY <3>1, <3>4, <3>5, <4>1 DEF Carries
    <3> QED BY <3>2, <3>6
  <2>2. ASSUME NEW i \in Parts, ~IsCall(i), Whole(i), Rejected = {}
        PROVE  \E k \in DOMAIN outcome.blocks : Carries(k, i)
    <3>1. FramesOf(i) > 0 /\ sent[i] = FramesOf(i)
      BY <1>1, <2>2, PlanTypes DEF Whole
    <3>2. i \in Texts
      BY <2>2, <3>1 DEF Texts
    <3>3. texted
      BY <1>1, <3>2 DEF InSlots
    <3>4. n > 0 /\ \E k \in 1..Len(b.blocks[1].body) : b.blocks[1].body[k] = Piece(i, 1)
      BY <1>3, <3>2, <3>3 DEF HasText
    <3> DEFINE x == b.blocks[1]
               q == x.body
    <3>5. 1 \in 1..n /\ x.type = "text"
      BY <1>2, <1>4, <3>4
    <3>6. x \in Blocks
      <4> DEFINE w == b.blocks
      <4>1. w \in Seq(Blocks) /\ 1 \in DOMAIN w
        BY <1>2, <3>5
      <4> HIDE DEF w
      <4>2. w[1] \in Blocks
        BY <4>1
      <4> QED BY <4>2 DEF w
    <3>7. q \in Seq(AnyPiece)
      BY <3>6 DEF Blocks
    <3> HIDE DEF q
    <3>8. Piece(i, 1) \in {q[j] : j \in DOMAIN q}
      BY <3>4, <3>7 DEF q
    <3> QED BY <1>2, <2>2, <3>5, <3>8 DEF Carries, q
  <2>3. ASSUME NEW i \in Parts, NEW j \in Parts, NEW k \in Tools(outcome), NEW l \in Tools(outcome),
               Good(i) /\ Good(j) /\ Carries(k, i) /\ Carries(l, j)
        PROVE  i < j <=> k < l
    <3>1. k = Rank(i) + 2 /\ l = Rank(j) + 2 /\ IsCall(i) /\ IsCall(j) /\ Rank(i) \in Nat /\ Rank(j) \in Nat
      BY <1>9, <2>3
    <3>2. i < j <=> Rank(i) < Rank(j)
      BY <1>4, <3>1
    <3> QED BY <3>1, <3>2
  <2>4. ASSUME NEW i \in Parts, IsCall(i), sent[i] > 0, plan[i] \in Nameless
        PROVE  \E k \in DOMAIN outcome.blocks : Note \in ToSet(outcome.blocks[k].body)
    <3>1. i \in OpenedCalls
      BY <2>4 DEF OpenedCalls
    <3>2. Rank(i) \in DOMAIN slots /\ slots[Rank(i)].named = FALSE
      <4>1. Rank(i) \in DOMAIN slots /\ slots[Rank(i)] = Assembled(i)
        BY <1>4, <3>1
      <4>2. Assembled(i).named = (plan[i] \notin Nameless)
        BY DEF Assembled
      <4> QED BY <2>4, <4>1, <4>2
    <3>3. Rank(i) \in Rejected
      BY <3>2 DEF Rejected, Routable
    <3>4. Noted
      BY <1>3, <3>3 DEF Noted, Fault
    <3> DEFINE x == b.blocks[1]
               q == x.body
    <3>5. PICK k \in 1..Len(q) : q[k] = Note
      BY <1>3, <3>4
    <3>6. 1 \in 1..n
      BY <1>2, <1>3, <3>4
    <3>7. x \in Blocks
      <4> DEFINE w == b.blocks
      <4>1. w \in Seq(Blocks) /\ 1 \in DOMAIN w
        BY <1>2, <3>6
      <4> HIDE DEF w
      <4>2. w[1] \in Blocks
        BY <4>1
      <4> QED BY <4>2 DEF w
    <3>8. q \in Seq(AnyPiece)
      BY <3>7 DEF Blocks
    <3> HIDE DEF q
    <3>9. Note \in {q[j] : j \in DOMAIN q}
      BY <3>5, <3>8
    <3> QED BY <1>2, <3>6, <3>9 DEF ToSet, q
  <2> QED BY <2>1, <2>2, <2>3, <2>4 DEF WholePartsSurvive
<1>11. CallsAreRun
  <2> SUFFICES ASSUME NEW k \in Tools(outcome), outcome.blocks[k].valid
               PROVE  outcome.stop = "ToolUse"
    BY DEF CallsAreRun
  <2>1. PICK i \in OpenedCalls : Rank(i) \in Routed /\ b.blocks[k].valid = Parses(slots[Rank(i)].args)
    BY <1>6
  <2>2. Rank(i) \in Executable
    BY <2>1 DEF Executable, Routed
  <2>3. StopFor(finish) = "ToolUse"
    BY <2>2 DEF StopFor
  <2> QED BY <1>3, <2>3 DEF NoStop
<1> QED BY <1>7, <1>8, <1>10, <1>11 DEF AnswerIsTrue, PartsArrive

\* what a consumer hears to the end becomes a true answer
LEMMA ResponseIsTrue ==
    ASSUME Behaved, closed # "no", NEW b, Says(b), outcome = into_response(b)
    PROVE  AnswerIsTrue /\ outcome.kind \in {"ok", "err"} /\ (outcome.kind # "ok" => outcome.blocks = <<>>)
<1>1. CASE b.failed = TRUE
  <2>1. outcome = Refused
    BY <1>1 DEF into_response
  <2>2. AnswerIsTrue
    BY <1>1, <2>1, RefusedIsTrue
  <2>3. outcome.kind = "err" /\ outcome.blocks = <<>>
    BY <2>1 DEF Refused
  <2> QED BY <2>2, <2>3
<1>2. CASE b.failed # TRUE
  <2>1. ~Faulty /\ Accumulator(b)
    BY <1>2 DEF Says
  <2>2. b.failed = FALSE /\ closed = "eof"
    <3>1. closed = "eof"
      BY <2>1 DEF Behaved, Types1, Faulty
    <3> QED BY <1>2, <2>1, <3>1 DEF Says, ReasonTold, Finalized, FinalizedAs
  <2>3. CASE ~(b.stop = NoStop /\ ~b.terminal)
    <3>1. outcome = [kind |-> "ok", blocks |-> b.blocks, stop |-> IF b.stop = NoStop THEN "EndTurn" ELSE b.stop]
      BY <2>2, <2>3 DEF into_response
    <3>2. /\ outcome.kind = "ok" /\ outcome.blocks = b.blocks
          /\ outcome.stop = IF b.stop = NoStop THEN "EndTurn" ELSE b.stop
      BY <3>1
    <3>3. CASE reader \notin OpenAI
      BY <2>1, <2>3, <3>2, <3>3, PartsAnswer DEF Says
    <3>4. CASE reader \in OpenAI
      BY <2>1, <2>2, <3>2, <3>4, SlotsAnswer DEF Says
    <3> QED BY <3>2, <3>3, <3>4
  <2>4. CASE b.stop = NoStop /\ ~b.terminal
    <3>1. outcome = Refused
      BY <2>4 DEF into_response
    <3>2. outcome.kind = "err" /\ outcome.blocks = <<>>
      BY <3>1 DEF Refused
    <3>3. reader \notin OpenAI
      BY <2>1, <2>2, <2>4 DEF Says, Finalized, FinalizedAs
    <3>4. ReasonTold(b)
      BY <2>1, <3>3 DEF Says
    <3>5. ~Decided
      BY <2>2, <2>4, <3>3, <3>4 DEF ReasonTold, Decided, Behaved, Types1, Readers, OpenAI
    <3>6. AnswerIsTrue
      BY <3>2, <3>5, NoAnswerIsTrue
    <3> QED BY <3>2, <3>6
  <2> QED BY <2>3, <2>4
<1> QED BY <1>1, <1>2

(***************************************************************************)
(* The steps. What is said of the events on their way depends on what the  *)
(* provider sent and on what the reader put together.                      *)
(***************************************************************************)
\* what the state functions depend on
LEMMA SameTools ==
    ASSUME UNCHANGED <<reader, plan, slots, texted>>
    PROVE  /\ \A s : CallOf(s)' = CallOf(s) /\ Routed' = Routed /\ Rejected' = Rejected
           /\ Emitted' = Emitted /\ Executable' = Executable
           /\ \A given : StopFor(given)' = StopFor(given)
           /\ \A done : Fault(done)' = Fault(done)
           /\ Noted' = Noted
<1>1. \A s : Routable(s)' = Routable(s)
  BY DEF Routable
<1>2. \A s : CallOf(s)' = CallOf(s)
  BY DEF CallOf
<1>3. Routed' = Routed /\ Rejected' = Rejected
  BY <1>1 DEF Routed, Rejected
<1>4. Emitted' = Emitted
  BY Zenon DEF Emitted, Routable
<1>5. Executable' = Executable
  BY <1>1 DEF Executable
<1>6. \A given : StopFor(given)' = StopFor(given)
  BY <1>4, <1>5 DEF StopFor
<1>7. \A done : Fault(done)' = Fault(done)
  BY <1>3, <1>4 DEF Fault
<1>8. Noted' = Noted
  BY <1>3, <1>4 DEF Noted
<1> QED BY <1>2, <1>3, <1>4, <1>5, <1>6, <1>7, <1>8

LEMMA SamePlan ==
    ASSUME UNCHANGED <<reader, plan>>
    PROVE  /\ Parts' = Parts /\ TakesTurns' = TakesTurns
           /\ \A i : /\ IsCall(i)' = IsCall(i) /\ Size(i)' = Size(i) /\ FramesOf(i)' = FramesOf(i)
                     /\ Rank(i)' = Rank(i)
                     /\ \A n : Piece(i, n)' = Piece(i, n) /\ Body(i, n)' = Body(i, n)
<1>1. Parts' = Parts /\ TakesTurns' = TakesTurns
  BY DEF Parts, TakesTurns
<1>2. \A i : IsCall(i)' = IsCall(i)
  BY DEF IsCall
<1>3. \A i : Size(i)' = Size(i)
  BY <1>2 DEF Size
<1>4. \A i : FramesOf(i)' = FramesOf(i)
  BY <1>2, <1>3 DEF FramesOf
<1>5. \A i : Rank(i)' = Rank(i)
  BY <1>1, <1>2 DEF Rank
<1>6. \A i, n : Piece(i, n)' = Piece(i, n)
  BY DEF Piece
<1>7. \A i, n : Body(i, n)' = Body(i, n)
  BY <1>6 DEF Body
<1> QED BY <1>1, <1>2, <1>3, <1>4, <1>5, <1>6, <1>7

LEMMA SameSent ==
    ASSUME UNCHANGED <<reader, plan, sent>>
    PROVE  /\ \A i : /\ Whole(i)' = Whole(i) /\ Got(i)' = Got(i) /\ Block(i)' = Block(i)
                     /\ Assembled(i)' = Assembled(i) /\ Good(i)' = Good(i)
           /\ Texts' = Texts /\ OpenedCalls' = OpenedCalls /\ SawCalls' = SawCalls
           /\ \A q : HasText(q)' = HasText(q)
           /\ Before' = Before
<1>1. /\ Parts' = Parts /\ TakesTurns' = TakesTurns
      /\ \A i : /\ IsCall(i)' = IsCall(i) /\ Size(i)' = Size(i) /\ FramesOf(i)' = FramesOf(i)
                /\ \A n : Piece(i, n)' = Piece(i, n) /\ Body(i, n)' = Body(i, n)
  BY SamePlan
<1>2. \A i : Whole(i)' = Whole(i)
  BY <1>1 DEF Whole
<1>3. \A i : Got(i)' = Got(i)
  BY <1>1 DEF Got
<1>4. \A i : Block(i)' = Block(i)
  <2> TAKE i
  <2>1. IsCall(i)' = IsCall(i) /\ Body(i, Got(i))' = Body(i, Got(i))
    BY <1>1, <1>3 DEF Body
  <2> QED BY <2>1, Zenon DEF Block
<1>5. \A i : Assembled(i)' = Assembled(i)
  <2> TAKE i
  <2>1. Body(i, sent[i] - 1)' = Body(i, sent[i] - 1)
    BY <1>1 DEF Body
  <2> QED BY <2>1, Zenon DEF Assembled
<1>6. \A i : Good(i)' = Good(i)
  BY <1>1, <1>2 DEF Good
<1>7. Texts' = Texts
  BY <1>1 DEF Texts
<1>8. OpenedCalls' = OpenedCalls
  BY <1>1 DEF OpenedCalls
<1>9. SawCalls' = SawCalls
  BY <1>1 DEF SawCalls
<1>10. \A q : HasText(q)' = HasText(q)
  BY <1>1, <1>7 DEF HasText
<1>11. Before' = Before
  BY <1>1, <1>2 DEF Before
<1> QED BY <1>2, <1>3, <1>4, <1>5, <1>6, <1>7, <1>8, <1>9, <1>10, <1>11

LEMMA SameSaid ==
    ASSUME UNCHANGED <<provider, closed, local>>
    PROVE  /\ \A b : Says(b)' = Says(b)
           /\ (reader \in OpenAI => InSlots)' = (reader \in OpenAI => InSlots)
<1>0. UNCHANGED <<reader, plan, sent, finish, ended, closed, slots, slotOf, last, texted, block>>
  BY DEF provider, local
<1>1. /\ Parts' = Parts /\ \A i : /\ IsCall(i)' = IsCall(i) /\ Rank(i)' = Rank(i)
                                  /\ \A n : Piece(i, n)' = Piece(i, n)
  BY <1>0, SamePlan
<1>2. /\ \A i : Whole(i)' = Whole(i) /\ Got(i)' = Got(i) /\ Block(i)' = Block(i) /\ Assembled(i)' = Assembled(i)
      /\ Texts' = Texts /\ OpenedCalls' = OpenedCalls /\ SawCalls' = SawCalls
      /\ \A q : HasText(q)' = HasText(q)
  BY <1>0, SameSent
<1>3. /\ \A s : CallOf(s)' = CallOf(s) /\ Routed' = Routed
      /\ \A given : StopFor(given)' = StopFor(given)
      /\ \A done : Fault(done)' = Fault(done)
      /\ Noted' = Noted
  BY <1>0, SameTools
<1>4. Faulty' = Faulty
  BY <1>0 DEF Faulty
<1>5. \A i : Stopped(i)' = Stopped(i)
  BY <1>0, <1>2 DEF Stopped
<1>6. \A i : Built(Block(i))' = Built(Block(i))
  BY <1>2 DEF Built
<1>7. \A b : InParts(b)' = InParts(b)
  BY <1>0, <1>1, <1>2, <1>5, <1>6 DEF InParts
<1>8. \A b : ReasonTold(b)' = ReasonTold(b)
  BY <1>0, <1>2 DEF ReasonTold
<1>9. \A b : Streamed(b)' = Streamed(b)
  BY <1>0, <1>2 DEF Streamed
<1>10. \A b : Finalized(b)' = Finalized(b)
  <2> TAKE b
  <2>1. StopFor(finish)' = StopFor(finish) /\ Fault(ended)' = Fault(ended)
    BY <1>0, <1>3 
  <2>2. HasText(b.blocks[1].body)' = HasText(b.blocks[1].body)
    BY <1>2
  <2> QED BY <1>0, <1>3, <2>1, <2>2 DEF Finalized, FinalizedAs
<1>11. \A b : Says(b)' = Says(b)
  BY <1>0, <1>4, <1>7, <1>8, <1>9, <1>10 DEF Says
<1>12. InSlots' = InSlots
  BY <1>0, <1>1, <1>2 DEF InSlots
<1> QED BY <1>0, <1>11, <1>12

LEMMA SameAnswer ==
    ASSUME UNCHANGED <<provider, closed, slots, texted, outcome>>
    PROVE  AnswerIsTrue' = AnswerIsTrue
<1>0. UNCHANGED <<reader, plan, sent, finish, ended, closed, slots, outcome>>
  BY DEF provider
<1>1. /\ Parts' = Parts /\ \A i : IsCall(i)' = IsCall(i) /\ \A n : Piece(i, n)' = Piece(i, n)
  BY <1>0, SamePlan
<1>2. \A i : Whole(i)' = Whole(i) /\ Good(i)' = Good(i)
  BY <1>0, SameSent
<1>3. Rejected' = Rejected
  BY SameTools, <1>0
<1>4. Tools(outcome)' = Tools(outcome)
  BY <1>0 DEF Tools
<1>5. AnswerWasEnded' = AnswerWasEnded
  BY <1>0, <1>1 DEF AnswerWasEnded
<1>6. ArgumentsStayApart' = ArgumentsStayApart
  BY <1>0, <1>4 DEF ArgumentsStayApart
<1>7. Decided' = Decided
  BY <1>0 DEF Decided
<1>8. \A i : Received(i)' = Received(i)
  BY <1>0, <1>1 DEF Received
<1>9. \A k, i : Carries(k, i)' = Carries(k, i)
  BY <1>0, <1>1, <1>8 DEF Carries
<1>10. WholePartsSurvive' = WholePartsSurvive
  BY <1>0, <1>1, <1>2, <1>3, <1>4, <1>7, <1>9 DEF WholePartsSurvive
<1>11. CallsAreRun' = CallsAreRun
  BY <1>0, <1>4 DEF CallsAreRun
<1> QED BY <1>5, <1>6, <1>10, <1>11 DEF AnswerIsTrue, PartsArrive

(***************************************************************************)
(* The channel and the consumer.                                           *)
(***************************************************************************)
LEMMA SendKeeps == ASSUME AnswerInv, Send PROVE AnswerInv'
<1>1. /\ running /\ outbox # <<>> /\ UNCHANGED <<provider, closed, local, taking>>
      /\ UNCHANGED <<reader, plan, sent, finish, ended, closed, slots, slotOf, last, texted, block,
                     consumer, acc, outcome>>
  BY DEF Send, provider, local, taking
<1>2. (\A b : Says(b)' = Says(b)) /\ (reader \in OpenAI => InSlots)' = (reader \in OpenAI => InSlots)
  BY <1>1, SameSaid
<1>3. Parts' = Parts /\ (\A i : FramesOf(i)' = FramesOf(i)) /\ Before' = Before
  BY <1>1, SamePlan, SameSent
<1>4. AnswerIsTrue' = AnswerIsTrue
  BY <1>1, SameAnswer
<1>5. Gone' = Gone
  BY <1>1 DEF Gone
<1>6. CASE ~Gone
  <2>1. chan' = Append(chan, Head(outbox)) /\ outbox' = Tail(outbox) /\ running' = running
    BY <1>6 DEF Send
  <2>2. chan \in Seq(Events) /\ outbox \in Seq(Events)
    BY <1>6 DEF AnswerInv, Types1, Flowing
  <2>3. chan' \in Seq(Events) /\ outbox' \in Seq(Events) /\ chan' \o outbox' = chan \o outbox
    BY <1>1, <2>1, <2>2
  <2>4. Types1'
    BY <1>1, <1>3, <2>1, <2>3 DEF AnswerInv, Types1, Accumulator, Record
  <2>5. Phases'
    BY <1>1, <1>3, <1>5, <2>1 DEF AnswerInv, Phases
  <2>6. Concluded'
    BY <1>5, <1>6 DEF Concluded
  <2>7. Flowing'
    BY <1>1, <1>2, <1>6, <2>3 DEF AnswerInv, Flowing
  <2> QED BY <1>2, <1>3, <2>4, <2>5, <2>6, <2>7 DEF AnswerInv
<1>7. CASE Gone
  <2>1. chan' = chan
    BY <1>7 DEF Send
  <2>2. running' \in BOOLEAN
    BY <1>7 DEF Send, AnswerInv, Types1
  <2>4. Types1'
    BY <1>1, <1>3, <2>1, <2>2 DEF AnswerInv, Types1, Accumulator, Record
  <2>5. Phases'
    BY <1>1, <1>3, <1>5, <1>7 DEF AnswerInv, Phases
  <2>6. Concluded'
    BY <1>1, <1>4, <1>5, <1>7, <2>1 DEF AnswerInv, Concluded
  <2>7. Flowing'
    BY <1>5, <1>7 DEF Flowing
  <2> QED BY <1>2, <1>3, <2>4, <2>5, <2>6, <2>7 DEF AnswerInv
<1> QED BY <1>6, <1>7

LEMMA ReturnKeeps == ASSUME AnswerInv, Return PROVE AnswerInv'
<1>1. /\ running /\ closed # "no" /\ outbox = <<>> /\ running' = FALSE
      /\ UNCHANGED <<provider, closed, local, taking>>
      /\ UNCHANGED <<reader, plan, sent, finish, ended, closed, slots, slotOf, last, texted, block,
                     chan, outbox, consumer, acc, outcome>>
  BY DEF Return, provider, local, taking
<1>2. (\A b : Says(b)' = Says(b)) /\ (reader \in OpenAI => InSlots)' = (reader \in OpenAI => InSlots)
  BY <1>1, SameSaid
<1>3. Parts' = Parts /\ (\A i : FramesOf(i)' = FramesOf(i)) /\ Before' = Before
  BY <1>1, SamePlan, SameSent
<1>4. AnswerIsTrue' = AnswerIsTrue
  BY <1>1, SameAnswer
<1>5. Gone' = Gone
  BY <1>1 DEF Gone
<1>6. Types1'
  BY <1>1, <1>3 DEF AnswerInv, Types1, Accumulator, Record
<1>7. Phases'
  BY <1>1, <1>3, <1>5 DEF AnswerInv, Phases
<1>8. Concluded'
  BY <1>1, <1>4, <1>5 DEF AnswerInv, Concluded
<1>9. Flowing'
  BY <1>1, <1>2, <1>5 DEF AnswerInv, Flowing
<1> QED BY <1>2, <1>3, <1>6, <1>7, <1>8, <1>9 DEF AnswerInv

LEMMA OverKeeps == ASSUME AnswerInv, UNCHANGED vars PROVE AnswerInv'
<1>1. /\ UNCHANGED <<provider, closed, local, taking>>
      /\ UNCHANGED <<reader, plan, sent, finish, ended, closed, slots, slotOf, last, texted, block,
                     chan, outbox, running, consumer, acc, outcome>>
  BY DEF vars, provider, local, taking
<1>2. (\A b : Says(b)' = Says(b)) /\ (reader \in OpenAI => InSlots)' = (reader \in OpenAI => InSlots)
  BY <1>1, SameSaid
<1>3. Parts' = Parts /\ (\A i : FramesOf(i)' = FramesOf(i)) /\ Before' = Before
  BY <1>1, SamePlan, SameSent
<1>4. AnswerIsTrue' = AnswerIsTrue
  BY <1>1, SameAnswer
<1>5. Gone' = Gone
  BY <1>1 DEF Gone
<1>6. Types1'
  BY <1>1, <1>3 DEF AnswerInv, Types1, Accumulator, Record
<1>7. Phases'
  BY <1>1, <1>3, <1>5 DEF AnswerInv, Phases
<1>8. Concluded'
  BY <1>1, <1>4, <1>5 DEF AnswerInv, Concluded
<1>9. Flowing'
  BY <1>1, <1>2, <1>5 DEF AnswerInv, Flowing
<1> QED BY <1>2, <1>3, <1>6, <1>7, <1>8, <1>9 DEF AnswerInv

\* the consumer gives up: what it leaves behind is no answer
LEMMA DroppedIsTrue == outcome = Dropped => AnswerIsTrue
<1> SUFFICES ASSUME outcome = Dropped PROVE AnswerIsTrue
  OBVIOUS
<1>1. outcome.kind = "dropped" /\ outcome.blocks = <<>>
  BY DEF Dropped
<1>2. ~Decided
  BY <1>1 DEF Decided
<1> QED BY <1>1, <1>2, NoAnswerIsTrue

LEMMA DropKeeps == ASSUME AnswerInv, Drop PROVE AnswerInv'
<1>1. /\ ~Gone /\ outcome' = Dropped /\ chan' = <<>>
      /\ UNCHANGED <<provider, closed, local>>
      /\ UNCHANGED <<reader, plan, sent, finish, ended, closed, slots, slotOf, last, texted, block,
                     outbox, running, consumer, acc>>
  BY DEF Drop, provider, local
<1>2. (reader \in OpenAI => InSlots)' = (reader \in OpenAI => InSlots)
  BY <1>1, SameSaid
<1>3. Parts' = Parts /\ (\A i : FramesOf(i)' = FramesOf(i)) /\ Before' = Before
  BY <1>1, SamePlan, SameSent
<1>4. AnswerIsTrue'
  <2>1. (outcome = Dropped => AnswerIsTrue)'
    BY DroppedIsTrue, PTL
  <2>2. (outcome = Dropped)'
    BY <1>1 DEF Dropped
  <2> QED BY <2>1, <2>2
<1>5. outcome'.kind = "dropped" /\ outcome'.blocks = <<>> /\ Gone'
  BY <1>1 DEF Dropped, Gone, Pending
<1>6. Types1'
  <2>1. chan' \in Seq(Events)
    BY <1>1
  <2> QED BY <1>1, <1>3, <2>1 DEF AnswerInv, Types1, Accumulator, Record
<1>7. Phases'
  BY <1>1, <1>3, <1>5 DEF AnswerInv, Phases
<1>8. Concluded'
  BY <1>1, <1>4, <1>5 DEF Concluded
<1>9. Flowing'
  BY <1>5 DEF Flowing
<1> QED BY <1>2, <1>3, <1>6, <1>7, <1>8, <1>9 DEF AnswerInv

Failed(b) == b.failed = TRUE

LEMMA RefusalIsTrue ==
    \A b : Behaved /\ Says(b) /\ Failed(b) /\ outcome = Refused => AnswerIsTrue
BY RefusedIsTrue DEF Failed

LEMMA AnsweredIsTrue ==
    \A b : Behaved /\ closed # "no" /\ Says(b) /\ outcome = into_response(b) =>
             AnswerIsTrue /\ outcome.kind \in {"ok", "err"} /\ (outcome.kind # "ok" => outcome.blocks = <<>>)
BY ResponseIsTrue

LEMMA TakeKeeps == ASSUME AnswerInv, Take PROVE AnswerInv'
<1>0. (\A b : Behaved /\ Says(b) /\ Failed(b) /\ outcome = Refused => AnswerIsTrue)'
  BY RefusalIsTrue, PTL
<1>1. /\ ~Gone /\ chan # <<>>
      /\ UNCHANGED <<provider, closed, local>>
      /\ UNCHANGED <<reader, plan, sent, finish, ended, closed, slots, slotOf, last, texted, block,
                     outbox, running, consumer>>
  BY DEF Take, provider, local
<1>2. (\A b : Says(b)' = Says(b)) /\ (reader \in OpenAI => InSlots)' = (reader \in OpenAI => InSlots)
  BY <1>1, SameSaid
<1>3. Parts' = Parts /\ (\A i : FramesOf(i)' = FramesOf(i)) /\ Before' = Before
  BY <1>1, SamePlan, SameSent
<1>4. chan \in Seq(Events) /\ outbox \in Seq(Events) /\ Accumulator(acc) /\ outcome = Pending
  BY <1>1 DEF AnswerInv, Types1, Flowing
<1>5. PICK b : Heard(acc, chan \o outbox, b) /\ Says(b)
  BY <1>1 DEF AnswerInv, Flowing
<1> DEFINE e == Head(chan)
           a == process_event(acc, e)
<1>6. /\ e \in Events /\ chan \o outbox \in Seq(Events) /\ chan \o outbox # <<>>
      /\ Head(chan \o outbox) = e /\ Tail(chan \o outbox) = Tail(chan) \o outbox
      /\ Tail(chan) \in Seq(Events) /\ Tail(chan) \o outbox \in Seq(Events)
  BY <1>1, <1>4
<1> HIDE DEF e
<1>7. Accumulator(a)
  BY <1>4, <1>6, Accumulates
<1>8. Heard(a, Tail(chan) \o outbox, b)
  <2> DEFINE es == chan \o outbox
  <2>1. es \in Seq(Events) /\ es # <<>> /\ Head(es) = e /\ Tail(es) = Tail(chan) \o outbox /\ Heard(acc, es, b)
    BY <1>5, <1>6
  <2> HIDE DEF es
  <2>2. Heard(process_event(acc, Head(es)), Tail(es), b)
    BY <2>1, HeardFirst
  <2> QED BY <2>1, <2>2
<1>9. CASE e.kind = "error" /\ consumer = "collect"
  <2>1. outcome' = Refused /\ chan' = <<>> /\ acc' = acc
    BY <1>9 DEF Take, e
  <2>2. a.failed = TRUE
    <3>1. a = [acc EXCEPT !.failed = TRUE]
      BY <1>9 DEF process_event
    <3> HIDE DEF a
    <3>2. EndedAs(acc, a, acc.stop, TRUE, acc.terminal)
      BY <1>4, <3>1, EndedIs
    <3> QED BY <3>2 DEF EndedAs
  <2> HIDE DEF a
  <2>3. b.failed = TRUE
    <3> DEFINE es == Tail(chan) \o outbox
    <3>1. es \in Seq(Events) /\ Heard(a, es, b)
      BY <1>6, <1>8
    <3> HIDE DEF es
    <3> QED BY <1>7, <2>2, <3>1, FailureStays
  <2>4. outcome'.kind = "err" /\ outcome'.blocks = <<>> /\ Gone'
    BY <2>1 DEF Refused, Gone, Pending
  <2>5. closed # "no" \/ finish = "trouble"
    <3>1. Behaved
      BY DEF AnswerInv, Behaved
    <3> QED BY <1>5, <2>3, <3>1, FailedIsEmpty
  <2>6. Types1'
    <3>1. chan' \in Seq(Events)
      BY <2>1
    <3> QED BY <1>1, <1>3, <2>1, <3>1 DEF AnswerInv, Types1, Accumulator, Record
  <2>7. Phases'
    BY <1>1, <1>3, <2>4 DEF AnswerInv, Phases
  <2>8. AnswerIsTrue'
    <3>2. Behaved'
      BY <1>2, <1>3, <2>6, <2>7 DEF Behaved, AnswerInv
    <3>3. Says(b)'
      BY <1>2, <1>5
    <3>4. (outcome = Refused)'
      BY <2>1 DEF Refused
    <3> QED BY <1>0, <2>3, <3>2, <3>3, <3>4 DEF Failed
  <2>9. Concluded'
    BY <1>1, <2>1, <2>4, <2>5, <2>8 DEF Concluded
  <2>10. Flowing'
    BY <2>4 DEF Flowing
  <2> QED BY <1>2, <1>3, <2>6, <2>7, <2>9, <2>10 DEF AnswerInv
<1>10. CASE ~(e.kind = "error" /\ consumer = "collect")
  <2>1. outcome' = outcome /\ chan' = Tail(chan) /\ acc' = a
    BY <1>10 DEF Take, e
  <2> HIDE DEF a
  <2>2. Gone' = Gone
    BY <2>1 DEF Gone
  <2>3. Types1'
    <3>1. Accumulator(acc)'
      BY <1>7, <2>1 DEF Accumulator, Record
    <3> QED BY <1>1, <1>3, <1>6, <2>1, <3>1 DEF AnswerInv, Types1
  <2>4. Phases'
    BY <1>1, <1>3, <2>2 DEF AnswerInv, Phases
  <2>5. Concluded'
    BY <1>1, <2>2 DEF Concluded
  <2>6. Flowing'
    <3>1. Heard(acc', chan' \o outbox', b) /\ Says(b)'
      BY <1>1, <1>2, <1>5, <1>8, <2>1
    <3> QED BY <1>1, <1>4, <2>1, <3>1 DEF Flowing, Heard
  <2> QED BY <1>2, <1>3, <2>3, <2>4, <2>5, <2>6 DEF AnswerInv
<1> QED BY <1>9, <1>10

LEMMA FinishKeeps == ASSUME AnswerInv, Finish PROVE AnswerInv'
<1>1. /\ ~Gone /\ chan = <<>> /\ ~running /\ outcome' = into_response(acc)
      /\ UNCHANGED <<provider, closed, local>>
      /\ UNCHANGED <<reader, plan, sent, finish, ended, closed, slots, slotOf, last, texted, block,
                     outbox, chan, running, consumer, acc>>
  BY DEF Finish, provider, local
<1>2. (\A b : Says(b)' = Says(b)) /\ (reader \in OpenAI => InSlots)' = (reader \in OpenAI => InSlots)
  BY <1>1, SameSaid
<1>3. Parts' = Parts /\ (\A i : FramesOf(i)' = FramesOf(i)) /\ Before' = Before
  BY <1>1, SamePlan, SameSent
<1>4. closed # "no" /\ outbox = <<>>
  BY <1>1 DEF AnswerInv, Phases
<1>5. Says(acc)
  <2>1. PICK b : Heard(acc, chan \o outbox, b) /\ Says(b)
    BY <1>1 DEF AnswerInv, Flowing
  <2>2. chan \o outbox = <<>>
    BY <1>1, <1>4
  <2>3. Heard(acc, <<>>, b)
    BY <2>1, <2>2
  <2>4. b = acc
    BY <2>3, HeardNothing
  <2> QED BY <2>1, <2>4
<1>6. Types1'
  BY <1>1, <1>3 DEF AnswerInv, Types1, Accumulator, Record
<1>7. Phases'
  BY <1>1, <1>3, <1>4 DEF AnswerInv, Phases
<1>8. /\ AnswerIsTrue' /\ outcome'.kind \in {"ok", "err"}
      /\ (outcome'.kind # "ok" => outcome'.blocks = <<>>)
  <2>1. (\A b : Behaved /\ closed # "no" /\ Says(b) /\ outcome = into_response(b) =>
             AnswerIsTrue /\ outcome.kind \in {"ok", "err"} /\ (outcome.kind # "ok" => outcome.blocks = <<>>))'
    BY AnsweredIsTrue, PTL
  <2> DEFINE b == acc
  <2>2. Behaved'
    BY <1>2, <1>3, <1>6, <1>7 DEF Behaved, AnswerInv
  <2>3. Says(b)' 
    BY <1>1, <1>2, <1>5
  <2>4. (closed # "no")' /\ (outcome = into_response(b))'
    BY <1>1, <1>4 DEF into_response, Refused
  <2> QED BY <2>1, <2>2, <2>3, <2>4
<1>9. outcome' # Pending
  BY <1>8 DEF Pending
<1>10. Concluded'
  BY <1>1, <1>8 DEF Concluded
<1>11. Flowing'
  BY <1>9 DEF Flowing, Gone
<1> QED BY <1>2, <1>3, <1>6, <1>7, <1>10, <1>11 DEF AnswerInv

(***************************************************************************)
(* The reader's steps: it has sent all of the last frame.                  *)
(***************************************************************************)
LEMMA SameParts ==
    ASSUME UNCHANGED <<reader, plan, sent, finish>>
    PROVE  \A b : InParts(b)' = InParts(b)
<1>1. Parts' = Parts
  BY SamePlan
<1>2. \A i : Whole(i)' = Whole(i) /\ Block(i)' = Block(i)
  BY SameSent
<1>3. \A i : Stopped(i)' = Stopped(i)
  BY <1>2 DEF Stopped
<1>4. \A i : Built(Block(i))' = Built(Block(i))
  BY <1>2 DEF Built
<1> QED BY <1>1, <1>2, <1>3, <1>4 DEF InParts

LEMMA FinalizedThen ==
    ASSUME UNCHANGED <<reader, plan, sent, finish, slots, texted>>, NEW done \in BOOLEAN, ended' = done,
           NEW c, FinalizedAs(c, finish, done)
    PROVE  Finalized(c)'
<1>1. \A q : HasText(q)' = HasText(q)
  BY SameSent
<1>2. /\ \A s : CallOf(s)' = CallOf(s) /\ Routed' = Routed
      /\ \A given : StopFor(given)' = StopFor(given)
      /\ \A d : Fault(d)' = Fault(d)
      /\ Noted' = Noted
  BY SameTools
<1>3. StopFor(finish)' = StopFor(finish) /\ Fault(ended)' = Fault(done)
  BY <1>2
<1>4. HasText(c.blocks[1].body)' = HasText(c.blocks[1].body)
  BY <1>1
<1> QED BY <1>2, <1>3, <1>4 DEF Finalized, FinalizedAs

NoAnswer == outcome.kind # "ok" /\ outcome.blocks = <<>> /\ (Decided => Empty)

LEMMA EmptyIsTrue == NoAnswer => AnswerIsTrue
BY NoAnswerIsTrue DEF NoAnswer

LEMMA FrameConcludes ==
    ASSUME AnswerInv, Reading, UNCHANGED <<chan, running, taking>>, finish = "trouble" => finish' = "trouble"
    PROVE  Concluded'
<1>1. UNCHANGED <<chan, running, acc, outcome>> /\ running /\ closed = "no"
  BY DEF taking, Reading
<1>2. Gone' = Gone
  BY <1>1 DEF Gone
<1>3. CASE Gone
  <2>1. /\ chan = <<>> /\ outcome.kind # "ok" /\ outcome.blocks = <<>>
        /\ outcome.kind \in {"ok", "err", "dropped"}
        /\ outcome.kind = "err" => finish = "trouble"
    BY <1>1, <1>3 DEF AnswerInv, Concluded
  <2>2. AnswerIsTrue'
    <3>1. (NoAnswer => AnswerIsTrue)'
      BY EmptyIsTrue, PTL
    <3>2. ~Decided'
      BY <1>1, <2>1 DEF Decided
    <3> QED BY <1>1, <2>1, <3>1, <3>2 DEF NoAnswer
  <2> QED BY <1>1, <2>1, <2>2 DEF Concluded
<1>4. CASE ~Gone
  BY <1>2, <1>4 DEF Concluded
<1> QED BY <1>3, <1>4

LEMMA FrameFlows ==
    ASSUME AnswerInv, Reading, UNCHANGED <<chan, running, taking>>,
           \A b : Accumulator(b) /\ Says(b) => \E c : Hears(b, outbox', c) /\ Says(c)'
    PROVE  Flowing'
<1>1. UNCHANGED <<chan, acc, outcome>> /\ outbox = <<>>
  BY DEF taking, Reading
<1>2. Gone' = Gone
  BY <1>1 DEF Gone
<1>3. CASE ~Gone
  <2>1. outcome = Pending /\ chan \in Seq(Events)
    BY <1>3 DEF AnswerInv, Flowing, Types1
  <2>2. PICK b : Heard(acc, chan \o outbox, b) /\ Says(b)
    BY <1>3 DEF AnswerInv, Flowing
  <2>3. Heard(acc, chan, b) /\ Accumulator(b)
    <3>1. chan \o outbox = chan
      BY <1>1, <2>1
    <3> QED BY <2>2, <3>1 DEF Says
  <2>4. PICK c : Hears(b, outbox', c) /\ Says(c)'
    BY <2>2, <2>3
  <2> DEFINE es == outbox'
  <2>5. es \in Seq(Events) /\ Heard(b, es, c)
    BY <2>4 DEF Hears
  <2>6. Heard(acc, chan \o es, c)
    <3> HIDE DEF es
    <3> QED BY <2>1, <2>3, <2>5, HeardMore
  <2>7. Heard(acc', chan' \o outbox', c)
    BY <1>1, <2>6
  <2> QED BY <1>1, <2>1, <2>4, <2>5, <2>7 DEF Flowing, Heard
<1>4. CASE Gone
  BY <1>2, <1>4 DEF Flowing
<1> QED BY <1>3, <1>4

LEMMA ErrorFrameKeeps == ASSUME AnswerInv, ErrorFrame PROVE AnswerInv'
<1>1. /\ reader = "anthropic" /\ Reading /\ finish = NoStop /\ finish' = "trouble"
      /\ outbox' = << Error >>
      /\ UNCHANGED <<chan, running, taking>>
      /\ UNCHANGED <<reader, plan, sent, ended, closed, slots, slotOf, last, texted, block,
                     chan, running, consumer, acc, outcome>>
  BY DEF ErrorFrame, local, taking
<1>2. Parts' = Parts /\ (\A i : FramesOf(i)' = FramesOf(i)) /\ Before' = Before
  BY <1>1, SamePlan, SameSent
<1>3. Gone' = Gone /\ finish # "trouble"
  BY <1>1 DEF Gone, NoStop
<1>4. Types1'
  BY <1>1, <1>2 DEF AnswerInv, Types1, Accumulator, Record
<1>5. Phases'
  BY <1>1, <1>2, <1>3 DEF AnswerInv, Phases, Reading
<1>6. Concluded'
  BY <1>1, <1>3, FrameConcludes
<1>7. (reader \in OpenAI => InSlots)'
  BY <1>1 DEF OpenAI
<1>8. ASSUME NEW b, Accumulator(b), Says(b)
      PROVE  \E c : Hears(b, outbox', c) /\ Says(c)'
  <2> DEFINE e == Error
             c == process_event(b, e)
  <2>1. e \in Events /\ outbox' = <<e>>
    BY <1>1, EventTypes
  <2>2. EndedAs(b, c, b.stop, TRUE, b.terminal)
    BY <1>8, ErrorOf
  <2> HIDE DEF e
  <2>3. Hears(b, outbox', c)
    BY <2>1, HearsOne
  <2> HIDE DEF c
  <2>4. Says(c)'
    BY <1>1, <2>2 DEF EndedAs, Says, Faulty, Accumulator, Record
  <2> QED BY <2>3, <2>4
<1>9. Flowing'
  BY <1>1, <1>8, FrameFlows
<1> QED BY <1>2, <1>4, <1>5, <1>6, <1>7, <1>9 DEF AnswerInv

LEMMA BreakKeeps == ASSUME AnswerInv, Break PROVE AnswerInv'
<1>1. /\ Reading /\ closed' = "reset"
      /\ outbox' = << Error >>
      /\ UNCHANGED <<chan, running, taking>>
      /\ UNCHANGED <<reader, plan, sent, finish, ended, slots, slotOf, last, texted, block,
                     chan, running, consumer, acc, outcome>>
  BY DEF Break, BreakWith, provider, local, taking
<1>2. Parts' = Parts /\ (\A i : FramesOf(i)' = FramesOf(i) /\ Rank(i)' = Rank(i)) /\ Before' = Before
  BY <1>1, SamePlan, SameSent
<1>3. Gone' = Gone
  BY <1>1 DEF Gone
<1>4. Types1'
  BY <1>1, <1>2 DEF AnswerInv, Types1, Accumulator, Record
<1>5. Phases'
  BY <1>1, <1>2, <1>3 DEF AnswerInv, Phases, Reading
<1>6. Concluded'
  BY <1>1, FrameConcludes
<1>7. (reader \in OpenAI => InSlots)'
  <2>1. (\A i : Assembled(i)' = Assembled(i)) /\ Texts' = Texts /\ OpenedCalls' = OpenedCalls
    BY <1>1, SameSent
  <2> QED BY <1>1, <1>2, <2>1 DEF AnswerInv, InSlots
<1>8. ASSUME NEW b, Accumulator(b), Says(b)
      PROVE  \E c : Hears(b, outbox', c) /\ Says(c)'
  <2> DEFINE e == Error
             c == process_event(b, e)
  <2>1. e \in Events /\ outbox' = <<e>>
    BY <1>1, EventTypes
  <2>2. EndedAs(b, c, b.stop, TRUE, b.terminal)
    BY <1>8, ErrorOf
  <2> HIDE DEF e
  <2>3. Hears(b, outbox', c)
    BY <2>1, HearsOne
  <2> HIDE DEF c
  <2>4. Says(c)'
    BY <1>1, <2>2 DEF EndedAs, Says, Faulty, Accumulator, Record
  <2> QED BY <2>3, <2>4
<1>9. Flowing'
  BY <1>1, <1>8, FrameFlows
<1> QED BY <1>2, <1>4, <1>5, <1>6, <1>7, <1>9 DEF AnswerInv

LEMMA CutKeeps == ASSUME AnswerInv, Cut PROVE AnswerInv'
<1>1. /\ Reading /\ closed' = "eof" /\ outbox' = EndEarly /\ closed = "no" /\ ended = FALSE
      /\ UNCHANGED <<chan, running, taking>>
      /\ UNCHANGED <<reader, plan, sent, finish, ended, slots, slotOf, last, texted, block,
                     chan, running, consumer, acc, outcome>>
  BY DEF Cut, provider, local, taking, Reading, AnswerInv, Types1
<1>2. Parts' = Parts /\ (\A i : FramesOf(i)' = FramesOf(i) /\ Rank(i)' = Rank(i)) /\ Before' = Before
  BY <1>1, SamePlan, SameSent
<1>3. Gone' = Gone
  BY <1>1 DEF Gone
<1>4. Types1'
  BY <1>1, <1>2 DEF AnswerInv, Types1, Accumulator, Record
<1>5. Phases'
  BY <1>1, <1>2, <1>3 DEF AnswerInv, Phases, Reading
<1>6. Concluded'
  BY <1>1, FrameConcludes
<1>7. (reader \in OpenAI => InSlots)'
  <2>1. (\A i : Assembled(i)' = Assembled(i)) /\ Texts' = Texts /\ OpenedCalls' = OpenedCalls
    BY <1>1, SameSent
  <2> QED BY <1>1, <1>2, <2>1 DEF AnswerInv, InSlots
<1>8. ASSUME NEW b, Accumulator(b), Says(b)
      PROVE  \E c : Hears(b, outbox', c) /\ Says(c)'
  <2>0. /\ reader \in Readers /\ (finish = "trouble" => reader = "anthropic")
        /\ finish \in Stops \cup {NoStop, "trouble"}
    BY DEF AnswerInv, Types1, Phases
  <2>1. CASE reader \in OpenAI
    <3>1. finish \in Stops \cup {NoStop} /\ ~Faulty
      BY <1>1, <2>0, <2>1 DEF OpenAI, Faulty
    <3>2. Streamed(b)
      BY <1>1, <1>8, <2>1, <3>1 DEF Says
    <3>3. SlotTypes /\ texted \in BOOLEAN
      BY <2>1, SlotsAre DEF AnswerInv, Types1
    <3> DEFINE given == finish
               done == FALSE
    <3>4. given \in Stops \cup {NoStop} /\ done \in BOOLEAN /\ ended' = done
      BY <1>1, <3>1
    <3>5. outbox' = Finalize(given, done)
      BY <1>1, <2>1 DEF EndEarly, OpenAI
    <3> HIDE DEF given, done
    <3>6. PICK c : Hears(b, Finalize(given, done), c) /\ Accumulator(c) /\ FinalizedAs(c, given, done)
      BY <1>8, <3>2, <3>3, <3>4, FinalizeHeard
    <3>7. Finalized(c)'
      BY <1>1, <3>4, <3>6, FinalizedThen DEF given
    <3>8. Says(c)'
      BY <1>1, <2>1, <3>1, <3>6, <3>7 DEF Says, Faulty, Accumulator, Record
    <3> QED BY <3>5, <3>6, <3>8
  <2>2. CASE reader = "gemini"
    <3> DEFINE e == MessageStop
               c == process_event(b, e)
    <3>1. e \in Events /\ outbox' = <<e>>
      BY <1>1, <2>2, EventTypes DEF EndEarly, OpenAI
    <3>2. EndedAs(b, c, b.stop, b.failed, TRUE)
      BY <1>8, MessageStopOf
    <3> HIDE DEF e
    <3>3. Hears(b, outbox', c)
      BY <3>1, HearsOne
    <3> HIDE DEF c
    <3>4. ~Faulty /\ reader \notin OpenAI /\ finish # "trouble"
      BY <1>1, <2>0, <2>2 DEF OpenAI, Faulty
    <3>5. InParts(b) /\ ReasonTold(b)
      BY <1>8, <3>4 DEF Says
    <3>6. InParts(c)'
      <4>1. InParts(c)
        BY <3>2, <3>5 DEF EndedAs, InParts
      <4> QED BY <1>1, <4>1, SameParts
    <3>7. ReasonTold(c)'
      <4>1. SawCalls' = SawCalls
        BY <1>1, SameSent
      <4> QED BY <1>1, <2>2, <3>2, <3>5, <4>1 DEF EndedAs, ReasonTold
    <3>8. Says(c)'
      BY <1>1, <3>2, <3>4, <3>6, <3>7 DEF EndedAs, Says, Faulty, Accumulator, Record
    <3> QED BY <3>3, <3>8
  <2>3. CASE reader = "anthropic"
    <3>1. outbox' = <<>>
      BY <1>1, <2>3 DEF EndEarly, OpenAI
    <3>2. Hears(b, <<>>, b)
      BY EventTypes, HearsOne
    <3>3. reader \notin OpenAI /\ closed # "reset" /\ closed' # "reset"
      BY <1>1, <2>3 DEF OpenAI
    <3>4. CASE finish = "trouble"
      BY <1>1, <1>8, <3>1, <3>2, <3>4 DEF Says, Faulty, Accumulator, Record
    <3>5. CASE finish # "trouble"
      <4>1. InParts(b) /\ ReasonTold(b)
        BY <1>8, <3>3, <3>5 DEF Says, Faulty
      <4>2. InParts(b)'
        BY <1>1, <4>1, SameParts
      <4>3. ReasonTold(b)'
        <5>1. SawCalls' = SawCalls
          BY <1>1, SameSent
        <5> QED BY <1>1, <2>3, <4>1, <5>1 DEF ReasonTold
      <4>4. Says(b)'
        BY <1>1, <1>8, <3>3, <3>5, <4>2, <4>3 DEF Says, Faulty, Accumulator, Record
      <4> QED BY <3>1, <3>2, <4>4
    <3> QED BY <3>4, <3>5
  <2> QED BY <2>0, <2>1, <2>2, <2>3 DEF Readers, OpenAI
<1>9. Flowing'
  BY <1>1, <1>8, FrameFlows
<1> QED BY <1>2, <1>4, <1>5, <1>6, <1>7, <1>9 DEF AnswerInv

LEMMA LastFrameKeeps == ASSUME AnswerInv, LastFrame PROVE AnswerInv'
<1>1. /\ Reading /\ closed' = "eof" /\ ended' = TRUE /\ closed = "no" /\ ended = FALSE
      /\ finish \in Stops \cup (IF reader \in OpenAI /\ SaidAll THEN {NoStop} ELSE {})
      /\ outbox' = IF reader \in OpenAI THEN Finalize(finish, TRUE) ELSE << MessageStop >>
      /\ UNCHANGED <<chan, running, taking>>
      /\ UNCHANGED <<reader, plan, sent, finish, slots, slotOf, last, texted, block,
                     chan, running, consumer, acc, outcome>>
  BY DEF LastFrame, local, taking, Reading, AnswerInv, Types1
<1>2. Parts' = Parts /\ (\A i : FramesOf(i)' = FramesOf(i) /\ Rank(i)' = Rank(i)) /\ Before' = Before
  BY <1>1, SamePlan, SameSent
<1>3. /\ Gone' = Gone /\ finish \in Stops \cup {NoStop} /\ finish # "trouble"
      /\ (finish = NoStop => reader \in OpenAI)
  BY <1>1 DEF Gone, Stops, NoStop
<1>4. Types1'
  BY <1>1, <1>2 DEF AnswerInv, Types1, Accumulator, Record
<1>5. Phases'
  BY <1>1, <1>2, <1>3 DEF AnswerInv, Phases, Reading
<1>6. Concluded'
  BY <1>1, FrameConcludes
<1>7. (reader \in OpenAI => InSlots)'
  <2>1. (\A i : Assembled(i)' = Assembled(i)) /\ Texts' = Texts /\ OpenedCalls' = OpenedCalls
    BY <1>1, SameSent
  <2> QED BY <1>1, <1>2, <2>1 DEF AnswerInv, InSlots
<1>8. ASSUME NEW b, Accumulator(b), Says(b)
      PROVE  \E c : Hears(b, outbox', c) /\ Says(c)'
  <2>0. ~Faulty
    BY <1>1, <1>3 DEF Faulty
  <2>1. CASE reader \in OpenAI
    <3>2. Streamed(b)
      BY <1>1, <1>8, <2>0, <2>1 DEF Says
    <3>3. SlotTypes /\ texted \in BOOLEAN
      BY <2>1, SlotsAre DEF AnswerInv, Types1
    <3> DEFINE given == finish
               done == TRUE
    <3>4. given \in Stops \cup {NoStop} /\ done \in BOOLEAN /\ ended' = done
      BY <1>1, <1>3
    <3>5. outbox' = Finalize(given, done)
      BY <1>1, <2>1
    <3> HIDE DEF given, done
    <3>6. PICK c : Hears(b, Finalize(given, done), c) /\ Accumulator(c) /\ FinalizedAs(c, given, done)
      BY <1>8, <3>2, <3>3, <3>4, FinalizeHeard
    <3>7. Finalized(c)'
      BY <1>1, <3>4, <3>6, FinalizedThen DEF given
    <3>8. Says(c)'
      BY <1>1, <1>3, <2>1, <3>6, <3>7 DEF Says, Faulty, Accumulator, Record
    <3> QED BY <3>5, <3>6, <3>8
  <2>2. CASE reader \notin OpenAI
    <3> DEFINE e == MessageStop
               c == process_event(b, e)
    <3>1. e \in Events /\ outbox' = <<e>>
      BY <1>1, <2>2, EventTypes
    <3>2. EndedAs(b, c, b.stop, b.failed, TRUE)
      BY <1>8, MessageStopOf
    <3> HIDE DEF e
    <3>3. Hears(b, outbox', c)
      BY <3>1, HearsOne
    <3> HIDE DEF c
    <3>5. InParts(b) /\ ReasonTold(b)
      BY <1>8, <2>0, <2>2 DEF Says
    <3>6. InParts(c)'
      <4>1. InParts(c)
        BY <3>2, <3>5 DEF EndedAs, InParts
      <4> QED BY <1>1, <4>1, SameParts
    <3>7. ReasonTold(c)'
      <4>1. SawCalls' = SawCalls
        BY <1>1, SameSent
      <4> QED BY <1>1, <2>2, <3>2, <3>5, <4>1 DEF EndedAs, ReasonTold
    <3>8. Says(c)'
      BY <1>1, <1>3, <2>2, <3>2, <3>6, <3>7 DEF EndedAs, Says, Faulty, Accumulator, Record
    <3> QED BY <3>3, <3>8
  <2> QED BY <2>1, <2>2
<1>9. Flowing'
  BY <1>1, <1>8, FrameFlows
<1> QED BY <1>2, <1>4, <1>5, <1>6, <1>7, <1>9 DEF AnswerInv

\* what is known when the reader takes a part's next frame
LEMMA AtFrame ==
    ASSUME AnswerInv, Reading
    PROVE  /\ closed = "no" /\ ended = FALSE /\ running /\ outbox = <<>>
           /\ reader \in Readers /\ plan \in Plans /\ sent \in [Parts -> Nat]
           /\ \A i \in Parts : sent[i] <= FramesOf(i)
           /\ finish \in Stops \cup {NoStop, "trouble"}
           /\ (~Faulty <=> finish # "trouble")
BY DEF Reading, AnswerInv, Types1, Faulty

\* what one more frame of part i makes of what has been sent
Sent1(i) == sent' = [sent EXCEPT ![i] = @ + 1]

LEMMA OneMore ==
    ASSUME AnswerInv, Reading, NEW i \in Parts, Sent1(i), UNCHANGED <<reader, plan>>, ~Whole(i)
    PROVE  /\ Parts' = Parts /\ sent' \in [Parts -> Nat] /\ \A j \in Parts : sent'[j] <= FramesOf(j)'
           /\ sent'[i] = sent[i] + 1 /\ \A j \in Parts : j # i => sent'[j] = sent[j]
           /\ \A j \in Parts : j # i => /\ Whole(j)' = Whole(j) /\ Got(j)' = Got(j) /\ Block(j)' = Block(j)
                                        /\ Assembled(j)' = Assembled(j)
<1>1. /\ Parts' = Parts
      /\ \A j : /\ IsCall(j)' = IsCall(j) /\ Size(j)' = Size(j) /\ FramesOf(j)' = FramesOf(j)
                /\ \A n : Body(j, n)' = Body(j, n)
  BY SamePlan
<1>2. /\ plan \in Plans /\ sent \in [Parts -> Nat] /\ \A j \in Parts : sent[j] <= FramesOf(j)
  BY AtFrame
<1>3. \A j \in Parts : FramesOf(j) \in Nat
  BY <1>2, PlanTypes
<1>4. sent' \in [Parts -> Nat] /\ sent'[i] = sent[i] + 1 /\ \A j \in Parts : j # i => sent'[j] = sent[j]
  BY <1>2 DEF Sent1
<1>5. \A j \in Parts : sent'[j] <= FramesOf(j)'
  BY <1>1, <1>2, <1>3, <1>4 DEF Whole
<1>6. \A j \in Parts : j # i => Whole(j)' = Whole(j) /\ Got(j)' = Got(j)
  BY <1>1, <1>4 DEF Whole, Got
<1>7. \A j \in Parts : j # i => Block(j)' = Block(j)
  <2> TAKE j \in Parts
  <2> HAVE j # i
  <2>1. IsCall(j)' = IsCall(j) /\ Body(j, Got(j))' = Body(j, Got(j)) /\ plan' = plan
    BY <1>1, <1>6 DEF Body
  <2> QED BY <2>1, Zenon DEF Block
<1>8. \A j \in Parts : j # i => Assembled(j)' = Assembled(j)
  <2> TAKE j \in Parts
  <2> HAVE j # i
  <2>1. Body(j, sent[j] - 1)' = Body(j, sent[j] - 1) /\ plan' = plan /\ reader' = reader
    BY <1>1, <1>4 DEF Body
  <2> QED BY <2>1, Zenon DEF Assembled
<1> QED BY <1>1, <1>4, <1>5, <1>6, <1>7, <1>8

\* a part in its turn leaves the order in place
LEMMA InTurnKeeps ==
    ASSUME AnswerInv, Reading, NEW i \in Parts, Sent1(i), UNCHANGED <<reader, plan>>, ~Whole(i),
           \A j \in Parts : j < i => Whole(j) \/ (TakesTurns /\ IsCall(j) /\ sent[j] > 0)
    PROVE  Before'
<1>1. /\ Parts' = Parts /\ TakesTurns' = TakesTurns /\ \A j : IsCall(j)' = IsCall(j)
  BY SamePlan
<1>2. /\ sent \in [Parts -> Nat] /\ sent'[i] = sent[i] + 1
      /\ \A j \in Parts : j # i => sent'[j] = sent[j] /\ Whole(j)' = Whole(j)
  BY AtFrame, OneMore
<1>3. plan \in Plans /\ \A j \in Parts : j \in Nat
  BY AtFrame, PlanTypes
<1> SUFFICES ASSUME NEW k \in Parts, NEW j \in Parts, j < k, sent'[k] > 0
             PROVE  Whole(j)' \/ (TakesTurns /\ IsCall(j) /\ sent'[j] > 0)
  BY <1>1 DEF Before
<1>4. CASE k = i
  <2>1. j # i
    BY <1>3, <1>4
  <2> QED BY <1>2, <1>4, <2>1
<1>5. CASE k # i
  <2>1. sent[k] > 0
    BY <1>2, <1>5
  <2>2. Whole(j) \/ (TakesTurns /\ IsCall(j) /\ sent[j] > 0)
    BY <2>1 DEF AnswerInv, Before
  <2>3. CASE j = i
    BY <1>2, <2>2, <2>3
  <2>4. CASE j # i
    BY <1>2, <2>2, <2>4
  <2> QED BY <2>3, <2>4
<1> QED BY <1>4, <1>5

\* a text of an OpenAI-compatible server arrives
LEMMA TextFrameKeeps == ASSUME AnswerInv, NEW i \in Parts, TextFrame(i) PROVE AnswerInv'
<1>1. /\ reader \in OpenAI /\ ~IsCall(i) /\ Reading /\ finish = NoStop /\ ~Whole(i) /\ InTurn(i) /\ Sent1(i)
      /\ outbox' = OpenText \o << Delta(0, Piece(i, 1)) >> /\ texted' = TRUE
      /\ UNCHANGED <<chan, running, taking>>
      /\ UNCHANGED <<reader, plan, finish, ended, closed, slots, slotOf, last, block,
                     chan, running, consumer, acc, outcome>>
  BY DEF TextFrame, Due, Arrives, Sent1, taking
<1>2. /\ Parts' = Parts
      /\ \A j : /\ IsCall(j)' = IsCall(j) /\ FramesOf(j)' = FramesOf(j) /\ Rank(j)' = Rank(j)
                /\ \A n : Piece(j, n)' = Piece(j, n)
  BY <1>1, SamePlan
<1>3. /\ sent' \in [Parts -> Nat] /\ (\A j \in Parts : sent'[j] <= FramesOf(j)')
      /\ sent'[i] = sent[i] + 1 /\ \A j \in Parts : j # i => sent'[j] = sent[j] /\ Assembled(j)' = Assembled(j)
  BY <1>1, OneMore
<1>4. /\ plan \in Plans /\ sent \in [Parts -> Nat] /\ closed = "no" /\ ended = FALSE /\ running
      /\ reader \in Readers
  BY <1>1, AtFrame
<1>5. Gone' = Gone /\ finish # "trouble"
  BY <1>1 DEF Gone, NoStop
<1>6. Types1'
  BY <1>1, <1>2, <1>3 DEF AnswerInv, Types1, Accumulator, Record
<1>7. Before'
  BY <1>1, InTurnKeeps DEF InTurn
<1>8. Phases'
  <2>1. ended' = FALSE /\ finish' = NoStop /\ running' = TRUE /\ reader' \notin {"anthropic", "gemini"}
    BY <1>1, <1>4 DEF OpenAI, AnswerInv, Types1
  <2> QED BY <2>1 DEF Phases, NoStop
<1>9. OpenedCalls' = OpenedCalls
  BY <1>1, <1>2, <1>3, <1>4 DEF OpenedCalls
<1>10. Texts' = Texts \cup {i}
  BY <1>1, <1>2, <1>3, <1>4 DEF Texts
<1>11. (reader \in OpenAI => InSlots)'
  <2>1. \A j \in OpenedCalls : j \in Parts /\ j # i /\ Assembled(j)' = Assembled(j)
    BY <1>1, <1>3 DEF OpenedCalls
  <2>2. InSlots
    BY <1>1 DEF AnswerInv
  <2> QED BY <1>1, <1>2, <1>9, <1>10, <2>1, <2>2 DEF InSlots
<1>12. Concluded'
  BY <1>1, <1>5, FrameConcludes
<1>13. ASSUME NEW b, Accumulator(b), Says(b)
       PROVE  \E c : Hears(b, outbox', c) /\ Says(c)'
  <2>1. Streamed(b)
    BY <1>1, <1>4, <1>5, <1>13 DEF Says, Faulty
  <2>2. texted \in BOOLEAN
    BY DEF AnswerInv, Types1
  <2>3. PICK q \in Seq(AnyPiece) : (texted => b.open[0] = TextBlock(q) /\ HasText(q)) /\ (~texted => q = <<>>)
    <3>1. CASE texted
      BY <2>1, <3>1 DEF Streamed
    <3>2. CASE ~texted
      <4>1. <<>> \in Seq(AnyPiece)
        OBVIOUS
      <4> QED BY <3>2, <4>1
    <3> QED BY <3>1, <3>2
  <2>4. texted <=> 0 \in DOMAIN b.open
    BY <2>1 DEF Streamed
  <2>5. PICK p \in AnyPiece : p = Piece(i, 1)
    BY <1>4, PlanTypes
  <2>6. LET es == OpenText \o << Delta(0, p) >> IN
        /\ es \in Seq(Events)
        /\ \E c : /\ Heard(b, es, c) /\ SameBlocks(b, c)
                  /\ DOMAIN c.open = DOMAIN b.open \cup {0} /\ c.open[0] = TextBlock(Append(q, p))
    BY <1>13, <2>2, <2>3, <2>4, PieceHeard
  <2>7. outbox' = OpenText \o << Delta(0, p) >>
    BY <1>1, <2>5
  <2>9. PICK r \in Seq(AnyPiece) : /\ r = Append(q, p) /\ Len(r) = Len(q) + 1 /\ r[Len(q) + 1] = p
                                   /\ \A k \in 1..Len(q) : r[k] = q[k]
                                   /\ Len(q) \in Nat
    <3> DEFINE r == Append(q, p)
    <3>1. /\ r \in Seq(AnyPiece) /\ Len(r) = Len(q) + 1 /\ r[Len(q) + 1] = p
          /\ \A k \in 1..Len(q) : r[k] = q[k]
          /\ Len(q) \in Nat
      OBVIOUS
    <3> HIDE DEF r
    <3> QED BY <3>1 DEF r
  <2>8. PICK c : /\ Hears(b, outbox', c) /\ SameBlocks(b, c)
                 /\ DOMAIN c.open = DOMAIN b.open \cup {0} /\ c.open[0] = TextBlock(r)
    BY <2>6, <2>7, <2>9 DEF Hears
  <2>10. HasText(r)'
    <3> SUFFICES ASSUME NEW j \in Texts' PROVE \E k \in 1..Len(r) : r[k] = Piece(j, 1)
      BY <1>2 DEF HasText
    <3>1. CASE j = i
      <4>1. Len(q) + 1 \in 1..Len(r)
        BY <2>9
      <4> QED BY <2>5, <2>9, <3>1, <4>1
    <3>2. CASE j # i
      <4>1. j \in Texts
        BY <1>10, <3>2
      <4>2. texted
        BY <1>1, <4>1 DEF AnswerInv, InSlots
      <4>3. PICK k \in 1..Len(q) : q[k] = Piece(j, 1)
        BY <2>3, <4>1, <4>2 DEF HasText
      <4> QED BY <2>9, <4>3
    <3> QED BY <3>1, <3>2
  <2>11. DOMAIN c.open = {0}
    BY <2>1, <2>8 DEF Streamed
  <2>12. Streamed(c)'
    <3>1. /\ c.blocks = <<>> /\ c.failed = FALSE /\ c.terminal \in BOOLEAN /\ c.stop \in Stops \cup {NoStop}
          /\ (c.terminal => finish \in Stops) /\ (c.stop # NoStop => finish \in Stops)
      BY <2>1, <2>8 DEF Streamed, SameBlocks
    <3>2. TextBlock(r)' = TextBlock(r)
      BY DEF TextBlock
    <3>3. \E x \in Seq(AnyPiece) : c.open[0] = TextBlock(x) /\ HasText(x)'
      BY <2>8, <2>9, <2>10
    <3> QED BY <1>1, <2>11, <3>1, <3>3 DEF Streamed, AnyPiece, TextBlock
  <2>13. Says(c)'
    BY <1>1, <1>4, <1>5, <2>8, <2>12 DEF Says, Faulty, SameBlocks, Accumulator, Record
  <2> QED BY <2>8, <2>13
<1>14. Flowing'
  BY <1>1, <1>13, FrameFlows
<1> QED BY <1>6, <1>7, <1>8, <1>11, <1>12, <1>14 DEF AnswerInv

\* a block opens where none is open
LEMMA NewBlock ==
    ASSUME NEW a, Accumulator(a), NEW i, i \notin DOMAIN a.open, NEW t, NEW id, NEW n \in BOOLEAN,
           NEW c, c = process_event(a, BlockStart(i, t, id, n))
    PROVE  /\ Accumulator(c)
           /\ c.blocks = a.blocks /\ c.stop = a.stop /\ c.failed = a.failed /\ c.terminal = a.terminal
           /\ DOMAIN c.open = DOMAIN a.open \cup {i}
           /\ c.open[i] = [type |-> t, id |-> id, named |-> n, body |-> <<>>]
           /\ \A j \in DOMAIN a.open \ {i} : c.open[j] = a.open[j]
<1>1. StartedAs(a, i, t, id, n, c)
  BY StartOf
<1>2. Opened(a, i).id = NoId /\ Opened(a, i).named = FALSE /\ Opened(a, i).body = <<>>
  BY DEF Opened, Idle
<1>3. (n \/ Opened(a, i).named) = n
  BY <1>2
<1>4. (IF id = NoId THEN Opened(a, i).id ELSE id) = id
  BY <1>2
<1> QED BY <1>1, <1>2, <1>3, <1>4, Zenon DEF StartedAs

\* the blocks that have ended are those of the parts before the one in its turn
LEMMA BlocksSoFar ==
    ASSUME plan \in Plans, NEW b, InParts(b), NEW i \in Parts, ~Stopped(i), \A j \in Parts : j < i => Whole(j)
    PROVE  Len(b.blocks) = i - 1 /\ b.blocks \in Seq(Blocks) /\ i \in Nat /\ i > 0
<1>1. Len(plan) \in Nat /\ Parts = 1..Len(plan)
  BY PlanTypes
<1>2. Len(b.blocks) \in Nat /\ b.blocks \in Seq(Blocks)
  BY DEF InParts
<1>3. ~(i <= Len(b.blocks))
  <2> SUFFICES ASSUME i <= Len(b.blocks) PROVE FALSE
    OBVIOUS
  <2>1. i \in 1..Len(b.blocks)
    BY <1>1, <1>2
  <2> QED BY <2>1 DEF InParts
<1>4. i > 1 => i - 1 <= Len(b.blocks)
  <2> HAVE i > 1
  <2>1. i - 1 \in Parts /\ i - 1 < i
    BY <1>1
  <2>2. Stopped(i - 1)
    BY <2>1 DEF Stopped
  <2> QED BY <2>1, <2>2 DEF InParts
<1> QED BY <1>1, <1>2, <1>3, <1>4

\* part i has ended, and its block is put in its place
LEMMA PartAdds ==
    ASSUME plan \in Plans, NEW b, InParts(b), NEW c, NEW i \in Parts, Len(b.blocks) = i - 1, Parts' = Parts,
           NEW x \in Blocks, x = Built(Block(i))', c.blocks = Placed(b.blocks, i - 1, x), Stopped(i)',
           sent'[i] > 0,
           \A j \in Parts : j # i => /\ Stopped(j)' = Stopped(j) /\ Block(j)' = Block(j)
                                     /\ sent'[j] = sent[j],
           DOMAIN c.open = DOMAIN b.open \cup {i - 1},
           \A j \in DOMAIN b.open \ {i - 1} : c.open[j] = b.open[j]
    PROVE  InParts(c)'
<1>1. Len(plan) \in Nat /\ Parts = 1..Len(plan)
  BY PlanTypes
<1>2. b.blocks \in Seq(Blocks)
  BY DEF InParts
<1> DEFINE p == c.blocks
           m == i - 1
<1>3. m \in Nat /\ m + 1 = i /\ Len(b.blocks) = m
  BY <1>1
<1>4. PlacedAt(p, b.blocks, m, x)
  <2> HIDE DEF m
  <2>1. c.blocks = Placed(b.blocks, m, x)
    BY DEF m
  <2> QED BY <1>2, <1>3, <2>1, PlacedIs
<1>5. p \in Seq(Blocks) /\ Len(p) = i /\ p[i] = x /\ \A j \in 1..i : j # i => p[j] = b.blocks[j]
  <2>1. /\ p \in Seq(Blocks) /\ Len(p) = IF Len(b.blocks) > m THEN Len(b.blocks) ELSE m + 1
        /\ p[m + 1] = x
        /\ \A j \in 1..Len(p) : j # m + 1 => p[j] = IF j <= Len(b.blocks) THEN b.blocks[j] ELSE Text(<<>>)
    BY <1>4, Zenon DEF PlacedAt
  <2>2. Len(p) = i /\ p[i] = x
    BY <1>3, <2>1
  <2>3. ASSUME NEW j \in 1..i, j # i PROVE p[j] = b.blocks[j]
    <3>1. j \in 1..Len(p) /\ j # m + 1 /\ j <= Len(b.blocks)
      BY <1>1, <1>3, <2>2, <2>3
    <3> QED BY <2>1, <3>1
  <2> QED BY <2>1, <2>2, <2>3
<1> HIDE DEF p, m
<1>6. ASSUME NEW j \in 1..Len(p)
      PROVE  j \in Parts /\ Stopped(j)' /\ p[j] = Built(Block(j))'
  <2>1. CASE j = i
    BY <1>5, <2>1
  <2>2. CASE j # i
    <3>1. j \in 1..Len(b.blocks)
      BY <1>1, <1>5, <2>2
    <3>2. j \in Parts /\ Stopped(j) /\ b.blocks[j] = Built(Block(j))
      BY <3>1 DEF InParts
    <3>3. Built(Block(j))' = Built(Block(j))
      BY <2>2, <3>2 DEF Built
    <3> QED BY <1>5, <2>2, <3>2, <3>3
  <2> QED BY <2>1, <2>2
<1>7. \A j \in Parts : Stopped(j)' => j <= Len(p)
  <2> TAKE j \in Parts
  <2> HAVE Stopped(j)'
  <2>1. CASE j = i
    BY <1>1, <1>5, <2>1
  <2>2. CASE j # i
    <3>1. j <= Len(b.blocks)
      BY <2>2 DEF InParts
    <3> QED BY <1>1, <1>5, <3>1
  <2> QED BY <2>1, <2>2
<1>8. \A j \in Parts : j - 1 \in DOMAIN c.open => sent'[j] > 0
  <2> TAKE j \in Parts
  <2> HAVE j - 1 \in DOMAIN c.open
  <2>1. CASE j = i
    BY <2>1
  <2>2. CASE j # i
    <3>1. j - 1 \in DOMAIN b.open
      BY <1>1, <2>2
    <3> QED BY <2>2, <3>1 DEF InParts
  <2> QED BY <2>1, <2>2
<1>9. \A j \in Parts : sent'[j] > 0 /\ ~Stopped(j)' => j - 1 \in DOMAIN c.open /\ c.open[j - 1] = Block(j)'
  <2> TAKE j \in Parts
  <2> HAVE sent'[j] > 0 /\ ~Stopped(j)'
  <2>1. j # i
    OBVIOUS
  <2>2. sent[j] > 0 /\ ~Stopped(j) /\ Block(j)' = Block(j)
    BY <2>1
  <2>3. j - 1 \in DOMAIN b.open /\ b.open[j - 1] = Block(j)
    BY <2>2 DEF InParts
  <2>4. j - 1 # i - 1
    BY <1>1, <2>1
  <2> QED BY <2>2, <2>3, <2>4
<1> QED BY <1>5, <1>6, <1>7, <1>8, <1>9 DEF InParts, p, Blocks, AnyPiece, Types, Note

\* part i is under way, and its block is open
LEMMA PartOpens ==
    ASSUME plan \in Plans, NEW b, InParts(b), NEW c, NEW i \in Parts, Parts' = Parts,
           c.blocks = b.blocks, ~Stopped(i)', ~Stopped(i), sent'[i] > 0,
           \A j \in Parts : j # i => /\ Stopped(j)' = Stopped(j) /\ Block(j)' = Block(j)
                                     /\ sent'[j] = sent[j],
           DOMAIN c.open = DOMAIN b.open \cup {i - 1}, c.open[i - 1] = Block(i)',
           \A j \in DOMAIN b.open \ {i - 1} : c.open[j] = b.open[j]
    PROVE  InParts(c)'
<1>1. Len(plan) \in Nat /\ Parts = 1..Len(plan)
  BY PlanTypes
<1>2. b.blocks \in Seq(Blocks)
  BY DEF InParts
<1>6. ASSUME NEW j \in 1..Len(b.blocks)
      PROVE  j \in Parts /\ Stopped(j)' /\ b.blocks[j] = Built(Block(j))'
  <2>1. j \in Parts /\ Stopped(j) /\ b.blocks[j] = Built(Block(j))
    BY DEF InParts
  <2>2. j # i
    BY <2>1
  <2>3. Built(Block(j))' = Built(Block(j))
    BY <2>1, <2>2 DEF Built
  <2> QED BY <2>1, <2>2, <2>3
<1>7. \A j \in Parts : Stopped(j)' => j <= Len(b.blocks)
  BY DEF InParts
<1>8. \A j \in Parts : j - 1 \in DOMAIN c.open => sent'[j] > 0
  <2> TAKE j \in Parts
  <2> HAVE j - 1 \in DOMAIN c.open
  <2>1. CASE j = i
    BY <2>1
  <2>2. CASE j # i
    <3>1. j - 1 \in DOMAIN b.open
      BY <1>1, <2>2
    <3> QED BY <2>2, <3>1 DEF InParts
  <2> QED BY <2>1, <2>2
<1>9. \A j \in Parts : sent'[j] > 0 /\ ~Stopped(j)' => j - 1 \in DOMAIN c.open /\ c.open[j - 1] = Block(j)'
  <2> TAKE j \in Parts
  <2> HAVE sent'[j] > 0 /\ ~Stopped(j)'
  <2>1. CASE j = i
    BY <2>1
  <2>2. CASE j # i
    <3>2. sent[j] > 0 /\ ~Stopped(j) /\ Block(j)' = Block(j)
      BY <2>2
    <3>3. j - 1 \in DOMAIN b.open /\ b.open[j - 1] = Block(j)
      BY <3>2 DEF InParts
    <3>4. j - 1 # i - 1
      BY <1>1, <2>2
    <3> QED BY <3>2, <3>3, <3>4
  <2> QED BY <2>1, <2>2
<1> QED BY <1>2, <1>6, <1>7, <1>8, <1>9 DEF InParts, Blocks, AnyPiece, Types, Note

\* a part's block is one of the message's
LEMMA PartBlock ==
    ASSUME plan \in Plans, NEW i \in Parts, Got(i) \in Nat
    PROVE  /\ Built(Block(i)) \in Blocks
           /\ Block(i).type \in Types /\ Block(i).id \in Calls \cup {NoId} /\ Block(i).body \in Seq(AnyPiece)
<1>1. Body(i, Got(i)) \in Seq(AnyPiece)
  BY BodyGrows
<1>2. IsCall(i) => plan[i] \in Calls
  BY PlanTypes
<1>3. CASE IsCall(i)
  <2>1. Block(i).type = "tool_use" /\ Block(i).id = plan[i] /\ Block(i).named = TRUE /\ Block(i).body = Body(i, Got(i))
    BY <1>3 DEF Block
  <2>2. Built(Block(i)) = ToolUse(plan[i], TRUE, Body(i, Got(i)))
    BY <2>1 DEF Built
  <2> QED BY <1>1, <1>2, <1>3, <2>1, <2>2, BlockTypes DEF Types
<1>4. CASE ~IsCall(i)
  <2>1. Block(i).type = "text" /\ Block(i).id = NoId /\ Block(i).body = Body(i, Got(i))
    BY <1>4 DEF Block
  <2>2. Built(Block(i)) = Text(Body(i, Got(i)))
    BY <2>1 DEF Built
  <2> QED BY <1>1, <2>1, <2>2, BlockTypes DEF Types
<1> QED BY <1>3, <1>4

(***************************************************************************)
(* A frame of a part, reader by reader.                                    *)
(***************************************************************************)
LEMMA AnthropicFrameKeeps == ASSUME AnswerInv, NEW i \in Parts, AnthropicFrame(i) PROVE AnswerInv'
<1>1. /\ reader = "anthropic" /\ Reading /\ finish = NoStop /\ ~Whole(i) /\ InTurn(i) /\ Sent1(i)
      /\ outbox' = << CASE sent[i] = 0 ->
                           IF IsCall(i) THEN BlockStart(i - 1, "tool_use", plan[i], TRUE)
                           ELSE BlockStart(i - 1, "text", NoId, FALSE)
                      [] sent[i] \in 1..Size(i) -> Delta(i - 1, Piece(i, sent[i]))
                      [] OTHER -> BlockStop(i - 1) >>
      /\ UNCHANGED <<chan, running, taking>>
      /\ UNCHANGED <<reader, plan, finish, ended, closed, slots, slotOf, last, texted, block,
                     chan, running, consumer, acc, outcome>>
  BY DEF AnthropicFrame, Due, Arrives, Sent1, taking, local
<1>2. /\ Parts' = Parts
      /\ \A j : /\ IsCall(j)' = IsCall(j) /\ FramesOf(j)' = FramesOf(j) /\ Size(j)' = Size(j)
                /\ \A n : Piece(j, n)' = Piece(j, n) /\ Body(j, n)' = Body(j, n)
  BY <1>1, SamePlan
<1>3. /\ sent' \in [Parts -> Nat] /\ (\A j \in Parts : sent'[j] <= FramesOf(j)')
      /\ sent'[i] = sent[i] + 1
      /\ \A j \in Parts : j # i => sent'[j] = sent[j] /\ Whole(j)' = Whole(j) /\ Block(j)' = Block(j)
  BY <1>1, OneMore
<1>4. /\ plan \in Plans /\ sent \in [Parts -> Nat] /\ closed = "no" /\ ended = FALSE /\ running
      /\ reader \in Readers /\ sent[i] <= FramesOf(i)
  BY <1>1, AtFrame
<1>5. Gone' = Gone /\ finish # "trouble" /\ reader \notin OpenAI /\ finish \notin Stops
  BY <1>1 DEF Gone, NoStop, OpenAI, Stops
<1>6. Types1'
  BY <1>1, <1>2, <1>3 DEF AnswerInv, Types1, Accumulator, Record
<1>7. Before'
  BY <1>1, InTurnKeeps DEF InTurn
<1>8. Phases'
  <2>1. ended' = FALSE /\ finish' = NoStop /\ running' = TRUE /\ reader' = "anthropic"
    BY <1>1, <1>4 DEF AnswerInv, Types1
  <2> QED BY <2>1 DEF Phases, NoStop
<1>9. (reader \in OpenAI => InSlots)'
  BY <1>1, <1>5
<1>10. Concluded'
  BY <1>1, <1>5, FrameConcludes
<1> DEFINE n == sent[i]
<1>11. /\ i \in Nat /\ i > 0 /\ Size(i) \in Nat /\ n \in Nat /\ FramesOf(i) = Size(i) + 2 /\ n <= Size(i) + 1
       /\ n # Size(i) + 2
  <2>1. i \in Nat /\ i > 0 /\ Size(i) \in Nat /\ n \in Nat
    BY <1>4, PlanTypes
  <2>2. FramesOf(i) = Size(i) + 2
    BY <1>1 DEF FramesOf
  <2>3. n # FramesOf(i) /\ n <= FramesOf(i)
    BY <1>1, <1>4 DEF Whole
  <2> QED BY <2>1, <2>2, <2>3
<1>12. \A j : (Stopped(j) <=> Whole(j)) /\ (Stopped(j)' <=> Whole(j)')
  BY <1>1, <1>4, <1>5, <1>3, PlanTypes DEF Stopped
<1>13. /\ ~Stopped(i) /\ \A j \in Parts : j # i => Stopped(j)' = Stopped(j) /\ Block(j)' = Block(j) /\ sent'[j] = sent[j]
       /\ (Stopped(i)' <=> n = Size(i) + 1) /\ sent'[i] > 0
  <2>1. Stopped(i)' <=> sent'[i] = FramesOf(i)
    BY <1>2, <1>12 DEF Whole
  <2>2. ASSUME NEW j \in Parts, j # i PROVE Stopped(j)' = Stopped(j) /\ Block(j)' = Block(j) /\ sent'[j] = sent[j]
    <3>1. Whole(j)' = Whole(j) /\ Block(j)' = Block(j) /\ sent'[j] = sent[j]
      BY <1>3, <2>2
    <3>2. (Stopped(j)' \in BOOLEAN) /\ (Stopped(j) \in BOOLEAN)
      BY DEF Stopped
    <3> QED BY <1>12, <3>1, <3>2
  <2>3. ~Stopped(i)
    BY <1>1, <1>12
  <2>4. sent'[i] = n + 1
    BY <1>3
  <2>5. (Stopped(i)' <=> n = Size(i) + 1) /\ sent'[i] > 0
    <3> HIDE DEF n
    <3> QED BY <1>11, <2>1, <2>4
  <2> QED BY <2>2, <2>3, <2>5
<1>14. /\ Got(i)' = IF n <= Size(i) THEN n ELSE Size(i)
       /\ n > 0 => Got(i) = n - 1
  BY <1>1, <1>2, <1>3, <1>11 DEF Got
<1>15. ASSUME NEW m \in Nat, Got(i)' = m
       PROVE  Block(i)' = [type |-> IF IsCall(i) THEN "tool_use" ELSE "text",
                           id |-> IF IsCall(i) THEN plan[i] ELSE NoId, named |-> IsCall(i), body |-> Body(i, m)]
  <2>1. Body(i, Got(i))' = Body(i, m)
    BY <1>2, <1>15 DEF Body
  <2>2. IsCall(i)' = IsCall(i) /\ plan' = plan
    BY <1>1, <1>2
  <2> QED BY <2>1, <2>2, Zenon DEF Block
<1>16. IsCall(i) => plan[i] \in Calls
  BY <1>4, PlanTypes
<1> HIDE DEF n
<1>20. ASSUME NEW b, Accumulator(b), Says(b)
       PROVE  \E c : Hears(b, outbox', c) /\ Says(c)'
  <2>1. InParts(b) /\ ReasonTold(b)
    BY <1>4, <1>5, <1>20 DEF Says, Faulty
  <2>2. ASSUME NEW c, Accumulator(c), InParts(c)', c.stop = b.stop, c.failed = b.failed, c.terminal = b.terminal
        PROVE  Says(c)'
    <3>1. ReasonTold(c)'
      BY <1>1, <2>1, <2>2 DEF ReasonTold
    <3> QED BY <1>1, <1>4, <1>5, <2>2, <3>1 DEF Says, Faulty, Accumulator, Record
  <2>3. CASE n = 0
    <3> DEFINE t == IF IsCall(i) THEN "tool_use" ELSE "text"
               id == IF IsCall(i) THEN plan[i] ELSE NoId
               v == IsCall(i)
               e == BlockStart(i - 1, t, id, v)
    <3>1. outbox' = <<e>>
      <4>1. outbox' = << IF IsCall(i) THEN BlockStart(i - 1, "tool_use", plan[i], TRUE)
                         ELSE BlockStart(i - 1, "text", NoId, FALSE) >>
        <5>1. sent[i] = 0 /\ ~(sent[i] \in 1..Size(i))
          BY <1>11, <2>3 DEF n
        <5> QED BY <1>1, <5>1, Zenon
      <4>2. CASE IsCall(i)
        <5>1. v = TRUE /\ t = "tool_use" /\ id = plan[i]
          BY <4>2 DEF IsCall
        <5>2. outbox' = << BlockStart(i - 1, "tool_use", plan[i], TRUE) >>
          BY <4>1, <4>2, Zenon
        <5> HIDE DEF t, id, v
        <5> QED BY <5>1, <5>2, Zenon
      <4>3. CASE ~IsCall(i)
        <5>1. v = FALSE /\ t = "text" /\ id = NoId
          BY <4>3 DEF IsCall
        <5>2. outbox' = << BlockStart(i - 1, "text", NoId, FALSE) >>
          BY <4>1, <4>3, Zenon
        <5> HIDE DEF t, id, v
        <5> QED BY <5>1, <5>2, Zenon
      <4> QED BY <4>2, <4>3
    <3>2. i - 1 \in Nat /\ t \in Types /\ id \in Calls \cup {NoId} /\ v \in BOOLEAN
      BY <1>11, <1>16 DEF Types, IsCall
    <3> HIDE DEF t, id, v
    <3>3. e \in Events
      BY <3>2, EventTypes
    <3>4. i - 1 \notin DOMAIN b.open
      BY <2>1, <2>3 DEF InParts, n
    <3> HIDE DEF e
    <3>20. PICK c : c = process_event(b, e)
      OBVIOUS
    <3>5. c = process_event(b, BlockStart(i - 1, t, id, v))
      BY <3>20 DEF e
    <3>6. Hears(b, outbox', c)
      BY <3>1, <3>3, <3>20, HearsOne
    <3>7. /\ Accumulator(c)
          /\ c.blocks = b.blocks /\ c.stop = b.stop /\ c.failed = b.failed /\ c.terminal = b.terminal
          /\ DOMAIN c.open = DOMAIN b.open \cup {i - 1}
          /\ c.open[i - 1] = [type |-> t, id |-> id, named |-> v, body |-> <<>>]
          /\ \A j \in DOMAIN b.open \ {i - 1} : c.open[j] = b.open[j]
      <4> DEFINE k == i - 1
      <4>1. k \notin DOMAIN b.open /\ c = process_event(b, BlockStart(k, t, id, v)) /\ v \in BOOLEAN
        BY <3>2, <3>4, <3>5
      <4> HIDE DEF k
      <4>2. /\ Accumulator(c)
            /\ c.blocks = b.blocks /\ c.stop = b.stop /\ c.failed = b.failed /\ c.terminal = b.terminal
            /\ DOMAIN c.open = DOMAIN b.open \cup {k}
            /\ c.open[k] = [type |-> t, id |-> id, named |-> v, body |-> <<>>]
            /\ \A j \in DOMAIN b.open \ {k} : c.open[j] = b.open[j]
        BY <1>20, <4>1, NewBlock
      <4> QED BY <4>2 DEF k
    <3>8. c.open[i - 1] = Block(i)'
      <4>1. Got(i)' = 0
        BY <1>11, <1>14, <2>3
      <4>2. Body(i, 0) = <<>>
        BY <1>4, BodyGrows
      <4> QED BY <1>15, <3>7, <4>1, <4>2 DEF t, id, v
    <3>9. ~Stopped(i)'
      BY <1>11, <1>13, <2>3
    <3>10. InParts(c)'
      BY <1>2, <1>4, <1>13, <2>1, <3>7, <3>8, <3>9, PartOpens
    <3> QED BY <2>2, <3>6, <3>7, <3>10
  <2>4. CASE n > 0 /\ n <= Size(i)
    <3> DEFINE p == Piece(i, n)
               t == IF IsCall(i) THEN "tool_use" ELSE "text"
               id == IF IsCall(i) THEN plan[i] ELSE NoId
               v == IsCall(i)
               q == Body(i, n - 1)
               k == i - 1
               e == Delta(k, p)
    <3>1. outbox' = <<e>>
      <4>1. sent[i] \in 1..Size(i) /\ sent[i] # 0
        BY <1>11, <2>4 DEF n
      <4> QED BY <1>1, <4>1, Zenon DEF n
    <3>2. k \in Nat /\ p \in AnyPiece /\ n - 1 \in Nat
      BY <1>4, <1>11, <2>4, PlanTypes
    <3>3. e \in Events
      BY <3>2, EventTypes
    <3>4. k \in DOMAIN b.open /\ b.open[k] = Block(i)
      BY <1>11, <1>13, <2>1, <2>4 DEF InParts, n
    <3>5. Opened(b, k) = [type |-> t, id |-> id, named |-> v, body |-> q]
      <4>1. Got(i) = n - 1
        BY <1>14, <2>4
      <4>2. Opened(b, k) = Block(i)
        BY <3>4 DEF Opened
      <4> QED BY <4>1, <4>2, Zenon DEF Block
    <3>6. Append(q, p) = Body(i, n)
      <4> DEFINE m == n - 1
      <4>1. m \in Nat /\ m + 1 = n
        BY <1>11, <3>2
      <4> HIDE DEF m
      <4>2. Append(Body(i, m), Piece(i, m + 1)) = Body(i, m + 1)
        BY <1>4, <4>1, BodyGrows
      <4> QED BY <4>1, <4>2 DEF m
    <3> HIDE DEF p, t, id, v, q, e, k
    <3>20. PICK c : c = process_event(b, e)
      OBVIOUS
    <3>7. c = process_event(b, Delta(k, p))
      BY <3>20 DEF e
    <3>8. Hears(b, outbox', c)
      BY <3>1, <3>3, <3>20, HearsOne
    <3>9. /\ Accumulator(c)
          /\ c.blocks = b.blocks /\ c.stop = b.stop /\ c.failed = b.failed /\ c.terminal = b.terminal
          /\ DOMAIN c.open = DOMAIN b.open \cup {k}
          /\ c.open[k] = [type |-> t, id |-> id, named |-> v, body |-> Append(q, p)]
          /\ \A j \in DOMAIN b.open \ {k} : c.open[j] = b.open[j]
      BY <1>20, <3>5, <3>7, DeltaOf
    <3>10. c.open[k] = Block(i)'
      <4>1. Got(i)' = n
        BY <1>14, <2>4
      <4> QED BY <1>11, <1>15, <3>6, <3>9, <4>1 DEF t, id, v
    <3>11. ~Stopped(i)'
      BY <1>11, <1>13, <2>4
    <3>12. InParts(c)'
      BY <1>2, <1>4, <1>13, <2>1, <3>9, <3>10, <3>11, PartOpens DEF k
    <3> QED BY <2>2, <3>8, <3>9, <3>12
  <2>5. CASE n = Size(i) + 1
    <3> DEFINE k == i - 1
               e == BlockStop(k)
               x == Built(Block(i))
    <3>1. outbox' = <<e>>
      <4>1. ~(sent[i] \in 1..Size(i)) /\ sent[i] # 0
        BY <1>11, <2>5 DEF n
      <4> QED BY <1>1, <4>1, Zenon
    <3>2. k \in Nat
      BY <1>11
    <3>3. e \in Events
      BY <3>2, EventTypes
    <3>4. k \in DOMAIN b.open /\ b.open[k] = Block(i)
      BY <1>11, <1>13, <2>1, <2>5 DEF InParts, n
    <3>5. Got(i) = Size(i) /\ Got(i)' = Size(i)
      BY <1>11, <1>14, <2>5
    <3>6. Block(i)' = Block(i)
      <4> DEFINE m == Size(i)
      <4>1. m \in Nat /\ Got(i)' = m /\ Got(i) = m
        BY <1>11, <3>5
      <4> HIDE DEF m
      <4>2. Block(i)' = [type |-> IF IsCall(i) THEN "tool_use" ELSE "text",
                         id |-> IF IsCall(i) THEN plan[i] ELSE NoId, named |-> IsCall(i), body |-> Body(i, m)]
        BY <1>15, <4>1
      <4> QED BY <4>1, <4>2, Zenon DEF Block
    <3>7. x \in Blocks
      BY <1>4, <1>11, <3>5, PartBlock
    <3>8. x = Built(Block(i))'
      BY <3>6 DEF Built
    <3> HIDE DEF x, e, k
    <3>20. PICK c : c = process_event(b, e)
      OBVIOUS
    <3>9. Hears(b, outbox', c)
      BY <3>1, <3>3, <3>20, HearsOne
    <3>10. c = process_event(b, BlockStop(k))
      BY <3>20 DEF e
    <3>11. /\ Accumulator(c)
           /\ c.blocks = Placed(b.blocks, k, Built(Opened(b, k)))
           /\ c.stop = b.stop /\ c.failed = b.failed /\ c.terminal = b.terminal
           /\ DOMAIN c.open = DOMAIN b.open \cup {k}
           /\ \A j \in DOMAIN b.open \ {k} : c.open[j] = b.open[j]
      BY <1>20, <3>10, StopOf
    <3>12. Built(Opened(b, k)) = x
      BY <3>4 DEF Opened, x
    <3>13. Stopped(i)'
      BY <1>13, <2>5
    <3>14. Len(b.blocks) = i - 1
      BY <1>1, <1>4, <1>13, <2>1, BlocksSoFar DEF InTurn
    <3>15. InParts(c)'
      BY <1>2, <1>4, <1>13, <2>1, <3>7, <3>8, <3>11, <3>12, <3>13, <3>14, PartAdds DEF k
    <3> QED BY <2>2, <3>9, <3>11, <3>15
  <2> QED BY <1>11, <2>3, <2>4, <2>5
<1>21. Flowing'
  BY <1>1, <1>20, FrameFlows
<1> QED BY <1>6, <1>7, <1>8, <1>9, <1>10, <1>21 DEF AnswerInv

\* a whole part of Gemini's
LEMMA GeminiFrameKeeps == ASSUME AnswerInv, NEW i \in Parts, GeminiFrame(i) PROVE AnswerInv'
<1>1. /\ reader = "gemini" /\ Reading /\ finish = NoStop /\ ~Whole(i) /\ InTurn(i) /\ Sent1(i)
      /\ outbox' = << IF IsCall(i) THEN BlockStart(block, "tool_use", plan[i], TRUE)
                      ELSE BlockStart(block, "text", NoId, FALSE) >>
                   \o [k \in 1..Size(i) |-> Delta(block, Piece(i, k))]
                   \o << BlockStop(block) >>
      /\ block' = block + 1
      /\ UNCHANGED <<chan, running, taking>>
      /\ UNCHANGED <<reader, plan, finish, ended, closed, slots, slotOf, last, texted,
                     chan, running, consumer, acc, outcome>>
  BY DEF GeminiFrame, Due, Arrives, Sent1, taking
<1>2. /\ Parts' = Parts
      /\ \A j : /\ IsCall(j)' = IsCall(j) /\ FramesOf(j)' = FramesOf(j) /\ Size(j)' = Size(j)
                /\ \A n : Piece(j, n)' = Piece(j, n) /\ Body(j, n)' = Body(j, n)
  BY <1>1, SamePlan
<1>3. /\ sent' \in [Parts -> Nat] /\ (\A j \in Parts : sent'[j] <= FramesOf(j)')
      /\ sent'[i] = sent[i] + 1
      /\ \A j \in Parts : j # i => sent'[j] = sent[j] /\ Whole(j)' = Whole(j) /\ Block(j)' = Block(j)
  BY <1>1, OneMore
<1>4. /\ plan \in Plans /\ sent \in [Parts -> Nat] /\ closed = "no" /\ ended = FALSE /\ running
      /\ reader \in Readers /\ sent[i] <= FramesOf(i)
  BY <1>1, AtFrame
<1>5. Gone' = Gone /\ finish # "trouble" /\ reader \notin OpenAI /\ finish \notin Stops
  BY <1>1 DEF Gone, NoStop, OpenAI, Stops
<1>6. Types1'
  <2>1. block' \in Nat
    BY <1>1 DEF AnswerInv, Types1
  <2> QED BY <1>1, <1>2, <1>3, <2>1 DEF AnswerInv, Types1, Accumulator, Record
<1>7. Before'
  BY <1>1, InTurnKeeps DEF InTurn
<1>8. /\ sent[i] = 0 /\ sent'[i] = 1 /\ FramesOf(i) = 1 /\ i = block + 1 /\ block \in Nat
      /\ Len(plan) \in Nat /\ Parts = 1..Len(plan) /\ i \in Nat /\ Size(i) \in Nat
  <2>1. \A j : FramesOf(j) = 1
    BY <1>1 DEF FramesOf
  <2>2. sent[i] = 0
    BY <1>1, <1>4, <2>1 DEF Whole
  <2>3. /\ \A j \in 1..block : j \in Parts /\ sent[j] = 1
        /\ \A j \in Parts : j > block => sent[j] = 0
        /\ block \in Nat
    BY <1>1 DEF AnswerInv, Phases, Types1
  <2>4. Len(plan) \in Nat /\ Parts = 1..Len(plan) /\ i \in Nat /\ i > 0 /\ Size(i) \in Nat
    BY <1>4, PlanTypes
  <2>5. i > block
    <3> SUFFICES ASSUME i <= block PROVE FALSE
      BY <2>3, <2>4
    <3>1. i \in 1..block
      BY <2>3, <2>4
    <3> QED BY <2>2, <2>3, <3>1
  <2>6. ~(block + 1 < i)
    <3> SUFFICES ASSUME block + 1 < i PROVE FALSE
      OBVIOUS
    <3> DEFINE j == block + 1
    <3>1. j \in Parts /\ j < i /\ j > block
      BY <2>3, <2>4
    <3> HIDE DEF j
    <3>2. sent[j] = 1
      BY <1>1, <2>1, <3>1 DEF InTurn, Whole
    <3> QED BY <2>3, <3>1, <3>2
  <2> QED BY <1>3, <2>1, <2>2, <2>3, <2>4, <2>5, <2>6
<1>9. Phases'
  <2>1. ended' = FALSE /\ finish' = NoStop /\ running' = TRUE /\ reader' = "gemini"
    BY <1>1, <1>4 DEF AnswerInv, Types1
  <2>2. /\ \A j \in 1..block : j \in Parts /\ sent[j] = 1
        /\ \A j \in Parts : j > block => sent[j] = 0
    BY <1>1 DEF AnswerInv, Phases
  <2>3. \A j \in 1..block' : j \in Parts /\ sent'[j] = 1
    <3> TAKE j \in 1..block'
    <3>1. CASE j = i
      BY <1>8, <3>1
    <3>2. CASE j # i
      <4>1. j \in 1..block
        BY <1>1, <1>8, <3>2
      <4> QED BY <1>3, <2>2, <3>2, <4>1
    <3> QED BY <3>1, <3>2
  <2>4. \A j \in Parts : j > block' => sent'[j] = 0
    <3> TAKE j \in Parts
    <3> HAVE j > block'
    <3>1. j # i /\ j > block
      BY <1>1, <1>8
    <3> QED BY <1>3, <2>2, <3>1
  <2> QED BY <1>2, <2>1, <2>3, <2>4 DEF Phases, NoStop
<1>10. (reader \in OpenAI => InSlots)'
  BY <1>1, <1>5
<1>11. Concluded'
  BY <1>1, <1>5, FrameConcludes
<1>12. \A j : (Stopped(j) <=> Whole(j)) /\ (Stopped(j)' <=> Whole(j)')
  BY <1>1, <1>4, <1>5, <1>3, PlanTypes DEF Stopped
<1>13. /\ ~Stopped(i) /\ Stopped(i)' /\ sent'[i] > 0
       /\ \A j \in Parts : j # i => Stopped(j)' = Stopped(j) /\ Block(j)' = Block(j) /\ sent'[j] = sent[j]
  <2>1. Stopped(i)' <=> sent'[i] = FramesOf(i)
    BY <1>2, <1>12 DEF Whole
  <2>2. ASSUME NEW j \in Parts, j # i PROVE Stopped(j)' = Stopped(j) /\ Block(j)' = Block(j) /\ sent'[j] = sent[j]
    <3>1. Whole(j)' = Whole(j) /\ Block(j)' = Block(j) /\ sent'[j] = sent[j]
      BY <1>3, <2>2
    <3>2. (Stopped(j)' \in BOOLEAN) /\ (Stopped(j) \in BOOLEAN)
      BY DEF Stopped
    <3> QED BY <1>12, <3>1, <3>2
  <2>3. ~Stopped(i)
    BY <1>1, <1>12
  <2> QED BY <1>8, <2>1, <2>2, <2>3
<1>14. Got(i) = Size(i) /\ Got(i)' = Size(i)
  BY <1>1, <1>2 DEF Got
<1>15. Block(i)' = Block(i)
  <2>1. IsCall(i)' = IsCall(i) /\ plan' = plan /\ Body(i, Got(i))' = Body(i, Got(i))
    BY <1>1, <1>2, <1>14 DEF Body
  <2> QED BY <2>1, Zenon DEF Block
<1>16. IsCall(i) => plan[i] \in Calls
  BY <1>4, PlanTypes
<1>20. ASSUME NEW b, Accumulator(b), Says(b)
       PROVE  \E c : Hears(b, outbox', c) /\ Says(c)'
  <2>1. InParts(b) /\ ReasonTold(b)
    BY <1>4, <1>5, <1>20 DEF Says, Faulty
  <2> DEFINE t == IF IsCall(i) THEN "tool_use" ELSE "text"
             id == IF IsCall(i) THEN plan[i] ELSE NoId
             v == IsCall(i)
             q == Body(i, Size(i))
             k == i - 1
             x == Built(Block(i))
  <2>2. k \in Nat /\ k = block /\ t \in Types /\ id \in Calls \cup {NoId} /\ v \in BOOLEAN
    BY <1>8, <1>16 DEF Types, IsCall
  <2>3. q \in Seq(AnyPiece) /\ Len(q) = Size(i)
    BY <1>4, <1>8, BodyGrows
  <2>4. k \notin DOMAIN b.open
    BY <1>8, <2>1 DEF InParts
  <2>5. Block(i) = [type |-> t, id |-> id, named |-> v, body |-> q]
    BY <1>14, Zenon DEF Block
  <2>6. outbox' = BlockOf(k, t, id, v, q)
    <3>1. [j \in 1..Size(i) |-> Delta(block, Piece(i, j))] = Fragments(k, q, Len(q))
      <4>1. \A j \in 1..Size(i) : q[j] = Piece(i, j)
        BY <1>4, <1>8, BodyGrows
      <4> HIDE DEF q, k
      <4> QED BY <2>2, <2>3, <4>1 DEF Fragments
    <3>2. CASE IsCall(i)
      <4>1. t = "tool_use" /\ id = plan[i] /\ v = TRUE
        BY <3>2 DEF IsCall
      <4>2. outbox' = << BlockStart(block, "tool_use", plan[i], TRUE) >>
                      \o [j \in 1..Size(i) |-> Delta(block, Piece(i, j))] \o << BlockStop(block) >>
        BY <1>1, <3>2, Zenon
      <4> HIDE DEF t, id, v, q, k
      <4> QED BY <2>2, <3>1, <4>1, <4>2, Zenon DEF BlockOf
    <3>3. CASE ~IsCall(i)
      <4>1. t = "text" /\ id = NoId /\ v = FALSE
        BY <3>3 DEF IsCall
      <4>2. outbox' = << BlockStart(block, "text", NoId, FALSE) >>
                      \o [j \in 1..Size(i) |-> Delta(block, Piece(i, j))] \o << BlockStop(block) >>
        BY <1>1, <3>3, Zenon
      <4> HIDE DEF t, id, v, q, k
      <4> QED BY <2>2, <3>1, <4>1, <4>2, Zenon DEF BlockOf
    <3> QED BY <3>2, <3>3
  <2>7. x = Built([type |-> t, id |-> id, named |-> v, body |-> q])
    BY <2>5, Zenon
  <2>8. x \in Blocks
    BY <1>4, <1>8, <1>14, PartBlock
  <2>9. x = Built(Block(i))'
    BY <1>15 DEF Built
  <2> HIDE DEF t, id, v, q, k, x
  <2>10. /\ BlockOf(k, t, id, v, q) \in Seq(Events)
         /\ \E c : /\ Heard(b, BlockOf(k, t, id, v, q), c)
                   /\ Extended(b, c, k, Built([type |-> t, id |-> id, named |-> v, body |-> q]))
    BY <1>20, <2>2, <2>3, <2>4, BlockHeard
  <2>11. PICK c : Hears(b, outbox', c) /\ Extended(b, c, k, x)
    BY <2>6, <2>7, <2>10 DEF Hears
  <2>12. /\ Accumulator(c) /\ c.blocks = Placed(b.blocks, k, x)
         /\ c.stop = b.stop /\ c.failed = b.failed /\ c.terminal = b.terminal
         /\ DOMAIN c.open = DOMAIN b.open \cup {k}
         /\ \A j \in DOMAIN b.open : c.open[j] = b.open[j]
    BY <2>11 DEF Extended
  <2>13. Len(b.blocks) = i - 1
    BY <1>1, <1>4, <1>13, <2>1, BlocksSoFar DEF InTurn
  <2>14. InParts(c)'
    BY <1>2, <1>4, <1>13, <2>1, <2>8, <2>9, <2>12, <2>13, PartAdds DEF k
  <2>15. ReasonTold(c)'
    BY <1>1, <1>4, <2>1, <2>12 DEF ReasonTold
  <2>16. Says(c)'
    BY <1>1, <1>4, <1>5, <2>12, <2>14, <2>15 DEF Says, Faulty, Accumulator, Record
  <2> QED BY <2>11, <2>16
<1>21. Flowing'
  BY <1>1, <1>20, FrameFlows
<1> QED BY <1>6, <1>7, <1>9, <1>10, <1>11, <1>21 DEF AnswerInv

\* nothing is cut off when every part begun has arrived whole
LEMMA NothingCut ==
    ASSUME AnswerInv, Reading, finish = NoStop, UNCHANGED <<reader, plan, sent>>,
           \A i \in Parts : sent[i] > 0 => Whole(i), NEW b, InParts(b)
    PROVE  InParts(b)'
<1>1. Parts' = Parts /\ plan \in Plans
  BY AtFrame, SamePlan
<1>2. \A i : Whole(i)' = Whole(i) /\ Block(i)' = Block(i)
  BY SameSent
<1>3. \A i \in Parts : (Stopped(i) <=> Whole(i)) /\ (Stopped(i)' <=> Whole(i))
  BY <1>1, <1>2 DEF Stopped, NoStop, Stops
<1>4. \A i \in Parts : Built(Block(i))' = Built(Block(i))
  BY <1>2 DEF Built
<1> QED BY <1>1, <1>2, <1>3, <1>4 DEF InParts, Blocks, AnyPiece, Types, Note

\* the provider says why it stopped; what is under way ends there
LEMMA FinishFrameKeeps == ASSUME AnswerInv, FinishFrame PROVE AnswerInv'
<1>1. /\ Reading /\ finish = NoStop
      /\ UNCHANGED <<chan, running, taking>>
      /\ UNCHANGED <<reader, plan, sent, ended, closed, slots, slotOf, last, texted, block,
                     chan, running, consumer, acc, outcome>>
  BY DEF FinishFrame, local, taking
<1>2. PICK reason \in Reasons, usage \in BOOLEAN :
        /\ finish' = reason
        /\ outbox' = CASE reader = "anthropic" ->
                            (LET cut == {i \in Parts : sent[i] > 0 /\ ~Whole(i)} IN
                             IF cut = {} THEN <<>> ELSE << BlockStop(Max(cut) - 1) >>)
                            \o << MessageDelta(reason) >>
                       [] reader = "gemini" ->
                            << MessageDelta(IF SawCalls THEN "ToolUse" ELSE reason) >>
                       [] OTHER -> IF usage THEN << MessageDelta(reason) >> ELSE <<>>
  BY DEF FinishFrame
<1>3. reason \in Stops
  BY DEF Reasons, Stops
<1>4. /\ plan \in Plans /\ sent \in [Parts -> Nat] /\ closed = "no" /\ ended = FALSE /\ running
      /\ reader \in Readers /\ \A i \in Parts : sent[i] <= FramesOf(i)
  BY <1>1, AtFrame
<1>5. /\ Parts' = Parts /\ (\A i : FramesOf(i)' = FramesOf(i) /\ Rank(i)' = Rank(i)) /\ Before' = Before
      /\ (\A i : Whole(i)' = Whole(i) /\ Block(i)' = Block(i) /\ Assembled(i)' = Assembled(i))
      /\ Texts' = Texts /\ OpenedCalls' = OpenedCalls /\ SawCalls' = SawCalls
      /\ \A q : HasText(q)' = HasText(q)
  BY <1>1, SamePlan, SameSent
<1>6. Gone' = Gone /\ finish # "trouble" /\ finish' # "trouble" /\ finish' # NoStop /\ NoStop \notin Stops
  BY <1>1, <1>2, <1>3 DEF Gone, NoStop, Stops
<1>7. Types1'
  BY <1>1, <1>2, <1>3, <1>5 DEF AnswerInv, Types1, Accumulator, Record
<1>8. Phases'
  <2>1. ended' = FALSE /\ running' = TRUE
    BY <1>1, <1>4 DEF AnswerInv, Types1
  <2>2. reader = "gemini" => /\ \A i \in 1..block : i \in Parts /\ sent[i] = 1
                             /\ \A i \in Parts : i > block => sent[i] = 0
    BY DEF AnswerInv, Phases
  <2> QED BY <1>1, <1>5, <1>6, <2>1, <2>2 DEF Phases
<1>9. Concluded'
  BY <1>1, <1>6, FrameConcludes
<1>10. (reader \in OpenAI => InSlots)'
  BY <1>1, <1>5 DEF AnswerInv, InSlots
<1>20. ASSUME NEW b, Accumulator(b), Says(b)
       PROVE  \E c : Hears(b, outbox', c) /\ Says(c)'
  <2>1. CASE reader = "anthropic"
    <3> DEFINE cut == {i \in Parts : sent[i] > 0 /\ ~Whole(i)}
               e == MessageDelta(reason)
    <3>1. outbox' = (IF cut = {} THEN <<>> ELSE << BlockStop(Max(cut) - 1) >>) \o << e >>
      BY <1>2, <2>1, Zenon
    <3>2. e \in Events
      BY <1>3, EventTypes
    <3>3. reader \notin OpenAI /\ InParts(b) /\ ReasonTold(b)
      BY <1>4, <1>6, <1>20, <2>1 DEF Says, Faulty, OpenAI
    \* the reason ends an answer whose parts have all been placed
    <3>4. ASSUME NEW d, Accumulator(d), InParts(d)', d.failed = b.failed, NEW es, Hears(b, es, d), outbox' = es \o <<e>>
          PROVE  \E c : Hears(b, outbox', c) /\ Says(c)'
      <4> HIDE DEF e
      <4>0. PICK c : c = process_event(d, e)
        OBVIOUS
      <4>1. EndedAs(d, c, reason, d.failed, TRUE)
        BY <1>3, <3>4, <4>0, ReasonOf DEF e
      <4>2. Hears(d, <<e>>, c)
        BY <3>2, <4>0, HearsOne
      <4>3. Hears(b, outbox', c)
        BY <3>4, <4>2, HearsMore
      <4>4. InParts(c)'
        BY <3>4, <4>1 DEF EndedAs, InParts
      <4>5. ReasonTold(c)'
        BY <1>1, <1>2, <1>6, <2>1, <3>3, <3>4, <4>1 DEF EndedAs, ReasonTold
      <4>6. Says(c)'
        BY <1>1, <1>4, <1>6, <3>3, <4>1, <4>4, <4>5 DEF EndedAs, Says, Faulty, Accumulator, Record
      <4> QED BY <4>3, <4>6
    <3>5. CASE cut = {}
      <4>1. InParts(b)'
        BY <1>1, <3>3, <3>5, NothingCut
      <4>2. outbox' = <<>> \o <<e>>
        BY <3>1, <3>5
      <4>3. Hears(b, <<>>, b)
        BY <3>2, HearsOne
      <4> HIDE DEF e, cut
      <4> QED BY <1>20, <3>4, <4>1, <4>2, <4>3
    <3>6. CASE cut # {}
      <4>1. PICK i \in cut : TRUE
        BY <3>6
      <4>2. i \in Parts /\ sent[i] > 0 /\ ~Whole(i)
        BY <4>1
      <4>3. \A j \in Parts : j \in Nat
        BY <1>4, PlanTypes
      <4>4. \A j, k \in Parts : j < k /\ sent[k] > 0 => Whole(j)
        BY <2>1 DEF AnswerInv, Before, TakesTurns
      <4>5. \A j \in Parts : j # i /\ sent[j] > 0 => Whole(j)
        <5> TAKE j \in Parts
        <5> HAVE j # i /\ sent[j] > 0
        <5>1. j < i \/ i < j
          BY <4>2, <4>3
        <5> QED BY <4>2, <4>4, <5>1
      <4>6. cut = {i}
        BY <4>2, <4>5
      <4>7. Max(cut) = i
        <5>1. i \in Int
          BY <4>2, <4>3
        <5> HIDE DEF cut
        <5> QED BY <4>6, <5>1 DEF Max
      <4> DEFINE k == i - 1
                 s == BlockStop(k)
                 x == Built(Block(i))
      <4>8. outbox' = <<s>> \o <<e>>
        BY <3>1, <3>6, <4>7, Zenon
      <4>9. k \in Nat
        BY <1>4, <4>2, PlanTypes
      <4>10. s \in Events
        BY <4>9, EventTypes
      <4>11. \A j \in Parts : (Stopped(j) <=> Whole(j)) /\ (Stopped(j)' <=> Whole(j) \/ sent[j] > 0)
        BY <1>1, <1>2, <1>3, <1>5, <1>6 DEF Stopped
      <4>12. /\ ~Stopped(i) /\ Stopped(i)' /\ sent'[i] > 0
             /\ \A j \in Parts : j # i => Stopped(j)' = Stopped(j) /\ Block(j)' = Block(j) /\ sent'[j] = sent[j]
        <5>1. ~Stopped(i) /\ Stopped(i)' /\ sent'[i] > 0
          BY <1>1, <4>2, <4>11
        <5>2. ASSUME NEW j \in Parts, j # i PROVE Stopped(j)' = Stopped(j) /\ Block(j)' = Block(j) /\ sent'[j] = sent[j]
          <6>1. Stopped(j) <=> Stopped(j)'
            BY <4>5, <4>11, <5>2
          <6>2. (Stopped(j)' \in BOOLEAN) /\ (Stopped(j) \in BOOLEAN)
            BY DEF Stopped
          <6> QED BY <1>1, <1>5, <6>1, <6>2
        <5> QED BY <5>1, <5>2
      <4>13. k \in DOMAIN b.open /\ b.open[k] = Block(i)
        BY <3>3, <4>2, <4>12 DEF InParts
      <4>14. x \in Blocks
        <5>1. Got(i) \in Nat
          BY <1>4, <2>1, <4>2, PlanTypes DEF Got
        <5> QED BY <1>4, <4>2, <5>1, PartBlock
      <4>15. x = Built(Block(i))'
        BY <1>5 DEF Built
      <4> HIDE DEF cut, e, k, s, x
      <4>16. PICK d : d = process_event(b, s)
        OBVIOUS
      <4>17. Hears(b, <<s>>, d)
        BY <4>10, <4>16, HearsOne
      <4>18. /\ Accumulator(d)
             /\ d.blocks = Placed(b.blocks, k, Built(Opened(b, k)))
             /\ d.stop = b.stop /\ d.failed = b.failed /\ d.terminal = b.terminal
             /\ DOMAIN d.open = DOMAIN b.open \cup {k}
             /\ \A j \in DOMAIN b.open \ {k} : d.open[j] = b.open[j]
        <5>1. d = process_event(b, BlockStop(k))
          BY <4>16 DEF s
        <5> QED BY <1>20, <5>1, StopOf
      <4>19. Built(Opened(b, k)) = x
        BY <4>13 DEF Opened, x
      <4>20. Len(b.blocks) = i - 1
        <5>1. \A j \in Parts : j < i => Whole(j)
          BY <4>2, <4>4
        <5> QED BY <1>4, <3>3, <4>2, <4>12, <5>1, BlocksSoFar
      <4>21. InParts(d)'
        BY <1>4, <1>5, <3>3, <4>2, <4>12, <4>14, <4>15, <4>18, <4>19, <4>20, PartAdds DEF k
      <4> QED BY <3>4, <4>8, <4>17, <4>18, <4>21
    <3> QED BY <3>5, <3>6
  <2>2. CASE reader = "gemini"
    <3> DEFINE stop == IF SawCalls THEN "ToolUse" ELSE reason
               e == MessageDelta(stop)
    <3>1. outbox' = << e >>
      <4>1. reader # "anthropic"
        BY <2>2
      <4> QED BY <1>2, <2>2, <4>1, Zenon
    <3>2. stop \in Stops
      BY <1>3 DEF Stops
    <3>3. reader \notin OpenAI /\ InParts(b) /\ ReasonTold(b)
      BY <1>4, <1>6, <1>20, <2>2 DEF Says, Faulty, OpenAI
    <3> HIDE DEF stop
    <3>4. e \in Events
      BY <3>2, EventTypes
    <3>5. PICK c : c = process_event(b, MessageDelta(stop))
      OBVIOUS
    <3>6. EndedAs(b, c, stop, b.failed, TRUE)
      BY <1>20, <3>2, <3>5, ReasonOf
    <3>7. Hears(b, outbox', c)
      <4>1. c = process_event(b, e)
        BY <3>5
      <4> HIDE DEF e
      <4> QED BY <3>1, <3>4, <4>1, HearsOne
    <3>8. \A i \in Parts : sent[i] > 0 => Whole(i)
      <4>1. \A i \in Parts : FramesOf(i) = 1
        BY <2>2 DEF FramesOf
      <4> QED BY <1>4, <4>1 DEF Whole
    <3>9. InParts(c)'
      <4>1. InParts(b)'
        BY <1>1, <3>3, <3>8, NothingCut
      <4> QED BY <3>6, <4>1 DEF EndedAs, InParts
    <3>10. ReasonTold(c)'
      BY <1>1, <1>2, <1>5, <1>6, <2>2, <3>3, <3>6 DEF EndedAs, ReasonTold, stop
    <3>11. Says(c)'
      BY <1>1, <1>4, <1>6, <3>3, <3>6, <3>9, <3>10 DEF EndedAs, Says, Faulty, Accumulator, Record
    <3> QED BY <3>7, <3>11
  <2>3. CASE reader \in OpenAI
    <3> DEFINE e == MessageDelta(reason)
    <3>1. outbox' = IF usage THEN << e >> ELSE <<>>
      <4>1. reader # "anthropic" /\ reader # "gemini"
        BY <2>3 DEF OpenAI
      <4> QED BY <1>2, <4>1, Zenon
    <3>2. Streamed(b)
      BY <1>4, <1>6, <1>20, <2>3 DEF Says, Faulty
    <3>3. e \in Events
      BY <1>3, EventTypes
    <3>4. ASSUME NEW c, Accumulator(c), c.blocks = b.blocks, c.open = b.open, c.failed = b.failed,
                 c.terminal \in BOOLEAN, c.stop \in Stops \cup {NoStop}
          PROVE  Says(c)'
      <4>1. Streamed(c)'
        BY <1>1, <1>2, <1>3, <1>5, <3>2, <3>4 DEF Streamed, TextBlock, AnyPiece, Stops, NoStop, Note
      <4> QED BY <1>1, <1>4, <1>6, <2>3, <3>4, <4>1 DEF Says, Faulty, Accumulator, Record
    <3>5. CASE usage
      <4> HIDE DEF e
      <4>0. PICK c : c = process_event(b, e)
        OBVIOUS
      <4>1. EndedAs(b, c, reason, b.failed, TRUE)
        BY <1>3, <1>20, <4>0, ReasonOf DEF e
      <4>2. Hears(b, outbox', c)
        BY <3>1, <3>3, <3>5, <4>0, HearsOne
      <4> QED BY <1>3, <3>4, <4>1, <4>2 DEF EndedAs
    <3>6. CASE ~usage
      <4>1. Hears(b, outbox', b)
        <5> HIDE DEF e
        <5> QED BY <3>1, <3>3, <3>6, HearsOne
      <4> QED BY <1>20, <3>2, <3>4, <4>1 DEF Streamed
    <3> QED BY <3>5, <3>6
  <2> QED BY <1>4, <2>1, <2>2, <2>3 DEF Readers, OpenAI
<1>21. Flowing'
  BY <1>1, <1>20, FrameFlows
<1> QED BY <1>5, <1>7, <1>8, <1>9, <1>10, <1>21 DEF AnswerInv

\* whose turn it is: the calls begun are those before, and the one whose turn it is
LEMMA Turns ==
    ASSUME AnswerInv, Reading, NEW i \in Parts, IsCall(i), Due(i) \/ MayInterleave(i)
    PROVE  /\ finish = NoStop /\ ~Whole(i)
           /\ \A j \in Parts : j < i => Whole(j) \/ (TakesTurns /\ IsCall(j) /\ sent[j] > 0)
           /\ \A j \in CallsBefore(i) : j \in OpenedCalls
           /\ sent[i] = 0 \/ ~TakesTurns => \A j \in OpenedCalls : j <= i
           /\ sent[i] = 0 => OpenedCalls = CallsBefore(i)
<1>1. finish = NoStop /\ ~Whole(i)
  BY DEF Due, MayInterleave
<1>2. \A j \in Parts : j < i => Whole(j) \/ (TakesTurns /\ IsCall(j) /\ sent[j] > 0)
  <2>1. CASE Due(i)
    BY <2>1 DEF Due, InTurn
  <2>2. CASE MayInterleave(i)
    <3>1. TakesTurns /\ \A j \in Parts : j < i => IF IsCall(j) THEN sent[j] > 0 ELSE Whole(j)
      BY <2>2 DEF MayInterleave, TakesTurns
    <3> QED BY <3>1
  <2> QED BY <2>1, <2>2
<1>3. plan \in Plans /\ sent \in [Parts -> Nat]
  BY AtFrame
<1>4. \A j \in Parts : j \in Nat /\ (Whole(j) => sent[j] > 0)
  BY <1>3, PlanTypes DEF Whole
<1>5. \A j \in CallsBefore(i) : j \in OpenedCalls
  BY <1>2, <1>4 DEF CallsBefore, OpenedCalls
<1>6. ASSUME sent[i] = 0 \/ ~TakesTurns PROVE \A j \in OpenedCalls : j <= i
  <2> SUFFICES ASSUME NEW j \in OpenedCalls, ~(j <= i) PROVE FALSE
    OBVIOUS
  <2>1. j \in Parts /\ sent[j] > 0 /\ i < j
    BY <1>4 DEF OpenedCalls
  <2>2. Whole(i) \/ (TakesTurns /\ sent[i] > 0)
    BY <2>1 DEF AnswerInv, Before
  <2> QED BY <1>1, <1>6, <2>2
<1>7. ASSUME sent[i] = 0 PROVE OpenedCalls = CallsBefore(i)
  <2>1. ASSUME NEW j \in OpenedCalls PROVE j \in CallsBefore(i)
    <3>1. j \in Parts /\ IsCall(j) /\ sent[j] > 0 /\ j <= i
      BY <1>6, <1>7 DEF OpenedCalls
    <3>2. j # i
      BY <1>7, <3>1
    <3> QED BY <1>4, <3>1, <3>2 DEF CallsBefore
  <2> QED BY <1>5, <2>1
<1> QED BY <1>1, <1>2, <1>5, <1>6, <1>7

\* a delta of a call goes to that call's slot
LEMMA SlotIsRank ==
    ASSUME AnswerInv, Reading, NEW i \in Parts, IsCall(i), Due(i) \/ MayInterleave(i), reader \in OpenAI
    PROVE  SlotFor(IndexOf(i), IdOf(i)) = Rank(i)
<1>1. plan \in Plans /\ sent \in [Parts -> Nat] /\ InSlots
  BY AtFrame DEF AnswerInv
<1>2. Rank(i) \in Nat /\ plan[i] \in Calls /\ plan[i] # NoId
  BY <1>1, PlanTypes, RankIs, CallAssumption
<1>3. CASE reader = "numbered"
  <2>1. IndexOf(i) = Rank(i)
    BY <1>3 DEF IndexOf, Rank
  <2>2. IndexOf(i) # -1
    BY <1>2, <2>1
  <2> QED BY <2>1, <2>2, Zenon DEF SlotFor
<1>4. CASE reader # "numbered" /\ (sent[i] = 0 \/ reader = "by id")
  <2>1. IndexOf(i) = -1 /\ IdOf(i) = plan[i]
    BY <1>4 DEF IndexOf, IdOf
  <2>2. SlotFor(IndexOf(i), IdOf(i)) = IF plan[i] \in DOMAIN slotOf THEN slotOf[plan[i]] ELSE NextSlot
    BY <1>2, <2>1, Zenon DEF SlotFor
  <2>3. DOMAIN slotOf = {plan[j] : j \in OpenedCalls} /\ \A j \in OpenedCalls : slotOf[plan[j]] = Rank(j)
    BY <1>1, <1>4 DEF InSlots
  <2>4. CASE sent[i] = 0
    <3>1. OpenedCalls = CallsBefore(i)
      BY <2>4, Turns
    <3>2. plan[i] \notin DOMAIN slotOf
      <4> SUFFICES ASSUME NEW j \in OpenedCalls, plan[i] = plan[j] PROVE FALSE
        BY <2>3
      <4>1. j \in Parts /\ sent[j] > 0
        BY DEF OpenedCalls
      <4>2. i = j
        BY <1>1, <4>1, PlanTypes
      <4> QED BY <2>4, <4>1, <4>2
    <3>3. DOMAIN slots = {Rank(j) : j \in CallsBefore(i)}
      BY <1>1, <3>1 DEF InSlots
    <3>4. NextSlot = Rank(i)
      BY <1>1, <3>3, NextRank
    <3> QED BY <2>2, <3>2, <3>4
  <2>5. CASE sent[i] # 0
    <3>1. i \in OpenedCalls
      BY <1>1, <2>5 DEF OpenedCalls
    <3> QED BY <2>2, <2>3, <3>1
  <2> QED BY <2>4, <2>5
<1>5. CASE reader = "bare" /\ sent[i] # 0
  <2>1. IndexOf(i) = -1 /\ IdOf(i) = NoId
    BY <1>5 DEF IndexOf, IdOf
  <2>2. i \in OpenedCalls
    BY <1>1, <1>5 DEF OpenedCalls
  <2>3. ~TakesTurns
    BY <1>5 DEF TakesTurns
  <2>4. \A j \in OpenedCalls : j <= i
    BY <2>3, Turns
  <2>5. last = Rank(i)
    BY <1>1, <1>5, <2>2, <2>4 DEF InSlots
  <2>6. last # -1
    BY <1>2, <2>5
  <2> QED BY <2>1, <2>5, <2>6, Zenon DEF SlotFor
<1> QED BY <1>3, <1>4, <1>5 DEF OpenAI

\* and makes of it what has been sent
LEMMA CallGrows ==
    ASSUME AnswerInv, Reading, NEW i \in Parts, IsCall(i), Due(i) \/ MayInterleave(i), reader \in OpenAI,
           Sent1(i), UNCHANGED <<reader, plan>>,
           NEW had, had = IF Rank(i) \in DOMAIN slots THEN slots[Rank(i)] ELSE EmptyCall
    PROVE  [id    |-> IF IdOf(i) = NoId THEN had.id ELSE IdOf(i),
            named |-> had.named \/ (sent[i] = 0 /\ plan[i] \notin Nameless),
            args  |-> IF sent[i] = 0 THEN had.args ELSE Append(had.args, Piece(i, sent[i]))]
           = Assembled(i)'
<1>1. plan \in Plans /\ sent \in [Parts -> Nat] /\ InSlots
  BY AtFrame DEF AnswerInv
<1>2. plan[i] \in Calls /\ plan[i] # NoId
  BY <1>1, PlanTypes, CallAssumption
<1>3. ~Whole(i)
  BY Turns
<1>4. sent'[i] = sent[i] + 1 /\ plan' = plan /\ reader' = reader
  BY <1>3, OneMore
<1>5. \A n : Body(i, n)' = Body(i, n)
  BY SamePlan
<1> DEFINE m == sent[i]
           odd == plan[i] \in Nameless /\ reader = "numbered"
           named == plan[i] \notin Nameless
<1>6. m \in Nat /\ sent'[i] - 1 = m
  BY <1>1, <1>4
<1>7. Assembled(i)' = [id |-> IF odd THEN NoId ELSE plan[i], named |-> named, args |-> Body(i, m)]
  <2>1. Body(i, sent[i] - 1)' = Body(i, m)
    BY <1>5, <1>6 DEF Body
  <2> QED BY <1>4, <2>1, Zenon DEF Assembled
<1>8. /\ IdOf(i) \in {NoId, plan[i]} /\ (IdOf(i) # NoId => ~odd) /\ (m = 0 /\ ~odd => IdOf(i) = plan[i])
  BY <1>2 DEF IdOf
<1>9. CASE m = 0
  <2>1. Rank(i) \notin DOMAIN slots
    <3> SUFFICES ASSUME Rank(i) \in DOMAIN slots PROVE FALSE
      OBVIOUS
    <3>1. PICK j \in OpenedCalls : Rank(i) = Rank(j)
      BY <1>1, SlotsAre
    <3>2. j \in Parts /\ IsCall(j) /\ sent[j] > 0
      BY DEF OpenedCalls
    <3>3. i = j
      BY <1>1, <3>1, <3>2, SlotsAre
    <3> QED BY <1>9, <3>2, <3>3
  <2>2. had.id = NoId /\ had.named = FALSE /\ had.args = <<>>
    BY <2>1 DEF EmptyCall
  <2>3. Body(i, m) = <<>>
    BY <1>1, <1>9, BodyGrows
  <2>4. (IF IdOf(i) = NoId THEN had.id ELSE IdOf(i)) = IF odd THEN NoId ELSE plan[i]
    BY <1>8, <1>9, <2>2
  <2>5. (had.named \/ (sent[i] = 0 /\ plan[i] \notin Nameless)) = named
    BY <1>9, <2>2
  <2>6. (IF sent[i] = 0 THEN had.args ELSE Append(had.args, Piece(i, sent[i]))) = Body(i, m)
    BY <1>9, <2>2, <2>3
  <2> HIDE DEF m, odd, named
  <2> QED BY <1>7, <2>4, <2>5, <2>6, Zenon
<1>10. CASE m # 0
  <2>1. i \in OpenedCalls
    BY <1>6, <1>10 DEF OpenedCalls
  <2>2. had = Assembled(i)
    BY <1>1, <2>1, SlotsAre
  <2>3. had.id = (IF odd THEN NoId ELSE plan[i]) /\ had.named = named /\ had.args = Body(i, m - 1)
    BY <2>2 DEF Assembled
  <2>4. (IF IdOf(i) = NoId THEN had.id ELSE IdOf(i)) = IF odd THEN NoId ELSE plan[i]
    BY <1>8, <2>3
  <2>5. (had.named \/ (sent[i] = 0 /\ plan[i] \notin Nameless)) = named
    BY <1>10, <2>3
  <2>6. (IF sent[i] = 0 THEN had.args ELSE Append(had.args, Piece(i, sent[i]))) = Body(i, m)
    <3> DEFINE n == m - 1
    <3>1. n \in Nat /\ n + 1 = m
      BY <1>6, <1>10
    <3> HIDE DEF n
    <3>2. Append(Body(i, n), Piece(i, n + 1)) = Body(i, n + 1)
      BY <1>1, <3>1, BodyGrows
    <3>3. Append(had.args, Piece(i, m)) = Body(i, m)
      BY <2>3, <3>1, <3>2 DEF n
    <3> QED BY <1>10, <3>3
  <2> HIDE DEF m, odd, named
  <2> QED BY <1>7, <2>4, <2>5, <2>6, Zenon
<1> QED BY <1>9, <1>10

\* a delta of a call of an OpenAI-compatible server
LEMMA CallFrameKeeps == ASSUME AnswerInv, NEW i \in Parts, CallFrame(i) PROVE AnswerInv'
<1> DEFINE slot == SlotFor(IndexOf(i), IdOf(i))
           had == IF slot \in DOMAIN slots THEN slots[slot] ELSE EmptyCall
           now == [id    |-> IF IdOf(i) = NoId THEN had.id ELSE IdOf(i),
                   named |-> had.named \/ (sent[i] = 0 /\ plan[i] \notin Nameless),
                   args  |-> IF sent[i] = 0 THEN had.args ELSE Append(had.args, Piece(i, sent[i]))]
<1>1. /\ reader \in OpenAI /\ IsCall(i) /\ Reading /\ (Due(i) \/ MayInterleave(i)) /\ Sent1(i)
      /\ slots' = [s \in DOMAIN slots \cup {slot} |-> IF s = slot THEN now ELSE slots[s]]
      /\ slotOf' = IF IdOf(i) = NoId THEN slotOf
                   ELSE [c \in DOMAIN slotOf \cup {IdOf(i)} |-> IF c = IdOf(i) THEN slot ELSE slotOf[c]]
      /\ last' = slot
      /\ UNCHANGED <<chan, running, taking>>
      /\ UNCHANGED <<reader, plan, finish, ended, closed, texted, block, outbox,
                     chan, running, consumer, acc, outcome>>
  BY DEF CallFrame, Arrives, Sent1, taking
<1>2. /\ Parts' = Parts
      /\ \A j : /\ IsCall(j)' = IsCall(j) /\ FramesOf(j)' = FramesOf(j) /\ Rank(j)' = Rank(j)
                /\ \A n : Piece(j, n)' = Piece(j, n)
  BY <1>1, SamePlan
<1>3. /\ finish = NoStop /\ ~Whole(i)
      /\ \A j \in Parts : j < i => Whole(j) \/ (TakesTurns /\ IsCall(j) /\ sent[j] > 0)
      /\ sent[i] = 0 \/ ~TakesTurns => \A j \in OpenedCalls : j <= i
  BY <1>1, Turns
<1>4. /\ sent' \in [Parts -> Nat] /\ (\A j \in Parts : sent'[j] <= FramesOf(j)')
      /\ sent'[i] = sent[i] + 1
      /\ \A j \in Parts : j # i => sent'[j] = sent[j] /\ Assembled(j)' = Assembled(j)
  BY <1>1, <1>3, OneMore
<1>5. /\ plan \in Plans /\ sent \in [Parts -> Nat] /\ closed = "no" /\ ended = FALSE /\ running
      /\ reader \in Readers /\ outbox = <<>> /\ InSlots
  BY <1>1, AtFrame DEF AnswerInv
<1>6. Gone' = Gone /\ finish # "trouble"
  BY <1>1, <1>3 DEF Gone, NoStop
<1>7. Types1'
  BY <1>1, <1>2, <1>4 DEF AnswerInv, Types1, Accumulator, Record
<1>8. Before'
  BY <1>1, <1>3, InTurnKeeps
<1>9. Phases'
  <2>1. ended' = FALSE /\ finish' = NoStop /\ running' = TRUE /\ reader' \notin {"anthropic", "gemini"}
    BY <1>1, <1>3, <1>5 DEF OpenAI, AnswerInv, Types1
  <2> QED BY <2>1 DEF Phases, NoStop
<1>10. Concluded'
  BY <1>1, <1>6, FrameConcludes
<1>11. OpenedCalls' = OpenedCalls \cup {i} /\ Texts' = Texts
  BY <1>1, <1>2, <1>4, <1>5 DEF OpenedCalls, Texts
<1>12. slot = Rank(i)
  BY <1>1, SlotIsRank
<1>13. now = Assembled(i)'
  <2>1. had = IF Rank(i) \in DOMAIN slots THEN slots[Rank(i)] ELSE EmptyCall
    BY <1>12
  <2> HIDE DEF had
  <2> QED BY <1>1, <2>1, CallGrows
<1> HIDE DEF slot, now
<1>14. (reader \in OpenAI => InSlots)'
  <2>1. \A j \in OpenedCalls : j \in Parts /\ IsCall(j) /\ (j # i => Rank(j) # Rank(i))
    <3>1. \A j \in OpenedCalls : j \in Parts /\ IsCall(j)
      BY DEF OpenedCalls
    <3> QED BY <1>1, <1>5, <3>1, SlotsAre
  <2>2. DOMAIN slots' = {Rank(j) : j \in OpenedCalls'}
    <3>1. DOMAIN slots' = DOMAIN slots \cup {Rank(i)}
      BY <1>1, <1>12
    <3>2. DOMAIN slots = {Rank(j) : j \in OpenedCalls}
      BY <1>5 DEF InSlots
    <3> QED BY <1>11, <3>1, <3>2
  <2>3. ASSUME NEW j \in OpenedCalls' PROVE slots'[Rank(j)] = Assembled(j)'
    <3>1. CASE j = i
      BY <1>1, <1>12, <1>13, <3>1
    <3>2. CASE j # i
      <4>1. j \in OpenedCalls /\ Rank(j) \in DOMAIN slots /\ slots[Rank(j)] = Assembled(j)
        BY <1>5, <1>11, <3>2, SlotsAre
      <4>2. Rank(j) # slot /\ Assembled(j)' = Assembled(j)
        BY <1>4, <1>12, <2>1, <3>2, <4>1
      <4> QED BY <1>1, <4>1, <4>2
    <3> QED BY <3>1, <3>2
  <2>4. ASSUME reader # "numbered"
        PROVE  /\ DOMAIN slotOf' = {plan[j] : j \in OpenedCalls'}
               /\ \A j \in OpenedCalls' : slotOf'[plan[j]] = Rank(j)
    <3>1. DOMAIN slotOf = {plan[j] : j \in OpenedCalls} /\ \A j \in OpenedCalls : slotOf[plan[j]] = Rank(j)
      BY <1>5, <2>4 DEF InSlots
    <3>2. \A j \in OpenedCalls : j # i => plan[j] # plan[i]
      BY <1>1, <1>5, <2>1, PlanTypes
    <3>3. CASE IdOf(i) = NoId
      <4>1. sent[i] # 0
        <5>1. plan[i] # NoId
          BY <1>1, <1>5, PlanTypes, CallAssumption
        <5> QED BY <2>4, <3>3, <5>1 DEF IdOf
      <4>2. i \in OpenedCalls
        BY <1>1, <1>5, <4>1 DEF OpenedCalls
      <4>3. slotOf' = slotOf /\ OpenedCalls' = OpenedCalls
        BY <1>1, <1>11, <3>3, <4>2
      <4> QED BY <3>1, <4>3
    <3>4. CASE IdOf(i) # NoId
      <4>1. IdOf(i) = plan[i]
        BY <3>4 DEF IdOf
      <4>2. slotOf' = [c \in DOMAIN slotOf \cup {plan[i]} |-> IF c = plan[i] THEN Rank(i) ELSE slotOf[c]]
        BY <1>1, <1>12, <3>4, <4>1
      <4>3. ASSUME NEW j \in OpenedCalls' PROVE slotOf'[plan[j]] = Rank(j)
        <5>1. CASE j = i
          BY <4>2, <5>1
        <5>2. CASE j # i
          <6>1. j \in OpenedCalls
            BY <1>11, <5>2
          <6> QED BY <3>1, <3>2, <4>2, <5>2, <6>1
        <5> QED BY <5>1, <5>2
      <4>4. DOMAIN slotOf' = {plan[j] : j \in OpenedCalls'}
        BY <1>11, <3>1, <4>2
      <4> QED BY <4>3, <4>4
    <3> QED BY <3>3, <3>4
  <2>5. ASSUME reader = "bare", NEW j \in OpenedCalls', \A k \in OpenedCalls' : k <= j PROVE last' = Rank(j)
    <3>1. ~TakesTurns
      BY <2>5 DEF TakesTurns
    <3>2. i <= j /\ j <= i
      <4>1. i \in OpenedCalls' /\ i \in Nat
        BY <1>5, <1>11, PlanTypes
      <4> QED BY <1>3, <1>11, <2>5, <3>1, <4>1
    <3>3. i \in Nat /\ j \in Nat
      BY <1>5, <1>11, <2>1, PlanTypes
    <3>4. j = i
      BY <3>2, <3>3
    <3> QED BY <1>1, <1>12, <3>4
  <2>6. texted' <=> Texts' # {}
    BY <1>1, <1>5, <1>11 DEF InSlots
  <2> QED BY <1>1, <1>2, <1>11, <2>2, <2>3, <2>4, <2>5, <2>6 DEF InSlots
<1>15. ASSUME NEW b, Accumulator(b), Says(b)
       PROVE  \E c : Hears(b, outbox', c) /\ Says(c)'
  <2>1. Streamed(b)
    BY <1>1, <1>5, <1>6, <1>15 DEF Says, Faulty
  <2>2. Hears(b, outbox', b)
    BY <1>1, <1>5, EventTypes, HearsOne
  <2>3. Streamed(b)'
    <3>1. \A q : HasText(q)' = HasText(q)
      BY <1>2, <1>11 DEF HasText
    <3> QED BY <1>1, <2>1, <3>1 DEF Streamed, TextBlock, AnyPiece, Stops, NoStop, Note
  <2>4. Says(b)'
    BY <1>1, <1>5, <1>6, <1>15, <2>3 DEF Says, Faulty, Accumulator, Record
  <2> QED BY <2>2, <2>4
<1>16. Flowing'
  BY <1>1, <1>15, FrameFlows
<1> QED BY <1>7, <1>8, <1>9, <1>10, <1>14, <1>16 DEF AnswerInv

(***************************************************************************)
(* The whole.                                                              *)
(***************************************************************************)
LEMMA AnswerInit == Init => AnswerInv
<1> SUFFICES ASSUME Init PROVE AnswerInv
  OBVIOUS
<1>1. /\ reader \in Readers /\ plan \in Plans
      /\ reader \in {"anthropic", "gemini"} => \A i \in DOMAIN plan : plan[i] \notin Nameless
      /\ sent = [i \in DOMAIN plan |-> 0]
      /\ finish = NoStop /\ ended = FALSE /\ closed = "no"
      /\ slots = [s \in {} |-> EmptyCall] /\ slotOf = [c \in {} |-> 0]
      /\ texted = FALSE /\ block = 0
      /\ outbox = <<>> /\ chan = <<>> /\ running = TRUE
      /\ acc = Fresh /\ outcome = Pending
  BY DEF Init
<1>2. \A i \in Parts : sent[i] = 0 /\ FramesOf(i) \in Nat /\ FramesOf(i) > 0 /\ i \in Nat /\ i > 0
  BY <1>1, PlanTypes DEF Parts
<1>3. Accumulator(acc) /\ acc.blocks = <<>> /\ DOMAIN acc.open = {} /\ acc.stop = NoStop /\ acc.failed = FALSE
      /\ acc.terminal = FALSE
  BY <1>1 DEF Fresh, Accumulator, Record
<1>4. OpenedCalls = {} /\ Texts = {} /\ \A i \in Parts : ~Whole(i)
  BY <1>2 DEF OpenedCalls, Texts, Whole
<1>5. Types1
  <2>1. sent \in [Parts -> Nat] /\ \A i \in Parts : sent[i] <= FramesOf(i)
    BY <1>1, <1>2 DEF Parts
  <2>2. reader \notin OpenAI => \A i \in Parts : plan[i] \notin Nameless
    BY <1>1 DEF Readers, OpenAI, Parts
  <2>3. chan \in Seq(Events)
    BY <1>1
  <2> QED BY <1>1, <1>3, <2>1, <2>2, <2>3 DEF Types1
<1>6. Before
  BY <1>2 DEF Before
<1>7. Phases
  <2>1. \A i \in 1..block : FALSE
    BY <1>1
  <2>2. \A i \in Parts : sent[i] = 0
    BY <1>2
  <2> QED BY <1>1, <2>1, <2>2 DEF Phases, NoStop
<1>8. InSlots
  BY <1>1, <1>4 DEF InSlots
<1>9. Concluded
  BY <1>1 DEF Concluded, Gone
<1>10. Flowing
  <2>1. chan \o outbox = <<>> /\ outbox \in Seq(Events)
    BY <1>1
  <2>2. Heard(acc, chan \o outbox, acc)
    BY <2>1, HeardNothing
  <2>3. finish \notin Stops /\ ~Faulty
    BY <1>1 DEF Faulty, NoStop, Stops
  <2>4. \A i \in Parts : ~Stopped(i)
    BY <1>2, <1>4 DEF Stopped
  <2>5. InParts(acc)
    BY <1>2, <1>3, <2>4 DEF InParts
  <2>6. ReasonTold(acc)
    BY <1>1, <1>3 DEF ReasonTold
  <2>7. Streamed(acc)
    BY <1>1, <1>3 DEF Streamed
  <2>8. Says(acc)
    BY <1>1, <1>3, <2>3, <2>5, <2>6, <2>7 DEF Says
  <2> QED BY <1>1, <2>1, <2>2, <2>8 DEF Flowing
<1> QED BY <1>5, <1>6, <1>7, <1>8, <1>9, <1>10 DEF AnswerInv

LEMMA AnswerStep == AnswerInv /\ [Next]_vars => AnswerInv'
<1> SUFFICES ASSUME AnswerInv, [Next]_vars PROVE AnswerInv'
  OBVIOUS
<1>1. CASE Frame
  BY <1>1, AnthropicFrameKeeps, GeminiFrameKeeps, TextFrameKeeps, CallFrameKeeps DEF Frame
<1>2. CASE FinishFrame \/ ErrorFrame \/ LastFrame
  BY <1>2, FinishFrameKeeps, ErrorFrameKeeps, LastFrameKeeps
<1>3. CASE Cut \/ Break
  BY <1>3, CutKeeps, BreakKeeps
<1>4. CASE Send \/ Return
  BY <1>4, SendKeeps, ReturnKeeps
<1>5. CASE Take \/ Finish \/ Drop
  BY <1>5, TakeKeeps, FinishKeeps, DropKeeps
<1>6. CASE Over \/ UNCHANGED vars
  BY <1>6, OverKeeps DEF Over
<1> QED BY <1>1, <1>2, <1>3, <1>4, <1>5, <1>6 DEF Next

LEMMA AnswerInvIsTrue == AnswerInv => AnswerIsTrue
<1> SUFFICES ASSUME AnswerInv PROVE AnswerIsTrue
  OBVIOUS
<1>1. CASE Gone
  BY <1>1 DEF AnswerInv, Concluded
<1>2. CASE ~Gone
  <2>1. outcome = Pending
    BY <1>2 DEF AnswerInv, Flowing
  <2>2. outcome.kind = "pending" /\ outcome.blocks = <<>>
    BY <2>1 DEF Pending
  <2>3. ~Decided
    BY <2>2 DEF Decided
  <2> QED BY <2>2, <2>3, NoAnswerIsTrue
<1> QED BY <1>1, <1>2

(* A stream that broke or held an error gives no answer. One that is given has  *)
(* no call's arguments mixed into another's and carries the parts that arrived  *)
(* whole, in order. Anthropic's had its stop reason or its end; the calls of an *)
(* OpenAI-compatible answer, or of Gemini's with a reason, are run. Whether a   *)
(* stream of these two kinds was cut short is not said. For any answers, any    *)
(* channel and any cut of the connection.                                       *)
THEOREM AnswersAreTrue == Spec => []AnswerIsTrue
<1>1. Init => AnswerInv
  BY AnswerInit
<1>2. AnswerInv /\ [Next]_vars => AnswerInv'
  BY AnswerStep
<1>3. AnswerInv => AnswerIsTrue
  BY AnswerInvIsTrue
<1> QED BY <1>1, <1>2, <1>3, PTL DEF Spec
=============================================================================
