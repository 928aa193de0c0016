------------------------------ MODULE WiresProof ------------------------------
(***************************************************************************)
(* Three places where a task waits for what another sends it, each on its  *)
(* own and for every value of its constants.                               *)
(*                                                                         *)
(* The run's events: no event is lost or reordered between the loop and a  *)
(* caller that listens, and collect() reports what the loop returned. The  *)
(* invariant says what is where: what the caller took out is the first     *)
(* events in order, what is in the channel are the next ones, and an       *)
(* ending can only be the last of them.                                    *)
(*                                                                         *)
(* The requests of a tool server's client: a call returns the answer to    *)
(* its own request, nothing stays parked but what the code forgets, and    *)
(* one server is started at a time. The invariant says that at one server  *)
(* a number names one request, wherever it is between the task that made   *)
(* it and the answer, and that a task that heard an answer has left no     *)
(* trace of its number behind; whoever works with a server behind the      *)
(* mutex is the first in its queue.                                        *)
(*                                                                         *)
(* The commands of a session: a call says what its command printed, where  *)
(* it ended and that it ended. The invariant of one call says what its     *)
(* pipes may hold, where a reader task ends, and that what was sent to the *)
(* caller of a stream is what the readers have passed on; the one of the   *)
(* session, that as long as one call has returned its directory is what    *)
(* that call said.                                                         *)
(***************************************************************************)
EXTENDS EventStream, RpcClient, Outside, SequenceTheorems, FiniteSetTheorems, TLAPS

(***************************************************************************)
(* The events of a run.                                                    *)
(***************************************************************************)
Sent == IF runner = "sending" THEN produced - 1 ELSE produced

\* a streamed run that returned has announced its ending
Announced == IF Streaming /\ runner = "done" THEN 1 ELSE 0

InOrder ==
    /\ Len(received) <= Sent
    /\ Len(received) + Len(events) = Sent + Announced
    /\ \A i \in 1..Len(received) : received[i] = Delta(i)
    /\ \A i \in 1..Len(events) :
         events[i] = IF Len(received) + i <= Sent THEN Delta(Len(received) + i) ELSE Ending(outcome)

StreamInv ==
    /\ StreamTypeOK
    /\ runner = "sending" => produced > 0
    /\ runner \in {"ending", "done"} => outcome \in Terminal
    /\ caller # "returned" => result = "none"
    /\ Listening => InOrder
    /\ result \in Terminal => runner = "done" /\ result = outcome /\ Len(received) = produced + 1
    /\ result = "cancelled" => runner = "panicked"

\* the events are events
LEMMA EventTypes == /\ \A n \in Nat : Delta(n) \in Event
                    /\ \A what \in Terminal : Ending(what) \in Event
BY DEF Delta, Ending, Event

\* at the start nothing was sent
LEMMA StreamInitInv == StreamInit => StreamInv
<1> SUFFICES ASSUME StreamInit PROVE StreamInv
  OBVIOUS
<1>1. StreamTypeOK
  <2>1. /\ events \in Seq(Event) /\ received \in Seq(Event) /\ control \in Seq({"cancel"})
        /\ Len(events) = 0 /\ Len(control) = 0
    BY EmptySeq DEF StreamInit
  <2>2. produced \in 0..MaxEvents /\ Len(events) <= Capacity /\ Len(control) <= ControlCapacity
    BY <2>1, StreamAssumption DEF StreamAssumption, StreamInit
  <2>3. /\ runner = "waiting" /\ outcome = "none" /\ caller = "reading" /\ result = "none"
        /\ asked = FALSE /\ token = FALSE
    BY DEF StreamInit
  <2> QED
    BY <2>1, <2>2, <2>3 DEF StreamTypeOK
<1>2. InOrder
  BY DEF StreamInit, InOrder, Sent, Announced
<1> QED
  BY <1>1, <1>2 DEF StreamInit, StreamInv, Terminal

\* a step of the loop that sends nothing, and after which as much has been sent
LEMMA LoopStep ==
    ASSUME StreamInv, StreamTypeOK', UNCHANGED <<events, caller, received, result>>,
           runner \in {"waiting", "summarizing", "ending"},
           Sent' = Sent, Announced' = Announced,
           runner' = "sending" => produced' > 0,
           runner' \in {"ending", "done"} => outcome' \in Terminal,
           Listening => outcome' = outcome \/ (runner = "waiting" /\ runner' # "done"),
           Announced = 0
    PROVE  StreamInv'
<1>1. Listening' => InOrder'
  <2> SUFFICES ASSUME Listening PROVE InOrder'
    BY DEF Listening
  <2>1. InOrder /\ produced \in Nat /\ Len(received) \in Nat /\ Len(events) \in Nat
    BY LenProperties DEF StreamInv, StreamTypeOK
  <2>2. Sent \in Int
    BY <2>1 DEF Sent
  <2>3. \A i \in 1..Len(events) : Len(received) + i <= Sent
    BY <2>1, <2>2 DEF InOrder
  <2> QED
    BY <2>1, <2>3 DEF InOrder
<1>2. result \notin Terminal /\ result # "cancelled"
  BY DEF StreamInv, Terminal
<1> QED
  BY <1>1, <1>2 DEF StreamInv

\* every step keeps the invariant
LEMMA StreamNextInv == ASSUME StreamAssumption, StreamInv, [StreamNext]_streamVars PROVE StreamInv'
<1>0. /\ events \in Seq(Event) /\ received \in Seq(Event)
      /\ Len(events) \in Nat /\ Len(received) \in Nat
      /\ produced \in Nat /\ MaxEvents \in Nat /\ Capacity \in Nat
  BY LenProperties DEF StreamInv, StreamTypeOK, StreamAssumption
<1>1. CASE Produce
  <2>1. StreamTypeOK'
    BY <1>0, <1>1 DEF Produce, StreamInv, StreamTypeOK
  <2> QED
    BY <1>0, <1>1, <2>1, LoopStep DEF Produce, Sent, Announced
<1>2. CASE Finish \/ StopOnToken
  <2>1. PICK what \in Terminal : Return(what)
    BY <1>2 DEF Finish, StopOnToken, Terminal
  <2>2. StreamTypeOK'
    BY <2>1 DEF Return, StreamInv, StreamTypeOK
  <2> QED
    BY <2>1, <2>2, LoopStep DEF Return, Sent, Announced
<1>3. CASE Panic \/ Summarized
  <2>1. StreamTypeOK'
    BY <1>3 DEF Panic, Summarized, StreamInv, StreamTypeOK
  <2> QED
    BY <1>3, <2>1, LoopStep DEF Panic, Summarized, Sent, Announced
<1>4. ASSUME NEW e \in Event, Put(e), UNCHANGED <<produced, caller, received, result, outcome>>,
             UNCHANGED <<control, asked, token>>,
             runner' \in {"waiting", "summarizing", "done"},
             \/ runner = "sending" /\ runner' # "done" /\ e = Delta(produced)
             \/ runner = "ending" /\ runner' = "done" /\ Streaming /\ e = Ending(outcome)
      PROVE  StreamInv'
  <2>1. StreamTypeOK'
    <3>1. CASE Listening
      <4>1. Len(events) < Capacity /\ events' = Append(events, e)
        BY <1>4, <3>1 DEF Put
      <4>2. events' \in Seq(Event) /\ Len(events') = Len(events) + 1
        BY <1>0, <1>4, <4>1, AppendProperties
      <4> QED
        BY <1>0, <1>4, <4>1, <4>2 DEF StreamInv, StreamTypeOK
    <3>2. CASE ~Listening
      BY <1>4, <3>2 DEF Put, StreamInv, StreamTypeOK
    <3> QED
      BY <3>1, <3>2
  <2>2. Listening' => InOrder'
    <3> SUFFICES ASSUME Listening PROVE InOrder'
      BY <1>4 DEF Listening
    <3>1. InOrder /\ events' = Append(events, e) /\ Announced = 0
      BY <1>4 DEF StreamInv, Put, Announced
    <3>2. /\ Len(events') = Len(events) + 1 /\ events'[Len(events) + 1] = e
          /\ \A i \in 1..Len(events) : events'[i] = events[i]
      BY <1>0, <1>4, <3>1, AppendProperties
    <3>3. /\ Sent \in Nat /\ Sent' \in Nat /\ Sent' + Announced' = Sent + 1
          /\ \/ Sent' = Sent + 1 /\ e = Delta(Sent + 1)
             \/ Sent' = Sent /\ e = Ending(outcome)
      BY <1>0, <1>4, <3>1 DEF Sent, Announced, StreamInv
    <3>4. \A i \in 1..Len(events) : Len(received) + i <= Sent /\ events[i] = Delta(Len(received) + i)
      BY <1>0, <3>1, <3>3 DEF InOrder
    <3>5. Len(received) + Len(events) = Sent /\ Len(received) <= Sent
      BY <1>0, <3>1, <3>3 DEF InOrder
    <3>6. ASSUME NEW i \in 1..Len(events')
          PROVE  events'[i] = IF Len(received) + i <= Sent' THEN Delta(Len(received) + i)
                                                           ELSE Ending(outcome)
      <4>1. CASE i = Len(events) + 1
        BY <1>0, <3>2, <3>3, <3>5, <4>1
      <4>2. CASE i \in 1..Len(events)
        <5>1. Len(received) + i <= Sent'
          BY <1>0, <3>3, <3>4, <4>2
        <5> QED
          BY <3>2, <3>4, <4>2, <5>1
      <4> QED
        BY <1>0, <3>2, <3>6, <4>1, <4>2
    <3>7. /\ Len(received) <= Sent' /\ Len(received) + Len(events') = Sent' + Announced'
      BY <1>0, <3>2, <3>3, <3>5
    <3>8. \A i \in 1..Len(received) : received[i] = Delta(i)
      BY <3>1 DEF InOrder
    <3> QED
      BY <1>4, <3>6, <3>7, <3>8 DEF InOrder
  <2>3. result \notin Terminal /\ result # "cancelled"
    BY <1>4 DEF StreamInv, Terminal
  <2> QED
    BY <1>4, <2>1, <2>2, <2>3 DEF StreamInv
<1>5. CASE Send
  <2>1. Delta(produced) \in Event
    BY <1>0, EventTypes
  <2> QED
    BY <1>4, <1>5, <2>1 DEF Send
<1>6. CASE Announce
  <2>1. outcome \in Terminal /\ Ending(outcome) \in Event
    BY <1>6, EventTypes DEF Announce, StreamInv
  <2>2. CASE Streaming
    BY <1>4, <1>6, <2>1, <2>2 DEF Announce
  <2>3. CASE ~Streaming
    <3>1. StreamTypeOK'
      BY <1>6, <2>3 DEF Announce, StreamInv, StreamTypeOK
    <3> QED
      BY <1>6, <2>1, <2>3, <3>1, LoopStep DEF Announce, Sent, Announced
  <2> QED
    BY <2>2, <2>3
<1>7. CASE Receive
  <2>1. /\ Streaming /\ Listening /\ events # << >> /\ InOrder /\ result = "none"
        /\ received' = Append(received, Head(events))
        /\ UNCHANGED <<runner, outcome, produced, control, asked, token>>
    BY <1>7 DEF Receive, StreamInv, Listening
  <2>2. /\ Len(events) > 0 /\ Head(events) = events[1] /\ Head(events) \in Event
        /\ Tail(events) \in Seq(Event) /\ Len(Tail(events)) = Len(events) - 1
        /\ \A i \in 1..Len(Tail(events)) : Tail(events)[i] = events[i + 1]
    BY <1>0, <2>1, EmptySeq, HeadTailProperties
  <2>3. /\ received' \in Seq(Event) /\ Len(received') = Len(received) + 1
        /\ received'[Len(received) + 1] = events[1]
        /\ \A i \in 1..Len(received) : received'[i] = received[i]
    BY <1>0, <2>1, <2>2, AppendProperties
  <2>4. Sent \in Nat /\ Sent' = Sent /\ Announced' = Announced /\ Announced \in {0, 1}
    BY <1>0, <2>1 DEF Sent, Announced, StreamInv
  <2>5. events[1] = IF Len(received) + 1 <= Sent THEN Delta(Len(received) + 1) ELSE Ending(outcome)
    BY <1>0, <2>1, <2>2 DEF InOrder
  <2>6. CASE Head(events).kind \in Terminal
    <3>1. caller' = "returned" /\ result' = Head(events).kind /\ events' = << >>
      BY <1>7, <2>6 DEF Receive
    <3>2. ~(Len(received) + 1 <= Sent)
      BY <2>2, <2>5, <2>6 DEF Delta, Terminal
    <3>3. Head(events).kind = outcome
      BY <2>2, <2>5, <3>2 DEF Ending
    <3>4. Len(received) = Sent /\ Announced = 1
      BY <1>0, <2>1, <2>2, <2>4, <3>2 DEF InOrder
    <3>5. runner = "done" /\ Len(received') = produced + 1
      BY <2>3, <3>4 DEF Announced, Sent
    <3>6. StreamTypeOK'
      BY <1>0, <2>1, <2>3, <2>6, <3>1, EmptySeq DEF StreamInv, StreamTypeOK
    <3>7. result' \in Terminal => result' # "cancelled"
      BY DEF Terminal
    <3> QED
      BY <2>1, <2>6, <3>1, <3>3, <3>5, <3>6, <3>7 DEF StreamInv, Listening
  <2>7. CASE Head(events).kind \notin Terminal
    <3>1. events' = Tail(events) /\ UNCHANGED <<caller, result>>
      BY <1>7, <2>7 DEF Receive
    <3>2. Len(received) + 1 <= Sent
      <4>1. CASE ~(Len(received) + 1 <= Sent)
        <5>1. Len(received) = Sent /\ Announced = 1
          BY <1>0, <2>1, <2>2, <2>4, <4>1 DEF InOrder
        <5>2. outcome \in Terminal
          BY <5>1 DEF Announced, StreamInv
        <5> QED
          BY <2>2, <2>5, <2>7, <4>1, <5>2 DEF Ending
      <4> QED
        BY <4>1
    <3>3. \A i \in 1..Len(received') : received'[i] = Delta(i)
      BY <1>0, <2>1, <2>3, <2>5, <3>2 DEF InOrder
    <3>4. ASSUME NEW i \in 1..Len(events')
          PROVE  events'[i] = IF Len(received') + i <= Sent' THEN Delta(Len(received') + i)
                                                            ELSE Ending(outcome')
      <4>1. i + 1 \in 1..Len(events) /\ events'[i] = events[i + 1]
        BY <1>0, <2>2, <3>1, <3>4
      <4>2. Len(received') + i = Len(received) + (i + 1)
        BY <1>0, <2>2, <2>3, <3>1, <3>4
      <4>3. events[i + 1] = IF Len(received) + (i + 1) <= Sent THEN Delta(Len(received) + (i + 1))
                                                               ELSE Ending(outcome)
        BY <2>1, <4>1 DEF InOrder
      <4>4. Sent' = Sent /\ outcome' = outcome
        BY <2>1, <2>4
      <4> QED
        BY <4>1, <4>2, <4>3, <4>4
    <3>5. Len(received') <= Sent' /\ Len(received') + Len(events') = Sent' + Announced'
      <4>1. Len(received) + Len(events) = Sent + Announced
        BY <2>1 DEF InOrder
      <4>2. Len(received') = Len(received) + 1 /\ Len(events') = Len(events) - 1
        BY <2>2, <2>3, <3>1
      <4>3. Len(received) \in Nat /\ Len(events) \in Nat
        BY <1>0
      <4> QED
        BY <2>4, <3>2, <4>1, <4>2, <4>3
    <3>6. StreamTypeOK'
      <4>1. events' \in Seq(Event) /\ Len(events') <= Capacity /\ received' \in Seq(Event)
        BY <1>0, <2>2, <2>3, <3>1 DEF StreamInv, StreamTypeOK
      <4>2. /\ runner' \in {"waiting", "sending", "summarizing", "ending", "done", "panicked"}
            /\ outcome' \in Terminal \union {"none"} /\ produced' \in 0..MaxEvents
            /\ caller' \in {"reading", "returned", "dropped"}
            /\ result' \in Terminal \union {"none", "cancelled"}
        BY <2>1, <3>1 DEF StreamInv, StreamTypeOK
      <4>3. /\ control' \in Seq({"cancel"}) /\ Len(control') <= ControlCapacity
            /\ asked' \in BOOLEAN /\ token' \in BOOLEAN
        BY <2>1 DEF StreamInv, StreamTypeOK
      <4> QED
        BY <4>1, <4>2, <4>3 DEF StreamTypeOK
    <3> QED
      BY <2>1, <3>1, <3>3, <3>4, <3>5, <3>6 DEF StreamInv, InOrder, Terminal
  <2> QED
    BY <2>6, <2>7
<1>8. CASE SeeClosed
  <2>1. /\ Streaming /\ Listening /\ events = << >> /\ runner \in {"done", "panicked"} /\ InOrder
        /\ caller' = "returned" /\ result' = "cancelled"
        /\ UNCHANGED <<runner, outcome, produced, events, received, control, asked, token>>
    BY <1>8 DEF SeeClosed, LoopIsOver, StreamInv
  <2>2. runner # "done"
    <3>1. Len(events) = 0
      BY <2>1
    <3>2. Announced = 0
      BY <1>0, <2>1, <3>1 DEF InOrder, Sent, Announced
    <3> QED
      BY <2>1, <3>2 DEF Announced
  <2>3. StreamTypeOK'
    BY <2>1 DEF StreamInv, StreamTypeOK
  <2> QED
    BY <2>1, <2>2, <2>3 DEF StreamInv, Listening, Terminal
<1>9. CASE Drop
  <2>1. StreamTypeOK'
    BY <1>0, <1>9, EmptySeq DEF Drop, StreamInv, StreamTypeOK
  <2> QED
    BY <1>9, <2>1 DEF Drop, StreamInv, Listening, Terminal
<1>10. CASE StreamCancel
  <2>1. control \in Seq({"cancel"}) /\ Len(control) \in Nat /\ ControlCapacity \in Nat
    BY LenProperties DEF StreamInv, StreamTypeOK, StreamAssumption
  <2>2. control' \in Seq({"cancel"}) /\ Len(control') <= ControlCapacity
    <3>1. CASE control' = Append(control, "cancel") /\ Len(control) < ControlCapacity
      BY <2>1, <3>1, AppendProperties
    <3>2. CASE control' = control
      BY <3>2 DEF StreamInv, StreamTypeOK
    <3> QED
      BY <1>10, <3>1, <3>2 DEF StreamCancel
  <2>3. StreamTypeOK'
    BY <1>10, <2>2 DEF StreamCancel, StreamInv, StreamTypeOK
  <2> QED
    BY <1>10, <2>3 DEF StreamCancel, StreamInv, Listening, InOrder, Sent, Announced
<1>11. CASE TokenCancel
  <2>1. StreamTypeOK'
    BY <1>11 DEF TokenCancel, StreamInv, StreamTypeOK
  <2> QED
    BY <1>11, <2>1 DEF TokenCancel, StreamInv, Listening, InOrder, Sent, Announced
<1>12. CASE UNCHANGED streamVars
  BY <1>12 DEF streamVars, StreamInv, StreamTypeOK, Listening, InOrder, Sent, Announced
<1> QED
  BY <1>1, <1>2, <1>3, <1>5, <1>6, <1>7, <1>8, <1>9, <1>10, <1>11, <1>12 DEF StreamNext, Rest

\* The invariant holds in every reachable state.
THEOREM StreamIsInvariant == StreamSpec => []StreamInv
BY StreamInitInv, StreamNextInv, StreamAssumption, PTL DEF StreamSpec

\* A caller that listens loses no event and sees them in order, whatever the
\* capacity of the channel.
THEOREM NothingLost == StreamSpec => []Lossless
<1>1. StreamInv => Lossless
  <2> SUFFICES ASSUME StreamInv, Listening
               PROVE  /\ \A i \in 1..Sent : /\ i <= Len(received \o events)
                                            /\ (received \o events)[i] = Delta(i)
                      /\ Len(received \o events) = Sent + Announced
    BY DEF Lossless, Sent, Announced
  <2>1. /\ InOrder /\ produced \in Nat /\ events \in Seq(Event) /\ received \in Seq(Event)
        /\ Len(received) \in Nat /\ Len(events) \in Nat
    BY LenProperties DEF StreamInv, StreamTypeOK
  <2>2. Sent \in Nat /\ Announced \in {0, 1}
    BY <2>1 DEF Sent, Announced, StreamInv
  <2> DEFINE seen == received \o events
  <2>3. /\ Len(seen) = Len(received) + Len(events)
        /\ \A i \in 1..(Len(received) + Len(events)) :
             seen[i] = IF i <= Len(received) THEN received[i] ELSE events[i - Len(received)]
    BY <2>1, ConcatProperties
  <2> HIDE DEF seen
  <2>4. Len(seen) = Sent + Announced
    BY <2>1, <2>3 DEF InOrder
  <2>5. ASSUME NEW i \in 1..Sent PROVE i <= Len(seen) /\ seen[i] = Delta(i)
    <3>1. i <= Len(seen) /\ i \in 1..(Len(received) + Len(events))
      BY <2>1, <2>2, <2>3, <2>4, <2>5
    <3>2. CASE i <= Len(received)
      BY <2>1, <2>3, <3>1, <3>2 DEF InOrder
    <3>3. CASE ~(i <= Len(received))
      <4> DEFINE k == i - Len(received)
      <4>1. k \in 1..Len(events) /\ Len(received) + k = i /\ i <= Sent
        BY <2>1, <2>2, <2>5, <3>1, <3>3
      <4>2. seen[i] = events[k]
        BY <2>3, <3>1, <3>3
      <4> HIDE DEF k
      <4> QED
        BY <2>1, <3>1, <4>1, <4>2 DEF InOrder
    <3> QED
      BY <3>2, <3>3
  <2> QED
    BY <2>4, <2>5 DEF seen
<1> QED
  BY <1>1, StreamIsInvariant, PTL

\* collect() reports what the loop returned, after all events.
THEOREM CollectTells == StreamSpec => []CollectTruthful
<1>1. StreamInv => CollectTruthful
  BY DEF StreamInv, CollectTruthful
<1> QED
  BY <1>1, StreamIsInvariant, PTL

(***************************************************************************)
(* The requests of a client.                                               *)
(***************************************************************************)

TaskType == [pc : {"idle", "lock", "ask", "write", "wait", "done"}, server : Servers \cup {Nobody},
             id : Nat, call : Nat, starting : BOOLEAN, got : Messages,
             result : {"none", "ok", "error", "cancelled"}]
ServerType == [alive : BOOLEAN, reads : BOOLEAN, writes : BOOLEAN, spawned : BOOLEAN,
               next : Nat \ {0}, pending : SUBSET Nat, queue : Seq(Requests),
               pipe : Seq(Requests), asked : SUBSET Requests, out : Seq(Messages)]
LeftType == [server : Servers, id : Nat \ {0}, how : {"cancelled", "timeout", "write failed"}]

Types ==
    /\ kind \in Kinds /\ client \in Servers \cup {Nobody} /\ asks \in Nat
    /\ server \in [Servers -> ServerType] /\ task \in [Callers -> TaskType]
    /\ lock \in Seq(Callers) /\ left \subseteq LeftType

Elements(s) == {s[k] : k \in DOMAIN s}

\* a request of c's is on its way, or about to be written
Out(c) == task[c].pc \in {"write", "wait"}

\* whoever works with a server behind the mutex is first in its queue
Mutex ==
    kind # "shared" =>
        \A c \in Callers : task[c].pc \in {"ask", "write", "wait"} => lock # <<>> /\ Head(lock) = c

\* what a task is at, by its pc
Tasks ==
    \A c \in Callers :
        LET t == task[c] IN
        /\ t.pc \in {"idle", "lock", "ask"} => t.id = 0 /\ t.got = Nothing
        /\ t.pc \in {"ask", "write", "wait"} => t.server \in Servers /\ server[t.server].spawned
        /\ t.pc = "write" => kind \in Lsp
        /\ t.starting => /\ t.pc \in {"ask", "write", "wait"}
                         /\ kind = "lsp" /\ client = Nobody
        /\ t.result = "ok" => t.pc = "done"

\* an answer is the server's to a request, and what it says besides is either
\* its own request or nothing we can read
Readable(m) == IF m.call = Nobody THEN m = Garbage \/ m.body = "own"
                                  ELSE m.body \in Bodies

Manager == /\ client # Nobody => server[client].spawned
           /\ kind # "lsp" => client # Nobody

Process(s) ==
    /\ ~s.spawned => s = Unborn
    /\ s.pending \subseteq 1..(s.next - 1)
    /\ kind \in Lsp \/ ~s.writes => s.queue = <<>>
    /\ \A m \in Elements(s.out) : Readable(m)
Processes == \A p \in Servers : Process(server[p])

\* the requests on their way to a server and back, and those of its tasks
Held(s) == Elements(s.queue) \cup Elements(s.pipe) \cup s.asked
             \cup {[id |-> m.to, call |-> m.call] : m \in {n \in Elements(s.out) : n.call # Nobody}}
Named(p) == Held(server[p]) \cup {Request(c) : c \in {d \in Callers : Out(d) /\ task[d].server = p}}

\* a number names one request
OneName ==
    \A p \in Servers :
        /\ \A r \in Named(p) : r.id \in 1..(server[p].next - 1) /\ r.call \in 1..asks
        /\ \A r, q \in Named(p) : r.id = q.id => r = q

\* the numbers of what has been parked or written
Beyond(s) == {r.id : r \in Elements(s.pipe) \cup s.asked} \cup s.pending
               \cup {m.to : m \in {n \in Elements(s.out) : n.call # Nobody}}

\* what has not been written is neither parked, read nor answered, and is there once
Apart(s) == \A k \in DOMAIN s.queue :
                /\ s.queue[k].id \notin Beyond(s)
                /\ \A l \in DOMAIN s.queue : l # k => s.queue[l].id # s.queue[k].id
QueueApart == \A p \in Servers : Apart(server[p])

\* an answer a task has heard is to its own request, which is settled
Settled(s, id) == id \notin s.pending /\ \A r \in Elements(s.queue) : r.id # id
HeardOwn ==
    \A c \in Callers :
        LET t == task[c] IN
        Out(c) /\ t.got # Nothing =>
            /\ t.got.call = t.call \/ (kind \in Lsp /\ t.got.body = "own")
            /\ Settled(server[t.server], t.id)

\* a number that was given up without being taken back
GivenUp(some, p, id) ==
    \E e \in some : /\ e.server = p /\ e.id = id
                    /\ e.how \in {"cancelled", IF kind = "mcp" THEN "timeout" ELSE "write failed"}

\* what is to be parked has somebody waiting for it, or was given up
QueueAwaited ==
    \A p \in Servers : \A r \in Elements(server[p].queue) :
        (\E c \in Callers : Waits(c, p, r.id)) \/ GivenUp(left, p, r.id)

\* ParkedIsAwaited, of the names above
ParkedAwaited ==
    \A p \in Servers : \A id \in server[p].pending :
        \/ \E c \in Callers : Waits(c, p, id)
        \/ GivenUp(left, p, id)
        \/ kind = "mcp" /\ ~server[p].reads /\ ~server[p].writes

RpcInv == /\ Types /\ Mutex /\ Tasks /\ Manager /\ Processes /\ OneName /\ QueueApart /\ HeardOwn
          /\ QueueAwaited /\ ParkedAwaited /\ OwnAnswer

\* what a queue holds, when one is taken from its front or put at its end
LEMMA TailElements ==
    ASSUME NEW S, NEW s \in Seq(S), s # <<>>
    PROVE  /\ Tail(s) \in Seq(S) /\ Head(s) \in S
           /\ Elements(s) \subseteq S
           /\ Elements(Tail(s)) \subseteq Elements(s) /\ Head(s) \in Elements(s)
           /\ Len(Tail(s)) = Len(s) - 1
           /\ \A k \in 1..(Len(s) - 1) : Tail(s)[k] = s[k + 1]
<1>1. /\ Len(s) \in Nat /\ Len(s) # 0 /\ DOMAIN s = 1..Len(s)
      /\ \A k \in 1..Len(s) : s[k] \in S
  BY EmptySeq, LenProperties, ElementOfSeq
<1>2. /\ Tail(s) \in Seq(S) /\ Head(s) = s[1] /\ Len(Tail(s)) = Len(s) - 1
      /\ \A k \in 1..(Len(s) - 1) : Tail(s)[k] = s[k + 1]
  BY HeadTailProperties
<1>3. DOMAIN Tail(s) = 1..(Len(s) - 1)
  BY <1>2, LenProperties
<1>4. \A k \in 1..(Len(s) - 1) : k + 1 \in 1..Len(s)
  BY <1>1
<1>5. 1 \in 1..Len(s)
  BY <1>1
<1> QED
  BY <1>1, <1>2, <1>3, <1>4, <1>5 DEF Elements

LEMMA AppendElements ==
    ASSUME NEW S, NEW s \in Seq(S), NEW x \in S
    PROVE  /\ Append(s, x) \in Seq(S)
           /\ Elements(Append(s, x)) = Elements(s) \cup {x}
           /\ Len(Append(s, x)) = Len(s) + 1 /\ DOMAIN s = 1..Len(s) /\ Len(s) \in Nat
           /\ DOMAIN Append(s, x) = 1..(Len(s) + 1)
           /\ \A k \in 1..Len(s) : Append(s, x)[k] = s[k]
           /\ Append(s, x)[Len(s) + 1] = x
<1>1. Len(s) \in Nat /\ DOMAIN s = 1..Len(s)
  BY LenProperties
<1>2. /\ Append(s, x) \in Seq(S) /\ Len(Append(s, x)) = Len(s) + 1
      /\ \A k \in 1..Len(s) : Append(s, x)[k] = s[k]
      /\ Append(s, x)[Len(s) + 1] = x
  BY AppendProperties
<1>3. DOMAIN Append(s, x) = 1..(Len(s) + 1)
  BY <1>2, LenProperties
<1>4. \A k \in 1..(Len(s) + 1) : k \in 1..Len(s) \/ k = Len(s) + 1
  BY <1>1
<1>5. \A k \in 1..Len(s) : k \in 1..(Len(s) + 1)
  BY <1>1
<1>6. Len(s) + 1 \in 1..(Len(s) + 1)
  BY <1>1
<1>7. Elements(Append(s, x)) \subseteq Elements(s) \cup {x}
  BY <1>1, <1>2, <1>3, <1>4 DEF Elements
<1>8. Elements(s) \subseteq Elements(Append(s, x))
  BY <1>1, <1>2, <1>3, <1>5 DEF Elements
<1>9. x \in Elements(Append(s, x))
  BY <1>2, <1>3, <1>6 DEF Elements
<1> QED
  BY <1>1, <1>2, <1>3, <1>7, <1>8, <1>9

LEMMA EmptyElements == Elements(<<>>) = {}
BY DEF Elements

LEMMA SomeElements == ASSUME NEW S, NEW s \in Seq(S) PROVE Elements(s) \subseteq S
<1>1. DOMAIN s = 1..Len(s) /\ \A k \in 1..Len(s) : s[k] \in S
  BY LenProperties, ElementOfSeq
<1> QED
  BY <1>1 DEF Elements

\* the mutex's queue when a task leaves it
LEMMA LeaveHead ==
    ASSUME NEW c \in Callers, lock \in Seq(Callers)
    PROVE  /\ Leave(c) \in Seq(Callers)
           /\ lock # <<>> /\ Head(lock) # c => Leave(c) # <<>> /\ Head(Leave(c)) = Head(lock)
<1> DEFINE n == Len(lock)
           shorter == [k \in 1..(n - 1) |-> IF \E l \in 1..k : lock[l] = c THEN lock[k + 1] ELSE lock[k]]
<1>1. n \in Nat /\ DOMAIN lock = 1..n /\ \A k \in 1..n : lock[k] \in Callers
  BY LenProperties, ElementOfSeq
<1>2. CASE \A k \in DOMAIN lock : lock[k] # c
  BY <1>2 DEF Leave
<1>3. CASE ~ \A k \in DOMAIN lock : lock[k] # c
  <2>1. PICK k \in 1..n : lock[k] = c
    BY <1>1, <1>3
  <2>2. Leave(c) = shorter
    BY <1>3 DEF Leave
  <2>3. n - 1 \in Nat /\ \A l \in 1..(n - 1) : l \in 1..n /\ l + 1 \in 1..n
    BY <1>1, <2>1
  <2>4. shorter \in [1..(n - 1) -> Callers]
    BY <1>1, <2>3
  <2>5. shorter \in Seq(Callers) /\ Len(shorter) = n - 1
    BY <2>3, <2>4, IsASeq, LenProperties
  <2>6. ASSUME lock # <<>>, Head(lock) # c
        PROVE  shorter # <<>> /\ Head(shorter) = Head(lock)
    <3>1. Head(lock) = lock[1]
      BY <2>6, HeadTailProperties
    <3>2. n - 1 # 0 /\ 1 \in 1..(n - 1)
      <4>1. k # 1
        BY <2>1, <2>6, <3>1
      <4> QED
        BY <1>1, <2>1, <4>1
    <3>3. shorter[1] = lock[1]
      <4>1. \A l \in 1..1 : l = 1
        OBVIOUS
      <4> QED
        BY <2>6, <3>1, <3>2, <4>1
    <3>4. shorter # <<>>
      BY <2>5, <3>2, EmptySeq
    <3>5. Head(shorter) = shorter[1]
      BY <2>5, <3>4, HeadTailProperties
    <3> QED
      BY <3>1, <3>3, <3>4, <3>5
  <2> HIDE DEF shorter
  <2> QED
    BY <2>2, <2>5, <2>6
<1> QED
  BY <1>2, <1>3

\* what the definitions of the module are of
LEMMA Shapes ==
    /\ Nothing \in Messages /\ Garbage \in Messages /\ Nothing # Garbage
    /\ Nothing.call = 0 /\ Garbage.call = 0 /\ Garbage.to = 0
    /\ Idle \in TaskType /\ Idle.pc = "idle" /\ Idle.id = 0 /\ Idle.got = Nothing
    /\ Idle.result = "none" /\ ~Idle.starting /\ Idle.server = Nobody
    /\ Unborn \in ServerType /\ Born \in ServerType /\ Abandoned \in ServerType
    /\ Born.spawned /\ Abandoned.spawned
<1>1. Nothing \in Messages /\ Garbage \in Messages /\ Nothing # Garbage
      /\ Nothing.call = 0 /\ Garbage.call = 0 /\ Garbage.to = 0
  BY DEF Nothing, Garbage, Answer, Nobody, Messages, Bodies
<1>2. /\ Idle \in TaskType /\ Idle.pc = "idle" /\ Idle.id = 0 /\ Idle.got = Nothing
      /\ Idle.result = "none" /\ ~Idle.starting /\ Idle.server = Nobody
  BY <1>1 DEF Idle, TaskType, Nobody
<1>3. <<>> \in Seq(Requests) /\ <<>> \in Seq(Messages)
  BY EmptySeq
<1>4. Unborn \in ServerType
  BY <1>3 DEF Unborn, ServerType
<1>5. Born \in ServerType /\ Abandoned \in ServerType /\ Born.spawned /\ Abandoned.spawned
  BY <1>4 DEF Unborn, Born, Abandoned, ServerType
<1> QED
  BY <1>1, <1>2, <1>4, <1>5

\* a server that has nothing
LEMMA Nothings ==
    ASSUME NEW s \in {Unborn, Born, Abandoned}
    PROVE  /\ s.pending = {} /\ s.queue = <<>> /\ s.pipe = <<>> /\ s.asked = {} /\ s.out = <<>>
           /\ s.next = 1 /\ Held(s) = {} /\ Apart(s) /\ Process(s)
<1>1. /\ s.pending = {} /\ s.queue = <<>> /\ s.pipe = <<>> /\ s.asked = {} /\ s.out = <<>>
      /\ s.next = 1 /\ (~s.spawned => s = Unborn)
  <2>1. CASE s = Unborn
    BY <2>1 DEF Unborn
  <2>2. CASE s = Born
    BY <2>2 DEF Unborn, Born
  <2>3. CASE s = Abandoned
    BY <2>3 DEF Unborn, Abandoned
  <2> QED
    BY <2>1, <2>2, <2>3
<1>2. Held(s) = {}
  BY <1>1, EmptyElements DEF Held
<1>3. Apart(s)
  BY <1>1 DEF Apart
<1>4. Process(s)
  BY <1>1, EmptyElements DEF Process
<1> QED
  BY <1>1, <1>2, <1>3, <1>4

\* at the start there is no request
LEMMA InitRpc == ASSUME RpcAssumption, Init PROVE RpcInv
<1>1. /\ \A p \in Servers : server[p] \in {Unborn, Born, Abandoned}
      /\ 1 \in Servers /\ Servers \subseteq Nat \ {0}
  BY DEF Init, RpcAssumption, Servers
<1>2. \A c \in Callers : task[c] = Idle
  BY DEF Init
<1>3. Types
  <2>1. server \in [Servers -> ServerType] /\ task \in [Callers -> TaskType]
    BY Shapes DEF Init
  <2>2. lock \in Seq(Callers)
    BY EmptySeq DEF Init
  <2> QED
    BY <1>1, <2>1, <2>2 DEF Init, Types, Nobody
<1>4. Mutex /\ Tasks
  BY <1>2, Shapes DEF Mutex, Tasks
<1>5. Manager
  <2>1. client # Nobody => client = 1 /\ server[client] = Born
    BY <1>1 DEF Init, Nobody
  <2> QED
    BY <2>1, Shapes DEF Manager, Init, Nobody
<1>6. Processes /\ QueueApart
  BY <1>1, Nothings DEF Processes, QueueApart
<1>7. \A p \in Servers : Named(p) = {} /\ Elements(server[p].queue) = {} /\ server[p].pending = {}
  BY <1>1, <1>2, Nothings, EmptyElements, Shapes DEF Named, Out
<1>8. OneName /\ QueueAwaited /\ ParkedAwaited
  BY <1>7 DEF OneName, QueueAwaited, ParkedAwaited
<1>9. HeardOwn /\ OwnAnswer
  BY <1>2, Shapes DEF HeardOwn, OwnAnswer, Out
<1> QED
  BY <1>3, <1>4, <1>5, <1>6, <1>8, <1>9 DEF RpcInv

-----------------------------------------------------------------------------
(* A call ends: its task leaves the mutex and hears of its request no more.  *)
(* What it leaves parked or queued is settled, given up, or dead.            *)
Ends(c) ==
    /\ task[c].pc \in {"lock", "ask", "write", "wait"}
    /\ \E r \in {"ok", "error", "cancelled"} :
         /\ End(c, r)
         /\ r = "ok" => /\ task[c].pc = "wait" /\ ~task[c].starting
                        /\ task[c].got # Nothing /\ Succeeded(task[c].got)
    /\ \A p \in Servers :
         /\ server'[p] = [server[p] EXCEPT !.pending = server'[p].pending]
         /\ server'[p].pending \subseteq server[p].pending
    /\ left \subseteq left' /\ left' \subseteq LeftType
    /\ Out(c) => \/ Settled(server'[task[c].server], task[c].id)
                 \/ GivenUp(left', task[c].server, task[c].id)
                 \/ /\ kind = "mcp"
                    /\ ~server[task[c].server].reads /\ ~server[task[c].server].writes
    /\ UNCHANGED <<kind, client, asks>> /\ server' = [p \in Servers |-> server'[p]]

LEMMA EndsKeep == ASSUME NEW c \in Callers, RpcInv, Ends(c) PROVE RpcInv'
<1> USE DEF RpcInv
<1>1. PICK r \in {"ok", "error", "cancelled"} :
         /\ End(c, r)
         /\ r = "ok" => /\ task[c].pc = "wait" /\ ~task[c].starting
                        /\ task[c].got # Nothing /\ Succeeded(task[c].got)
  BY DEF Ends
<1> DEFINE t == IF r = "ok" THEN [task[c] EXCEPT !.pc = "done", !.result = "ok"]
                ELSE [Idle EXCEPT !.pc = "done", !.result = r]
<1>2. task' = [task EXCEPT ![c] = t] /\ lock' = Leave(c)
  <2>1. CASE r = "ok"
    BY <1>1, <2>1 DEF End
  <2>2. CASE r # "ok"
    BY <1>1, <2>2 DEF End
  <2> QED
    BY <2>1, <2>2
<1>3. task[c] \in TaskType /\ task \in [Callers -> TaskType]
  BY DEF Types
<1>4. /\ t \in TaskType /\ t.pc = "done" /\ ~t.starting
      /\ t.result = "ok" => /\ t.call = task[c].call /\ t.got = task[c].got
                            /\ r = "ok"
  <2>1. CASE r = "ok"
    BY <1>1, <1>3, <2>1 DEF TaskType
  <2>2. CASE r # "ok"
    BY <1>1, <2>2, Shapes DEF TaskType
  <2> QED
    BY <2>1, <2>2
<1>5. /\ task' \in [Callers -> TaskType] /\ task'[c] = t
      /\ \A d \in Callers : d # c => task'[d] = task[d]
  BY <1>2, <1>3, <1>4
<1> HIDE DEF t
<1>6. \A p \in Servers :
        LET s == server[p]  u == server'[p] IN
        /\ u \in ServerType
        /\ u.alive = s.alive /\ u.reads = s.reads /\ u.writes = s.writes /\ u.spawned = s.spawned
        /\ u.next = s.next /\ u.queue = s.queue /\ u.pipe = s.pipe /\ u.asked = s.asked
        /\ u.out = s.out /\ u.pending \subseteq s.pending
  <2> SUFFICES ASSUME NEW p \in Servers, NEW s \in ServerType, s = server[p],
                      NEW u, u = server'[p]
               PROVE  /\ u \in ServerType
                      /\ u.alive = s.alive /\ u.reads = s.reads /\ u.writes = s.writes
                      /\ u.spawned = s.spawned
                      /\ u.next = s.next /\ u.queue = s.queue /\ u.pipe = s.pipe
                      /\ u.asked = s.asked
                      /\ u.out = s.out /\ u.pending \subseteq s.pending
    BY DEF Types
  <2>1. PICK few : few = u.pending
    OBVIOUS
  <2>2. u = [s EXCEPT !.pending = few] /\ few \subseteq s.pending
    BY <2>1 DEF Ends
  <2> QED
    BY <2>1, <2>2 DEF ServerType
<1>7. UNCHANGED <<kind, client, asks>> /\ left \subseteq left' /\ left' \subseteq LeftType
      /\ server' = [p \in Servers |-> server'[p]]
  BY DEF Ends
<1>8. task[c].pc \in {"lock", "ask", "write", "wait"}
  BY DEF Ends
<1>9. Types'
  <2>1. lock' \in Seq(Callers)
    BY <1>2, LeaveHead DEF Types
  <2>2. server' \in [Servers -> ServerType]
    BY <1>6, <1>7
  <2> QED
    BY <1>5, <1>7, <2>1, <2>2 DEF Types
<1>10. Mutex'
  <2> SUFFICES ASSUME kind # "shared", NEW d \in Callers, task'[d].pc \in {"ask", "write", "wait"}
               PROVE  lock' # <<>> /\ Head(lock') = d
    BY <1>7 DEF Mutex
  <2>1. d # c /\ task'[d] = task[d]
    BY <1>4, <1>5
  <2>2. lock # <<>> /\ Head(lock) = d /\ lock \in Seq(Callers)
    BY <2>1 DEF Mutex, Types
  <2> QED
    BY <1>2, <2>1, <2>2, LeaveHead
<1>11. Tasks'
  <2> SUFFICES ASSUME NEW d \in Callers
               PROVE  /\ task'[d].pc \in {"idle", "lock", "ask"} => task'[d].id = 0 /\ task'[d].got = Nothing
                      /\ task'[d].pc \in {"ask", "write", "wait"} =>
                            task'[d].server \in Servers /\ server'[task'[d].server].spawned
                      /\ task'[d].pc = "write" => kind' \in Lsp
                      /\ task'[d].starting => /\ task'[d].pc \in {"ask", "write", "wait"}
                                              /\ kind' = "lsp" /\ client' = Nobody
                      /\ task'[d].result = "ok" => task'[d].pc = "done"
    BY DEF Tasks
  <2>1. CASE d = c
    BY <1>4, <1>5, <2>1
  <2>2. CASE d # c
    <3>1. task'[d] = task[d]
      BY <1>5, <2>2
    <3>2. task[d].pc \in {"ask", "write", "wait"} =>
             task[d].server \in Servers /\ server'[task[d].server].spawned
      BY <1>6 DEF Tasks
    <3> QED
      BY <1>7, <3>1, <3>2 DEF Tasks
  <2> QED
    BY <2>1, <2>2
<1>12. Manager'
  BY <1>6, <1>7 DEF Manager, Types, Nobody
<1>13. Processes'
  <2>1. \A m : Readable(m)' = Readable(m)
    BY <1>7 DEF Readable
  <2> SUFFICES ASSUME NEW p \in Servers
               PROVE  /\ ~server'[p].spawned => server'[p] = Unborn
                      /\ server'[p].pending \subseteq 1..(server'[p].next - 1)
                      /\ kind \in Lsp \/ ~server'[p].writes => server'[p].queue = <<>>
                      /\ \A m \in Elements(server'[p].out) : Readable(m)
    BY <1>7, <2>1 DEF Processes, Process
  <2>2. Process(server[p])
    BY DEF Processes
  <2>3. ASSUME ~server'[p].spawned PROVE server'[p] = Unborn
    <3>1. server[p] = Unborn /\ Unborn.pending = {}
      BY <1>6, <2>2, <2>3, Nothings DEF Process
    <3>2. server'[p] = [Unborn EXCEPT !.pending = server'[p].pending] /\ server'[p].pending = {}
      BY <1>6, <3>1 DEF Ends
    <3> QED
      BY <3>2 DEF Unborn
  <2> QED
    BY <1>6, <2>2, <2>3 DEF Process
<1>14. \A p \in Servers : Named(p)' \subseteq Named(p)
  <2> TAKE p \in Servers
  <2>1. Held(server'[p]) = Held(server[p])
    BY <1>6 DEF Held
  <2>2. Named(p)' = Held(server'[p]) \cup {Request(d)' : d \in {e \in Callers : Out(e)' /\ task'[e].server = p}}
    BY DEF Named, Held
  <2>3. \A d \in Callers : Out(d)' => d # c /\ Out(d) /\ task'[d] = task[d] /\ Request(d)' = Request(d)
    BY <1>4, <1>5 DEF Out, Request
  <2> QED
    BY <2>1, <2>2, <2>3 DEF Named
<1>15. OneName'
  BY <1>6, <1>7, <1>14 DEF OneName
<1>16. QueueApart'
  <2>1. \A p \in Servers : Beyond(server'[p]) \subseteq Beyond(server[p])
    BY <1>6 DEF Beyond
  <2> QED
    BY <1>6, <2>1 DEF QueueApart, Apart, Beyond
<1>17. HeardOwn'
  <2> SUFFICES ASSUME NEW d \in Callers, Out(d)', task'[d].got # Nothing
               PROVE  /\ \/ task'[d].got.call = task'[d].call
                         \/ kind' \in Lsp /\ task'[d].got.body = "own"
                      /\ Settled(server'[task'[d].server], task'[d].id)
    BY DEF HeardOwn, Settled
  <2>1. d # c /\ task'[d] = task[d] /\ Out(d)
    BY <1>4, <1>5 DEF Out
  <2>2. task[d].server \in Servers
    BY <2>1 DEF Tasks, Out
  <2>3. Settled(server[task[d].server], task[d].id)
    BY <2>1 DEF HeardOwn
  <2>4. Settled(server'[task[d].server], task[d].id)
    BY <1>6, <2>2, <2>3 DEF Settled
  <2> QED
    BY <1>7, <2>1, <2>4 DEF HeardOwn
<1>18. ASSUME NEW p \in Servers, NEW d \in Callers, NEW id, Waits(d, p, id)
       PROVE  \/ Waits(d, p, id)'
              \/ Settled(server'[p], id)
              \/ GivenUp(left', p, id)
              \/ kind = "mcp" /\ ~server[p].reads /\ ~server[p].writes
  <2>1. CASE d # c
    BY <1>5, <1>18, <2>1 DEF Waits
  <2>2. CASE d = c
    BY <1>18, <2>2 DEF Waits, Out, Ends
  <2> QED
    BY <2>1, <2>2
<1>19. \A p, id : GivenUp(left, p, id) => GivenUp(left', p, id)
  BY <1>7 DEF GivenUp
<1>23. \A p, id : GivenUp(left, p, id)' = GivenUp(left', p, id)
  BY <1>7 DEF GivenUp
<1>20. QueueAwaited'
  <2> SUFFICES ASSUME NEW p \in Servers, NEW q \in Elements(server'[p].queue)
               PROVE  (\E d \in Callers : Waits(d, p, q.id)') \/ GivenUp(left', p, q.id)
    BY <1>7, <1>23 DEF QueueAwaited, Elements
  <2>1. q \in Elements(server[p].queue)
    BY <1>6
  <2>2. server[p].writes
    BY <2>1, EmptyElements DEF Processes, Process
  <2>3. ~Settled(server'[p], q.id)
    BY DEF Settled
  <2> QED
    BY <1>18, <1>19, <2>1, <2>2, <2>3 DEF QueueAwaited
<1>21. ParkedAwaited'
  <2> SUFFICES ASSUME NEW p \in Servers, NEW id \in server'[p].pending
               PROVE  \/ \E d \in Callers : Waits(d, p, id)'
                      \/ GivenUp(left', p, id)
                      \/ kind = "mcp" /\ ~server'[p].reads /\ ~server'[p].writes
    BY <1>7, <1>23 DEF ParkedAwaited
  <2>1. id \in server[p].pending
    BY <1>6
  <2>2. ~Settled(server'[p], id)
    BY DEF Settled
  <2>3. \/ \E d \in Callers : Waits(d, p, id)
        \/ GivenUp(left, p, id)
        \/ kind = "mcp" /\ ~server[p].reads /\ ~server[p].writes
    BY <2>1 DEF ParkedAwaited
  <2> QED
    BY <1>6, <1>18, <1>19, <2>2, <2>3
<1>22. OwnAnswer'
  <2> SUFFICES ASSUME NEW d \in Callers, task'[d].result = "ok"
               PROVE  /\ task'[d].got.body # "error"
                      /\ \/ task'[d].got.call = task'[d].call
                         \/ kind \in Lsp /\ task'[d].got.body = "own"
    BY <1>7 DEF OwnAnswer
  <2>1. CASE d # c
    BY <1>5, <2>1 DEF OwnAnswer
  <2>2. CASE d = c
    BY <1>1, <1>4, <1>5, <2>2 DEF HeardOwn, Out, Succeeded
  <2> QED
    BY <2>1, <2>2
<1> QED
  BY <1>9, <1>10, <1>11, <1>12, <1>13, <1>15, <1>16, <1>17, <1>20, <1>21, <1>22

\* a request that is out has a number of its server's
LEMMA OutFacts ==
    ASSUME NEW c \in Callers, RpcInv, Out(c)
    PROVE  /\ task[c].server \in Servers /\ server[task[c].server] \in ServerType
           /\ server[task[c].server].spawned
           /\ Request(c) \in Named(task[c].server)
           /\ task[c].id \in 1..(server[task[c].server].next - 1) /\ task[c].id \in Nat \ {0}
           /\ task[c].call \in 1..asks /\ task[c].call # 0
<1>1. task[c].server \in Servers /\ server[task[c].server].spawned
  BY DEF RpcInv, Tasks, Out
<1>2. server[task[c].server] \in ServerType
  BY <1>1 DEF RpcInv, Types
<1>3. Request(c) \in Named(task[c].server)
  BY DEF Named
<1>4. Request(c).id \in 1..(server[task[c].server].next - 1) /\ Request(c).call \in 1..asks
  BY <1>1, <1>3 DEF RpcInv, OneName
<1>5. Request(c).id = task[c].id /\ Request(c).call = task[c].call
  BY DEF Request
<1>6. server[task[c].server].next \in Nat /\ asks \in Nat
  BY <1>2 DEF ServerType, RpcInv, Types
<1>7. \A n, m \in Nat : \A k \in 1..n : k \in Nat \ {0} /\ k # 0
  OBVIOUS
<1>8. \A n \in Nat : \A k \in 1..(n - 1) : k \in Nat \ {0}
  OBVIOUS
<1> QED
  BY <1>1, <1>2, <1>3, <1>4, <1>5, <1>6, <1>7, <1>8

\* ending a call without touching a server
LEMMA SameServer ==
    ASSUME RpcInv, UNCHANGED server
    PROVE  /\ server' = [p \in Servers |-> server'[p]]
           /\ \A p \in Servers :
                /\ server'[p] = [server[p] EXCEPT !.pending = server'[p].pending]
                /\ server'[p].pending \subseteq server[p].pending
<1>1. server \in [Servers -> ServerType]
  BY DEF RpcInv, Types
<1>2. \A s \in ServerType : s = [s EXCEPT !.pending = s.pending]
  BY DEF ServerType
<1> QED
  BY <1>1, <1>2

\* what a call leaves behind
LEMMA LeavesBehind ==
    ASSUME NEW c \in Callers, RpcInv, NEW how \in {"cancelled", "timeout", "write failed"},
           Leaves(c, how), task[c].pc \in {"lock", "ask", "write", "wait"}
    PROVE  /\ left \subseteq left' /\ left' \subseteq LeftType
           /\ Out(c) => [server |-> task[c].server, id |-> task[c].id, how |-> how] \in left'
<1>1. left \subseteq LeftType
  BY DEF RpcInv, Types
<1>2. CASE Out(c)
  <2>1. task[c].id # 0 /\ task[c].id \in Nat \ {0} /\ task[c].server \in Servers
    BY <1>2, OutFacts
  <2>2. left' = left \cup {[server |-> task[c].server, id |-> task[c].id, how |-> how]}
    BY <2>1 DEF Leaves
  <2>3. [server |-> task[c].server, id |-> task[c].id, how |-> how] \in LeftType
    BY <2>1 DEF LeftType
  <2> QED
    BY <1>1, <2>2, <2>3
<1>3. CASE ~Out(c)
  <2>1. task[c].id = 0
    BY <1>3 DEF RpcInv, Tasks, Out
  <2> QED
    BY <1>1, <1>3, <2>1 DEF Leaves
<1> QED
  BY <1>2, <1>3

\* every way a call ends
LEMMA EnterEnds ==
    ASSUME NEW c \in Callers, RpcInv, task[c].pc \in {"lock", "ask"}, End(c, "error"),
           UNCHANGED <<kind, client, server, asks, left>>
    PROVE  Ends(c)
<1>1. ~Out(c) /\ left \subseteq LeftType
  BY DEF Out, RpcInv, Types
<1> QED
  BY <1>1, SameServer DEF Ends

LEMMA WriteEnds ==
    ASSUME NEW c \in Callers, RpcInv, task[c].pc = "write", End(c, "error"), Leaves(c, "write failed"),
           UNCHANGED <<kind, client, server, asks>>
    PROVE  Ends(c)
<1>1. kind # "mcp" /\ Out(c)
  BY DEF RpcInv, Tasks, Lsp, Out
<1>2. /\ left \subseteq left' /\ left' \subseteq LeftType
      /\ [server |-> task[c].server, id |-> task[c].id, how |-> "write failed"] \in left'
  BY <1>1, LeavesBehind
<1>3. GivenUp(left', task[c].server, task[c].id)
  BY <1>1, <1>2 DEF GivenUp
<1> QED
  BY <1>2, <1>3, SameServer DEF Ends

LEMMA WakeEnds ==
    ASSUME NEW c \in Callers, RpcInv, task[c].pc = "wait", task[c].got # Nothing,
           NEW r \in {"ok", "error"}, End(c, r),
           r = "ok" => ~task[c].starting /\ Succeeded(task[c].got),
           UNCHANGED <<kind, client, server, asks, left>>
    PROVE  Ends(c)
<1>1. Out(c) /\ left \subseteq LeftType
  BY DEF Out, RpcInv, Types
<1>2. Settled(server[task[c].server], task[c].id)
  BY <1>1 DEF RpcInv, HeardOwn
<1> QED
  BY <1>1, <1>2, SameServer DEF Ends

LEMMA TimeoutEnds == ASSUME NEW c \in Callers, RpcInv, Timeout(c) PROVE Ends(c)
<1>1. /\ task[c].pc = "wait" /\ End(c, "error") /\ Leaves(c, "timeout")
      /\ UNCHANGED <<kind, client, calls, asks>> /\ Out(c)
  BY DEF Timeout, Out
<1>2. /\ left \subseteq left' /\ left' \subseteq LeftType
      /\ [server |-> task[c].server, id |-> task[c].id, how |-> "timeout"] \in left'
  BY <1>1, LeavesBehind
<1>3. PICK p \in Servers : p = task[c].server
  BY <1>1, OutFacts
<1>4. server' = [server EXCEPT ![p] = Forget(@, task[c].id)]
  BY <1>3 DEF Timeout
<1>5. server \in [Servers -> ServerType]
  BY DEF RpcInv, Types
<1>6. CASE kind \in Lsp
  <2>1. server' = [server EXCEPT ![p] = [server[p] EXCEPT !.pending = server[p].pending \ {task[c].id}]]
    BY <1>4, <1>6 DEF Forget
  <2>2. PICK few : few = server[p].pending \ {task[c].id}
    OBVIOUS
  <2>3. PICK s \in ServerType : s = server[p]
    BY <1>5
  <2>4. PICK u : u = [s EXCEPT !.pending = few]
    OBVIOUS
  <2>5. u.pending = few /\ u.queue = s.queue
    BY <2>3, <2>4 DEF ServerType
  <2>6. server' = [server EXCEPT ![p] = u]
    BY <2>1, <2>2, <2>3, <2>4
  <2>7. server'[p] = u /\ (\A q \in Servers : q # p => server'[q] = server[q])
        /\ server' = [q \in Servers |-> server'[q]]
    BY <1>5, <2>6
  <2>8. \A r \in ServerType : r = [r EXCEPT !.pending = r.pending]
    BY DEF ServerType
  <2>9. \A q \in Servers : /\ server'[q] = [server[q] EXCEPT !.pending = server'[q].pending]
                           /\ server'[q].pending \subseteq server[q].pending
    <3> TAKE q \in Servers
    <3>1. CASE q = p
      BY <2>2, <2>3, <2>4, <2>5, <2>7, <3>1
    <3>2. CASE q # p
      BY <1>5, <2>7, <2>8, <3>2
    <3> QED
      BY <3>1, <3>2
  <2>10. Settled(u, task[c].id)
    <3>1. s.queue = <<>>
      BY <1>6, <2>3 DEF RpcInv, Processes, Process
    <3> QED
      BY <2>2, <2>5, <3>1, EmptyElements DEF Settled
  <2> QED
    BY <1>1, <1>2, <1>3, <2>7, <2>9, <2>10 DEF Ends
<1>7. CASE kind \notin Lsp
  <2>1. server' = server
    BY <1>4, <1>5, <1>7 DEF Forget
  <2>2. kind = "mcp"
    BY <1>7 DEF RpcInv, Types, Kinds, Lsp
  <2>3. GivenUp(left', task[c].server, task[c].id)
    BY <1>2, <2>2 DEF GivenUp
  <2> QED
    BY <1>1, <1>2, <2>1, <2>3, SameServer DEF Ends
<1> QED
  BY <1>6, <1>7

LEMMA ClosedEnds == ASSUME NEW c \in Callers, RpcInv, Closed(c) PROVE Ends(c)
<1>1. /\ kind = "mcp" /\ task[c].pc = "wait" /\ SenderGone(c) /\ End(c, "error")
      /\ UNCHANGED <<kind, client, server, asks, left>> /\ Out(c)
  BY DEF Closed, Out
<1>2. \/ ~server[task[c].server].reads /\ ~server[task[c].server].writes
      \/ Settled(server[task[c].server], task[c].id)
  BY <1>1 DEF SenderGone, Mine, Settled, Elements
<1>3. left \subseteq LeftType
  BY DEF RpcInv, Types
<1> QED
  BY <1>1, <1>2, <1>3, SameServer DEF Ends

LEMMA CancelEnds == ASSUME NEW c \in Callers, RpcInv, Cancel(c) PROVE Ends(c)
<1>1. /\ task[c].pc \in {"lock", "ask", "write", "wait"} /\ End(c, "cancelled") /\ Leaves(c, "cancelled")
      /\ UNCHANGED <<kind, client, server, asks>>
  BY DEF Cancel
<1>2. /\ left \subseteq left' /\ left' \subseteq LeftType
      /\ Out(c) => [server |-> task[c].server, id |-> task[c].id, how |-> "cancelled"] \in left'
  BY <1>1, LeavesBehind
<1>3. Out(c) => GivenUp(left', task[c].server, task[c].id)
  BY <1>2 DEF GivenUp
<1> QED
  BY <1>1, <1>2, <1>3, SameServer DEF Ends

-----------------------------------------------------------------------------
(* A step of a server or of the writer: no task and no number changes.       *)
LEMMA ServerKeeps ==
    ASSUME RpcInv, NEW p \in Servers, NEW new \in ServerType, NEW s, s = server[p],
           server' = [server EXCEPT ![p] = new],
           UNCHANGED <<kind, client, lock, task, asks, left>>,
           new.spawned = s.spawned, new.next = s.next,
           ~s.reads => ~new.reads, ~s.writes => ~new.writes,
           Process(new), Apart(new), Held(new) \subseteq Held(s),
           Elements(new.queue) \subseteq Elements(s.queue),
           \A id \in new.pending : id \in s.pending \/ \E r \in Elements(s.queue) : r.id = id
    PROVE  RpcInv'
<1> USE DEF RpcInv
<1>1. /\ server' \in [Servers -> ServerType] /\ server'[p] = new
      /\ \A q \in Servers : q # p => server'[q] = server[q]
  BY DEF Types
<1>2. Types' /\ Mutex'
  BY <1>1 DEF Types, Mutex
<1>3. \A q \in Servers : server'[q].spawned = server[q].spawned /\ server'[q].next = server[q].next
  BY <1>1
<1>4. Tasks' /\ Manager'
  BY <1>3 DEF Tasks, Manager, Types, Nobody
<1>5. Processes'
  <2>1. \A m : Readable(m)' = Readable(m)
    BY DEF Readable
  <2>2. \A q \in Servers : Process(server'[q])
    BY <1>1 DEF Processes
  <2> QED
    BY <2>1, <2>2 DEF Processes, Process
<1>6. OneName'
  <2>1. \A q \in Servers : Named(q)' \subseteq Named(q)
    <3> TAKE q \in Servers
    <3>1. Held(server'[q]) \subseteq Held(server[q])
      BY <1>1
    <3>2. Named(q)' = Held(server'[q]) \cup {Request(c) : c \in {d \in Callers : Out(d) /\ task[d].server = q}}
      BY DEF Named, Held, Elements, Out, Request
    <3> QED
      BY <3>1, <3>2 DEF Named
  <2> QED
    BY <1>3, <2>1 DEF OneName
<1>7. QueueApart'
  <2>1. \A q \in Servers : Apart(server'[q])
    BY <1>1 DEF QueueApart
  <2> QED
    BY <2>1 DEF QueueApart, Apart, Beyond, Elements
<1>8. HeardOwn'
  <2>1. \A q \in Servers : \A id : Settled(server[q], id) => Settled(server'[q], id)
    BY <1>1 DEF Settled
  <2>2. ASSUME NEW c \in Callers, Out(c), task[c].got # Nothing
        PROVE  /\ task[c].got.call = task[c].call \/ (kind \in Lsp /\ task[c].got.body = "own")
               /\ Settled(server'[task[c].server], task[c].id)
    <3>1. task[c].server \in Servers
      BY <2>2 DEF Tasks, Out
    <3> QED
      BY <2>1, <2>2, <3>1 DEF HeardOwn
  <2> QED
    BY <2>2 DEF HeardOwn, Out, Settled
<1>9. /\ \A q, id : GivenUp(left, q, id)' = GivenUp(left, q, id)
      /\ \A c, q, id : Waits(c, q, id)' = Waits(c, q, id)
  BY DEF GivenUp, Waits
<1>10. \A q \in Servers : Elements(server'[q].queue) \subseteq Elements(server[q].queue)
  BY <1>1
<1>11. QueueAwaited'
  <2>1. \A q \in Servers : \A r \in Elements(server'[q].queue) :
           (\E c \in Callers : Waits(c, q, r.id)) \/ GivenUp(left, q, r.id)
    BY <1>10 DEF QueueAwaited
  <2> QED
    BY <1>9, <2>1 DEF QueueAwaited, Elements
<1>12. ParkedAwaited'
  <2> SUFFICES ASSUME NEW q \in Servers, NEW id \in server'[q].pending
               PROVE  \/ \E c \in Callers : Waits(c, q, id)
                      \/ GivenUp(left, q, id)
                      \/ kind = "mcp" /\ ~server'[q].reads /\ ~server'[q].writes
    BY <1>9 DEF ParkedAwaited
  <2>1. \/ id \in server[q].pending
        \/ \E r \in Elements(server[q].queue) : r.id = id
    BY <1>1
  <2>2. CASE id \in server[q].pending
    BY <1>1, <2>2 DEF ParkedAwaited
  <2>3. CASE \E r \in Elements(server[q].queue) : r.id = id
    BY <2>3 DEF QueueAwaited
  <2> QED
    BY <2>1, <2>2, <2>3
<1>13. OwnAnswer'
  BY DEF OwnAnswer
<1> QED
  BY <1>2, <1>4, <1>5, <1>6, <1>7, <1>8, <1>11, <1>12, <1>13

\* the server reads, dies, or the reader sees its end
LEMMA ReadsKeeps == ASSUME NEW p \in Servers, RpcInv, Reads(p) PROVE RpcInv'
<1>1. PICK s \in ServerType : s = server[p]
  BY DEF RpcInv, Types
<1>2. s.pipe # <<>> /\ UNCHANGED <<kind, client, lock, task, asks, left>>
  BY <1>1 DEF Reads
<1>3. PICK x : x = Head(s.pipe)
  OBVIOUS
<1>4. PICK rest : rest = Tail(s.pipe)
  OBVIOUS
<1>5. /\ rest \in Seq(Requests) /\ x \in Requests /\ x \in Elements(s.pipe)
      /\ Elements(rest) \subseteq Elements(s.pipe)
  BY <1>2, <1>3, <1>4, TailElements DEF ServerType
<1>6. PICK new : new = [s EXCEPT !.pipe = rest, !.asked = s.asked \cup {x}]
  OBVIOUS
<1>7. /\ new \in ServerType /\ new.pipe = rest /\ new.asked = s.asked \cup {x}
      /\ new.spawned = s.spawned /\ new.next = s.next /\ new.reads = s.reads /\ new.writes = s.writes
      /\ new.queue = s.queue /\ new.out = s.out /\ new.pending = s.pending
  BY <1>5, <1>6 DEF ServerType
<1>8. server' = [server EXCEPT ![p] = new]
  BY <1>1, <1>3, <1>4, <1>6 DEF Reads
<1>9. Held(new) \subseteq Held(s) /\ Beyond(new) \subseteq Beyond(s)
  BY <1>5, <1>7 DEF Held, Beyond
<1>10. s.spawned
  BY <1>1, <1>2, Nothings DEF RpcInv, Processes, Process
<1>11. Process(new) /\ Apart(new)
  BY <1>1, <1>7, <1>9, <1>10 DEF RpcInv, Processes, Process, QueueApart, Apart
<1> QED
  BY <1>1, <1>2, <1>7, <1>8, <1>9, <1>11, ServerKeeps

LEMMA DiesKeeps == ASSUME NEW p \in Servers, RpcInv, Dies(p) PROVE RpcInv'
<1>1. PICK s \in ServerType : s = server[p]
  BY DEF RpcInv, Types
<1>2. s.alive /\ UNCHANGED <<kind, client, lock, task, asks, left>>
  BY <1>1 DEF Dies
<1>3. PICK new : new = [s EXCEPT !.alive = FALSE, !.pipe = <<>>, !.asked = {}]
  OBVIOUS
<1>4. <<>> \in Seq(Requests)
  BY EmptySeq
<1>5. /\ new \in ServerType /\ new.pipe = <<>> /\ new.asked = {}
      /\ new.spawned = s.spawned /\ new.next = s.next /\ new.reads = s.reads /\ new.writes = s.writes
      /\ new.queue = s.queue /\ new.out = s.out /\ new.pending = s.pending
  BY <1>3, <1>4 DEF ServerType
<1>6. server' = [server EXCEPT ![p] = new]
  BY <1>1, <1>3 DEF Dies
<1>7. Held(new) \subseteq Held(s) /\ Beyond(new) \subseteq Beyond(s)
  BY <1>5, EmptyElements DEF Held, Beyond
<1>8. s.spawned
  <2>1. s.alive # Unborn.alive
    BY <1>2 DEF Unborn
  <2> QED
    BY <1>1, <2>1 DEF RpcInv, Processes, Process
<1>9. Process(new) /\ Apart(new)
  BY <1>1, <1>5, <1>7, <1>8 DEF RpcInv, Processes, Process, QueueApart, Apart
<1> QED
  BY <1>1, <1>2, <1>5, <1>6, <1>7, <1>9, ServerKeeps

LEMMA PumpEndsKeeps == ASSUME NEW p \in Servers, RpcInv, PumpEnds(p) PROVE RpcInv'
<1>1. PICK s \in ServerType : s = server[p]
  BY DEF RpcInv, Types
<1>2. s.reads /\ UNCHANGED <<kind, client, lock, task, asks, left>>
  BY <1>1 DEF PumpEnds
<1>3. PICK new : new = [s EXCEPT !.reads = FALSE]
  OBVIOUS
<1>4. /\ new \in ServerType /\ new.pipe = s.pipe /\ new.asked = s.asked
      /\ new.spawned = s.spawned /\ new.next = s.next /\ ~new.reads /\ new.writes = s.writes
      /\ new.queue = s.queue /\ new.out = s.out /\ new.pending = s.pending
  BY <1>3 DEF ServerType
<1>5. server' = [server EXCEPT ![p] = new]
  BY <1>1, <1>3 DEF PumpEnds
<1>6. Held(new) \subseteq Held(s) /\ Beyond(new) \subseteq Beyond(s)
  BY <1>4 DEF Held, Beyond
<1>7. s.spawned
  <2>1. s.reads # Unborn.reads
    BY <1>2 DEF Unborn
  <2> QED
    BY <1>1, <2>1 DEF RpcInv, Processes, Process
<1>8. Process(new) /\ Apart(new)
  BY <1>1, <1>4, <1>6, <1>7 DEF RpcInv, Processes, Process, QueueApart, Apart
<1> QED
  BY <1>1, <1>2, <1>4, <1>5, <1>6, <1>8, ServerKeeps

\* the server answers a request it has read, or speaks for itself
LEMMA AnswersKeeps == ASSUME NEW p \in Servers, RpcInv, Answers(p) PROVE RpcInv'
<1>1. PICK s \in ServerType : s = server[p]
  BY DEF RpcInv, Types
<1>2. s.alive /\ UNCHANGED <<kind, client, lock, task, asks, left>>
  BY <1>1 DEF Answers
<1>3. PICK x \in s.asked, body \in Bodies :
         server' = [server EXCEPT ![p].asked = @ \ {x}, ![p].out = Append(@, Answer(x.id, x.call, body))]
  BY <1>1 DEF Answers
<1>4. x \in Requests /\ x.id \in Nat /\ x.call \in Nat /\ x.call # 0
      /\ x = [id |-> x.id, call |-> x.call]
  BY <1>3 DEF ServerType, Requests
<1>5. PICK m : m = Answer(x.id, x.call, body)
  OBVIOUS
<1>6. m \in Messages /\ m.to = x.id /\ m.call = x.call /\ m.body = body /\ m.call # Nobody
  BY <1>3, <1>4, <1>5 DEF Answer, Messages, Nobody
<1>7. PICK more : more = Append(s.out, m)
  OBVIOUS
<1>8. more \in Seq(Messages) /\ Elements(more) = Elements(s.out) \cup {m}
  BY <1>6, <1>7, AppendElements DEF ServerType
<1>9. PICK new : new = [s EXCEPT !.asked = s.asked \ {x}, !.out = more]
  OBVIOUS
<1>10. /\ new \in ServerType /\ new.pipe = s.pipe /\ new.asked = s.asked \ {x}
      /\ new.spawned = s.spawned /\ new.next = s.next /\ new.reads = s.reads /\ new.writes = s.writes
      /\ new.queue = s.queue /\ new.out = more /\ new.pending = s.pending
  BY <1>8, <1>9 DEF ServerType
<1>11. server' = [server EXCEPT ![p] = new]
  BY <1>1, <1>3, <1>5, <1>7, <1>9
<1>12. Held(new) \subseteq Held(s)
  <2>1. [id |-> m.to, call |-> m.call] = x
    BY <1>4, <1>6
  <2> QED
    BY <1>3, <1>8, <1>10, <2>1 DEF Held
<1>13. Beyond(new) \subseteq Beyond(s)
  BY <1>3, <1>6, <1>8, <1>10 DEF Beyond
<1>14. s.spawned
  <2>1. s.alive # Unborn.alive
    BY <1>2 DEF Unborn
  <2> QED
    BY <1>1, <2>1 DEF RpcInv, Processes, Process
<1>15. Readable(m)
  BY <1>3, <1>6 DEF Readable
<1>16. Process(new) /\ Apart(new)
  BY <1>1, <1>8, <1>10, <1>13, <1>14, <1>15 DEF RpcInv, Processes, Process, QueueApart, Apart
<1> QED
  BY <1>1, <1>2, <1>10, <1>11, <1>12, <1>16, ServerKeeps

LEMMA SpeaksKeeps == ASSUME NEW p \in Servers, RpcInv, RpcAssumption, Speaks(p) PROVE RpcInv'
<1>1. PICK s \in ServerType : s = server[p]
  BY DEF RpcInv, Types
<1>2. s.alive /\ UNCHANGED <<kind, client, lock, task, asks, left>>
  BY <1>1 DEF Speaks
<1>3. PICK m \in {Garbage} \cup {Answer(n, Nobody, "own") : n \in OwnNumbers} :
         server' = [server EXCEPT ![p].out = Append(@, m)]
  BY DEF Speaks
<1>4. m \in Messages /\ m.call = Nobody /\ (m = Garbage \/ m.body = "own")
  BY <1>3, Shapes DEF RpcAssumption, Answer, Messages, Nobody
<1>5. PICK more : more = Append(s.out, m)
  OBVIOUS
<1>6. more \in Seq(Messages) /\ Elements(more) = Elements(s.out) \cup {m}
  BY <1>4, <1>5, AppendElements DEF ServerType
<1>7. PICK new : new = [s EXCEPT !.out = more]
  OBVIOUS
<1>8. /\ new \in ServerType /\ new.pipe = s.pipe /\ new.asked = s.asked
      /\ new.spawned = s.spawned /\ new.next = s.next /\ new.reads = s.reads /\ new.writes = s.writes
      /\ new.queue = s.queue /\ new.out = more /\ new.pending = s.pending
  BY <1>6, <1>7 DEF ServerType
<1>9. server' = [server EXCEPT ![p] = new]
  BY <1>1, <1>3, <1>5, <1>7
<1>10. Held(new) \subseteq Held(s)
  BY <1>4, <1>6, <1>8 DEF Held
<1>11. s.spawned
  <2>1. s.alive # Unborn.alive
    BY <1>2 DEF Unborn
  <2> QED
    BY <1>1, <2>1 DEF RpcInv, Processes, Process
<1>12. Readable(m)
  BY <1>4 DEF Readable
<1>13. Process(s) /\ Apart(s) /\ Beyond(new) \subseteq Beyond(s)
  BY <1>1, <1>4, <1>6, <1>8 DEF RpcInv, Processes, QueueApart, Beyond
<1>14. Process(new) /\ Apart(new)
  BY <1>6, <1>8, <1>11, <1>12, <1>13 DEF Process, Apart
<1> QED
  BY <1>1, <1>2, <1>8, <1>9, <1>10, <1>14, ServerKeeps

\* MCP's writer takes the next request, which is parked; if it cannot be written,
\* the writer is gone
LEMMA WriterKeeps == ASSUME NEW p \in Servers, RpcInv, Writer(p) PROVE RpcInv'
<1>1. PICK s \in ServerType : s = server[p]
  BY DEF RpcInv, Types
<1>2. /\ kind = "mcp" /\ kind \notin Lsp /\ s.writes /\ s.queue # <<>>
      /\ UNCHANGED <<kind, client, lock, task, asks, left>>
  BY <1>1 DEF Writer, Lsp
<1>3. PICK x : x = Head(s.queue)
  OBVIOUS
<1>4. PICK rest : rest = Tail(s.queue)
  OBVIOUS
<1>5. /\ rest \in Seq(Requests) /\ x \in Requests /\ x \in Elements(s.queue)
      /\ Elements(rest) \subseteq Elements(s.queue) /\ Len(rest) = Len(s.queue) - 1
      /\ \A k \in 1..(Len(s.queue) - 1) : rest[k] = s.queue[k + 1]
  BY <1>2, <1>3, <1>4, TailElements DEF ServerType
<1>6. /\ DOMAIN s.queue = 1..Len(s.queue) /\ Len(s.queue) \in Nat /\ DOMAIN rest = 1..(Len(s.queue) - 1)
      /\ x = s.queue[1] /\ Len(s.queue) # 0
  BY <1>2, <1>3, <1>5, LenProperties, HeadTailProperties, EmptySeq DEF ServerType
<1>7. PICK more : more = Append(s.pipe, x)
  OBVIOUS
<1>8. more \in Seq(Requests) /\ Elements(more) = Elements(s.pipe) \cup {x}
  BY <1>5, <1>7, AppendElements DEF ServerType
<1>9. s.spawned
  <2>1. s.writes # Unborn.writes
    BY <1>2 DEF Unborn
  <2> QED
    BY <1>1, <2>1 DEF RpcInv, Processes, Process
<1>10. x.id \in Nat /\ x.id \in 1..(s.next - 1)
  <2>1. x \in Named(p)
    BY <1>1, <1>5 DEF Named, Held
  <2> QED
    BY <1>1, <1>5, <2>1 DEF RpcInv, OneName, Requests
<1>11. PICK parked : parked = s.pending \cup {x.id}
  OBVIOUS
<1>12. /\ parked \in SUBSET Nat /\ parked \subseteq 1..(s.next - 1)
      /\ \A id \in parked : id \in s.pending \/ \E r \in Elements(s.queue) : r.id = id
  BY <1>1, <1>5, <1>10, <1>11 DEF ServerType, RpcInv, Processes, Process
<1>13. Process(s) /\ Apart(s)
  BY <1>1 DEF RpcInv, Processes, QueueApart
<1>14. CASE s.alive
  <2>1. PICK new : new = [s EXCEPT !.pending = parked, !.queue = rest, !.pipe = more]
    OBVIOUS
  <2>2. /\ new \in ServerType /\ new.pipe = more /\ new.asked = s.asked
        /\ new.spawned = s.spawned /\ new.next = s.next /\ new.reads = s.reads /\ new.writes = s.writes
        /\ new.queue = rest /\ new.out = s.out /\ new.pending = parked
    BY <1>5, <1>8, <1>12, <2>1 DEF ServerType
  <2>3. server' = [server EXCEPT ![p] = new]
    <3>1. server' = [server EXCEPT ![p] = [[s EXCEPT !.pending = parked] EXCEPT !.queue = rest, !.pipe = more]]
      BY <1>1, <1>3, <1>4, <1>7, <1>11, <1>14 DEF Writer
    <3>2. [[s EXCEPT !.pending = parked] EXCEPT !.queue = rest, !.pipe = more] = new
      BY <2>1 DEF ServerType
    <3> QED
      BY <3>1, <3>2
  <2>4. Held(new) \subseteq Held(s)
    BY <1>5, <1>8, <2>2 DEF Held
  <2>5. Process(new)
    BY <1>2, <1>9, <1>12, <1>13, <2>2 DEF Process
  <2>6. Apart(new)
    <3> SUFFICES ASSUME NEW k \in DOMAIN rest
                 PROVE  /\ rest[k].id \notin Beyond(new)
                        /\ \A l \in DOMAIN rest : l # k => rest[l].id # rest[k].id
      BY <2>2 DEF Apart
    <3>1. /\ \A l \in DOMAIN rest : l + 1 \in DOMAIN s.queue /\ rest[l] = s.queue[l + 1] /\ l + 1 # 1
          /\ \A l \in DOMAIN rest : l # k => l + 1 # k + 1
          /\ 1 \in DOMAIN s.queue
      BY <1>5, <1>6
    <3>2. rest[k].id \notin Beyond(s) /\ rest[k].id # x.id
      BY <1>6, <1>13, <3>1 DEF Apart
    <3>3. Beyond(new) \subseteq Beyond(s) \cup {x.id}
      BY <1>8, <1>11, <2>2 DEF Beyond
    <3>4. \A l \in DOMAIN rest : l # k => rest[l].id # rest[k].id
      BY <1>13, <3>1 DEF Apart
    <3> QED
      BY <3>2, <3>3, <3>4
  <2> QED
    BY <1>1, <1>2, <1>5, <1>12, <2>2, <2>3, <2>4, <2>5, <2>6, ServerKeeps
<1>15. CASE ~s.alive
  <2>1. PICK new : new = [s EXCEPT !.pending = parked, !.queue = <<>>, !.writes = FALSE]
    OBVIOUS
  <2>2. <<>> \in Seq(Requests)
    BY EmptySeq
  <2>3. /\ new \in ServerType /\ new.pipe = s.pipe /\ new.asked = s.asked
        /\ new.spawned = s.spawned /\ new.next = s.next /\ new.reads = s.reads /\ ~new.writes
        /\ new.queue = <<>> /\ new.out = s.out /\ new.pending = parked
    BY <1>12, <2>1, <2>2 DEF ServerType
  <2>4. server' = [server EXCEPT ![p] = new]
    <3>1. server' = [server EXCEPT ![p] = [[s EXCEPT !.pending = parked] EXCEPT !.queue = <<>>, !.writes = FALSE]]
      BY <1>1, <1>3, <1>11, <1>15 DEF Writer
    <3>2. [[s EXCEPT !.pending = parked] EXCEPT !.queue = <<>>, !.writes = FALSE] = new
      BY <2>1 DEF ServerType
    <3> QED
      BY <3>1, <3>2
  <2>5. Held(new) \subseteq Held(s) /\ Elements(new.queue) \subseteq Elements(s.queue)
    BY <2>3, EmptyElements DEF Held
  <2>6. Process(new)
    BY <1>2, <1>9, <1>12, <1>13, <2>3 DEF Process
  <2>7. Apart(new)
    BY <2>3 DEF Apart
  <2> QED
    BY <1>1, <1>2, <1>12, <2>3, <2>4, <2>5, <2>6, <2>7, ServerKeeps
<1> QED
  BY <1>14, <1>15

-----------------------------------------------------------------------------
(* A task moves, and no server does: it enters the mutex, finds the          *)
(* manager's client, or goes on with the one it has started.                 *)
LEMMA TaskKeeps ==
    ASSUME RpcInv, NEW c \in Callers, NEW t \in TaskType, task' = [task EXCEPT ![c] = t],
           UNCHANGED <<kind, server, asks, left>>,
           lock' \in Seq(Callers), client' \in Servers \cup {Nobody}, Manager', Mutex',
           t.pc \in {"lock", "ask"}, t.id = 0, t.got = Nothing, t.result # "ok", ~t.starting,
           t.pc = "ask" => t.server \in Servers /\ server[t.server].spawned,
           Out(c) => Settled(server[task[c].server], task[c].id),
           \A d \in Callers : d # c /\ task[d].starting => client' = client
    PROVE  RpcInv'
<1> USE DEF RpcInv
<1>1. /\ task' \in [Callers -> TaskType] /\ task'[c] = t
      /\ \A d \in Callers : d # c => task'[d] = task[d]
  BY DEF Types
<1>2. Types'
  BY <1>1 DEF Types
<1>3. Tasks'
  <2> SUFFICES ASSUME NEW d \in Callers
               PROVE  /\ task'[d].pc \in {"idle", "lock", "ask"} => task'[d].id = 0 /\ task'[d].got = Nothing
                      /\ task'[d].pc \in {"ask", "write", "wait"} =>
                            task'[d].server \in Servers /\ server[task'[d].server].spawned
                      /\ task'[d].pc = "write" => kind \in Lsp
                      /\ task'[d].starting => /\ task'[d].pc \in {"ask", "write", "wait"}
                                              /\ kind = "lsp" /\ client' = Nobody
                      /\ task'[d].result = "ok" => task'[d].pc = "done"
    BY DEF Tasks
  <2>1. CASE d = c
    BY <1>1, <2>1
  <2>2. CASE d # c
    BY <1>1, <2>2 DEF Tasks
  <2> QED
    BY <2>1, <2>2
<1>4. Processes' /\ QueueApart'
  BY DEF Processes, Process, Readable, QueueApart, Apart, Beyond, Elements
<1>5. \A d \in Callers : Out(d)' => d # c /\ Out(d) /\ task'[d] = task[d] /\ Request(d)' = Request(d)
  BY <1>1 DEF Out, Request
<1>6. OneName'
  <2>1. \A p \in Servers : Named(p)' \subseteq Named(p)
    <3> TAKE p \in Servers
    <3>1. Named(p)' = Held(server[p]) \cup {Request(d)' : d \in {e \in Callers : Out(e)' /\ task'[e].server = p}}
      BY DEF Named, Held, Elements
    <3> QED
      BY <1>5, <3>1 DEF Named
  <2> QED
    BY <2>1 DEF OneName
<1>7. HeardOwn'
  <2> SUFFICES ASSUME NEW d \in Callers, Out(d)', task'[d].got # Nothing
               PROVE  /\ \/ task'[d].got.call = task'[d].call
                         \/ kind \in Lsp /\ task'[d].got.body = "own"
                      /\ Settled(server[task'[d].server], task'[d].id)
    BY DEF HeardOwn, Settled
  <2> QED
    BY <1>5 DEF HeardOwn
<1>8. ASSUME NEW p \in Servers, NEW d \in Callers, NEW id, Waits(d, p, id), ~Settled(server[p], id)
      PROVE  Waits(d, p, id)'
  <2>1. CASE d # c
    BY <1>1, <1>8, <2>1 DEF Waits
  <2>2. CASE d = c
    BY <1>8, <2>2 DEF Waits, Out
  <2> QED
    BY <2>1, <2>2
<1>9. /\ \A q, id : GivenUp(left, q, id)' = GivenUp(left, q, id)
  BY DEF GivenUp
<1>10. QueueAwaited'
  <2> SUFFICES ASSUME NEW p \in Servers, NEW r \in Elements(server[p].queue)
               PROVE  (\E d \in Callers : Waits(d, p, r.id)') \/ GivenUp(left, p, r.id)
    BY <1>9 DEF QueueAwaited, Elements
  <2>1. ~Settled(server[p], r.id)
    BY DEF Settled
  <2> QED
    BY <1>8, <2>1 DEF QueueAwaited
<1>11. ParkedAwaited'
  <2> SUFFICES ASSUME NEW p \in Servers, NEW id \in server[p].pending
               PROVE  \/ \E d \in Callers : Waits(d, p, id)'
                      \/ GivenUp(left, p, id)
                      \/ kind = "mcp" /\ ~server[p].reads /\ ~server[p].writes
    BY <1>9 DEF ParkedAwaited
  <2>1. ~Settled(server[p], id)
    BY DEF Settled
  <2> QED
    BY <1>8, <2>1 DEF ParkedAwaited
<1>12. OwnAnswer'
  BY <1>1 DEF OwnAnswer
<1> QED
  BY <1>2, <1>3, <1>4, <1>6, <1>7, <1>10, <1>11, <1>12

LEMMA CallKeeps == ASSUME NEW c \in Callers, RpcInv, Call(c) PROVE RpcInv'
<1> DEFINE t == [Idle EXCEPT !.pc = "lock"]
<1>1. /\ task[c].pc \in {"idle", "done"} /\ task' = [task EXCEPT ![c] = t]
      /\ lock' = IF kind = "shared" THEN lock ELSE Append(lock, c)
      /\ UNCHANGED <<kind, client, server, asks, left>>
  BY DEF Call
<1>2. /\ t \in TaskType /\ t.pc = "lock" /\ t.id = 0 /\ t.got = Nothing /\ t.result = "none" /\ ~t.starting
  BY Shapes DEF TaskType
<1> HIDE DEF t
<1>3. ~Out(c) /\ Manager' /\ client' \in Servers \cup {Nobody} /\ lock \in Seq(Callers)
  BY <1>1 DEF Out, RpcInv, Manager, Types
<1>4. /\ lock' \in Seq(Callers)
      /\ lock # <<>> => lock' # <<>> /\ Head(lock') = Head(lock)
  <2>1. CASE kind = "shared"
    BY <1>1, <1>3, <2>1
  <2>2. CASE kind # "shared"
    <3>1. /\ lock' \in Seq(Callers) /\ Len(lock') = Len(lock) + 1
          /\ \A k \in 1..Len(lock) : lock'[k] = lock[k]
      BY <1>1, <1>3, <2>2, AppendProperties
    <3>2. ASSUME lock # <<>> PROVE lock' # <<>> /\ Head(lock') = Head(lock)
      <4>1. Len(lock) \in Nat /\ Len(lock) # 0 /\ Head(lock) = lock[1]
        BY <1>3, <3>2, EmptySeq, LenProperties, HeadTailProperties
      <4>2. Len(lock) + 1 # 0 /\ 1 \in 1..Len(lock)
        BY <4>1
      <4>3. lock' # <<>>
        BY <3>1, <4>2, EmptySeq
      <4> QED
        BY <3>1, <4>1, <4>2, <4>3, HeadTailProperties
    <3> QED
      BY <3>1, <3>2
  <2> QED
    BY <2>1, <2>2
<1>5. Mutex'
  <2> SUFFICES ASSUME kind # "shared", NEW d \in Callers, task'[d].pc \in {"ask", "write", "wait"}
               PROVE  lock' # <<>> /\ Head(lock') = d
    BY <1>1 DEF Mutex
  <2>1. d # c /\ task'[d] = task[d]
    BY <1>1, <1>2 DEF RpcInv, Types
  <2> QED
    BY <1>4, <2>1 DEF RpcInv, Mutex
<1> QED
  BY <1>1, <1>2, <1>3, <1>4, <1>5, TaskKeeps

\* the task that holds the mutex
LEMMA Holder ==
    ASSUME RpcInv, NEW c \in Callers, Holds(c), kind # "shared"
    PROVE  \A d \in Callers : task[d].pc \in {"ask", "write", "wait"} => d = c
BY DEF Holds, RpcInv, Mutex

\* whoever works with a server moves on, and still holds the mutex
LEMMA StillHolds ==
    ASSUME RpcInv, NEW c \in Callers, NEW t \in TaskType, task' = [task EXCEPT ![c] = t],
           UNCHANGED <<kind, lock>>,
           Holds(c) \/ task[c].pc \in {"ask", "write", "wait"}
    PROVE  Mutex'
<1>1. kind # "shared" => lock # <<>> /\ Head(lock) = c
  BY DEF Holds, RpcInv, Mutex
<1>2. \A d \in Callers : d # c => task'[d] = task[d]
  BY DEF RpcInv, Types
<1> QED
  BY <1>1, <1>2 DEF Mutex, RpcInv

LEMMA EnterKeeps ==
    ASSUME NEW c \in Callers, RpcInv, task[c].pc = "lock", Holds(c), client # Nobody,
           task' = [task EXCEPT ![c].pc = "ask", ![c].server = client],
           UNCHANGED <<kind, client, server, lock, asks, left>>
    PROVE  RpcInv'
<1> DEFINE t == [task[c] EXCEPT !.pc = "ask", !.server = client]
<1>1. task[c] \in TaskType /\ client \in Servers /\ task' = [task EXCEPT ![c] = t]
  BY DEF RpcInv, Types
<1>2. t \in TaskType /\ t.pc = "ask" /\ t.server = client /\ t.id = task[c].id /\ t.got = task[c].got
      /\ t.result = task[c].result /\ t.starting = task[c].starting
  BY <1>1 DEF TaskType
<1> HIDE DEF t
<1>3. task[c].id = 0 /\ task[c].got = Nothing /\ ~task[c].starting /\ task[c].result # "ok" /\ ~Out(c)
  BY DEF RpcInv, Tasks, Out
<1>4. server[client].spawned /\ Manager' /\ lock \in Seq(Callers)
  BY DEF RpcInv, Manager, Types
<1>5. Mutex'
  BY <1>1, <1>2, StillHolds
<1> QED
  BY <1>1, <1>2, <1>3, <1>4, <1>5, TaskKeeps

\* a server that has initialized becomes the manager's
LEMMA StartKeeps ==
    ASSUME NEW c \in Callers, RpcInv, task[c].pc = "wait", task[c].got # Nothing, task[c].starting,
           client' = task[c].server,
           task' = [task EXCEPT ![c] = [Idle EXCEPT !.pc = "ask", !.server = task[c].server]],
           UNCHANGED <<kind, server, lock, asks, left>>
    PROVE  RpcInv'
<1> DEFINE t == [Idle EXCEPT !.pc = "ask", !.server = task[c].server]
<1>1. Out(c) /\ task[c].server \in Servers /\ server[task[c].server].spawned
  BY OutFacts DEF Out
<1>2. t \in TaskType /\ t.pc = "ask" /\ t.server = task[c].server /\ t.id = 0 /\ t.got = Nothing
      /\ t.result = "none" /\ ~t.starting
  BY <1>1, Shapes DEF TaskType
<1> HIDE DEF t
<1>3. task' = [task EXCEPT ![c] = t]
  BY DEF t
<1>4. kind = "lsp" /\ Settled(server[task[c].server], task[c].id) /\ lock \in Seq(Callers)
  BY <1>1 DEF RpcInv, Tasks, HeardOwn, Types
<1>5. Mutex'
  BY <1>2, <1>3, StillHolds
<1>6. Manager' /\ client' \in Servers
  BY <1>1, <1>4 DEF Manager
<1>7. \A d \in Callers : d # c => ~task[d].starting
  <2> SUFFICES ASSUME NEW d \in Callers, task[d].starting PROVE d = c
    OBVIOUS
  <2>1. task[d].pc \in {"ask", "write", "wait"} /\ task[c].pc \in {"ask", "write", "wait"}
    BY DEF RpcInv, Tasks
  <2> QED
    BY <1>4, <2>1 DEF RpcInv, Mutex
<1> QED
  BY <1>1, <1>2, <1>3, <1>4, <1>5, <1>6, <1>7, TaskKeeps

-----------------------------------------------------------------------------
(* A new server is started: nobody else works with one, so whatever is reset *)
(* is nobody's.                                                              *)
LEMMA SpawnKeeps ==
    ASSUME NEW c \in Callers, RpcInv, task[c].pc = "lock", Holds(c), client = Nobody,
           NEW p \in Unspawned,
           server' = [q \in Servers |-> CASE q = p -> Born
                                          [] q # p /\ server[q].spawned /\ ~Known(q) -> Abandoned
                                          [] OTHER -> server[q]],
           left' = {e \in left : Known(e.server)},
           task' = [task EXCEPT ![c].pc = "ask", ![c].server = p, ![c].starting = TRUE],
           UNCHANGED <<kind, client, lock, asks>>
    PROVE  RpcInv'
<1> USE DEF RpcInv
<1> DEFINE t == [task[c] EXCEPT !.pc = "ask", !.server = p, !.starting = TRUE]
<1>1. /\ p \in Servers /\ ~server[p].spawned /\ task[c] \in TaskType
      /\ server[p] = Unborn
  BY DEF Unspawned, Types, Processes, Process
<1>2. t \in TaskType /\ t.pc = "ask" /\ t.server = p /\ t.id = task[c].id /\ t.got = task[c].got
      /\ t.result = task[c].result /\ t.starting
  BY <1>1 DEF TaskType
<1>3. task' = [task EXCEPT ![c] = t]
  BY <1>1 DEF Types
<1> HIDE DEF t
<1>4. task'[c] = t /\ task' \in [Callers -> TaskType]
      /\ \A d \in Callers : d # c => task'[d] = task[d]
  BY <1>2, <1>3 DEF Types
<1>5. kind = "lsp" /\ kind \in Lsp
  BY DEF Manager, Lsp
<1>6. \A d \in Callers : task[d].pc \notin {"ask", "write", "wait"}
  <2>1. \A d \in Callers : task[d].pc \in {"ask", "write", "wait"} => d = c
    BY <1>5, Holder
  <2> QED
    BY <2>1
<1>7. \A d \in Callers : ~Out(d) /\ ~Out(d)'
  BY <1>2, <1>4, <1>6 DEF Out
<1>8. \A q \in Servers : \/ server'[q] \in {Born, Abandoned}
                         \/ /\ server'[q] = server[q] /\ q # p
                            /\ server[q].spawned => Known(q)
  BY <1>1
<1>9. server'[p] = Born /\ server' = [q \in Servers |-> server'[q]]
  BY <1>1
<1>10. Types'
  <2>1. \A q \in Servers : server'[q] \in ServerType
    BY <1>8, Shapes DEF Types
  <2>2. server' \in [Servers -> ServerType]
    BY <1>9, <2>1
  <2> QED
    BY <1>4, <2>2 DEF Types
<1>11. Mutex'
  BY <1>2, <1>3, StillHolds
<1>12. Tasks'
  <2> SUFFICES ASSUME NEW d \in Callers
               PROVE  /\ task'[d].pc \in {"idle", "lock", "ask"} => task'[d].id = 0 /\ task'[d].got = Nothing
                      /\ task'[d].pc \in {"ask", "write", "wait"} =>
                            task'[d].server \in Servers /\ server'[task'[d].server].spawned
                      /\ task'[d].pc = "write" => kind \in Lsp
                      /\ task'[d].starting => /\ task'[d].pc \in {"ask", "write", "wait"}
                                              /\ kind = "lsp" /\ client = Nobody
                      /\ task'[d].result = "ok" => task'[d].pc = "done"
    BY DEF Tasks
  <2>1. CASE d = c
    BY <1>1, <1>2, <1>4, <1>5, <1>9, <2>1, Shapes DEF Tasks
  <2>2. CASE d # c
    BY <1>4, <1>6, <2>2 DEF Tasks
  <2> QED
    BY <2>1, <2>2
<1>13. Manager'
  BY <1>5 DEF Manager
<1>14. Processes' /\ QueueApart'
  <2>1. \A m : Readable(m)' = Readable(m)
    BY DEF Readable
  <2>2. \A q \in Servers : Process(server'[q]) /\ Apart(server'[q])
    BY <1>8, Nothings DEF Processes, QueueApart
  <2> QED
    BY <2>1, <2>2 DEF Processes, Process, QueueApart, Apart, Beyond, Elements
<1>15. OneName'
  <2> SUFFICES ASSUME NEW q \in Servers
               PROVE  /\ \A r \in Named(q)' : r.id \in 1..(server'[q].next - 1) /\ r.call \in 1..asks
                      /\ \A r, u \in Named(q)' : r.id = u.id => r = u
    BY DEF OneName
  <2>1. Named(q)' = Held(server'[q])
    BY <1>7 DEF Named, Held, Elements
  <2>2. CASE server'[q] \in {Born, Abandoned}
    BY <2>1, <2>2, Nothings
  <2>3. CASE server'[q] = server[q]
    <3>1. Named(q)' \subseteq Named(q)
      BY <2>1, <2>3 DEF Named
    <3> QED
      BY <2>3, <3>1 DEF OneName
  <2> QED
    BY <1>8, <2>2, <2>3
<1>16. HeardOwn'
  BY <1>7 DEF HeardOwn
<1>17. QueueAwaited'
  <2>1. \A q \in Servers : server'[q].queue = <<>>
    BY <1>5, <1>8, Nothings DEF Processes, Process
  <2> QED
    BY <2>1, EmptyElements DEF QueueAwaited, Elements
<1>18. ParkedAwaited'
  <2> SUFFICES ASSUME NEW q \in Servers, NEW id \in server'[q].pending
               PROVE  GivenUp(left', q, id)
    <3>1. \A q, id : GivenUp(left, q, id)' = GivenUp(left', q, id)
      BY DEF GivenUp
    <3> QED
      BY <3>1 DEF ParkedAwaited
  <2>1. server'[q] = server[q] /\ (server[q].spawned => Known(q)) /\ id \in server[q].pending
    BY <1>8, Nothings
  <2>2. Known(q)
    BY <2>1, Nothings DEF Processes, Process
  <2>3. GivenUp(left, q, id)
    BY <1>5, <1>7, <2>1 DEF ParkedAwaited, Waits, Out
  <2> QED
    BY <2>2, <2>3 DEF GivenUp
<1>19. OwnAnswer'
  BY <1>2, <1>4 DEF OwnAnswer, Tasks
<1> QED
  BY <1>10, <1>11, <1>12, <1>13, <1>14, <1>15, <1>16, <1>17, <1>18, <1>19

-----------------------------------------------------------------------------
(* A request is made: its number is new at this server, and its task waits.  *)
\* what the task and the server are then
NewRequest(c, t, p, n, a) ==
    /\ t.pc \in {"write", "wait"} /\ (t.pc = "write" => kind \in Lsp)
    /\ t.server = p /\ t.id = n /\ t.call = a + 1 /\ t.got = Nothing
    /\ t.starting = task[c].starting /\ t.result = task[c].result
NewNumber(s, new, n, a) ==
    /\ s.next = n /\ new.next = n + 1
    /\ new.spawned = s.spawned /\ new.reads = s.reads /\ new.writes = s.writes
    /\ Process(new) /\ Apart(new)
    /\ Held(new) \subseteq Held(s) \cup {[id |-> n, call |-> a + 1]}
    /\ \A r \in Elements(new.queue) : r \in Elements(s.queue) \/ r.id = n
    /\ new.pending \subseteq s.pending \cup {n}

LEMMA AskKeeps ==
    ASSUME RpcInv, NEW c \in Callers, task[c].pc = "ask", NEW p \in Servers, p = task[c].server,
           NEW n \in Nat \ {0}, NEW a \in Nat, a = asks, asks' = a + 1,
           NEW new \in ServerType, server' = [server EXCEPT ![p] = new], NewNumber(server[p], new, n, a),
           NEW t \in TaskType, task' = [task EXCEPT ![c] = t], NewRequest(c, t, p, n, a),
           UNCHANGED <<kind, client, lock, left>>
    PROVE  RpcInv'
<1> USE DEF RpcInv, NewRequest, NewNumber
<1>0. PICK s : s = server[p]
  OBVIOUS
<1>1. server \in [Servers -> ServerType] /\ s \in ServerType
  BY <1>0 DEF Types
<1>2. /\ server' \in [Servers -> ServerType] /\ server'[p] = new
      /\ \A q \in Servers : q # p => server'[q] = server[q]
  BY <1>1
<1>3. task'[c] = t /\ task' \in [Callers -> TaskType]
      /\ \A d \in Callers : d # c => task'[d] = task[d]
  BY DEF Types
<1>4. Types' /\ Mutex'
  <2>1. Mutex'
    BY StillHolds
  <2>2. a + 1 \in Nat
    OBVIOUS
  <2> QED
    BY <1>2, <1>3, <2>1, <2>2 DEF Types
<1>5. \A q \in Servers : server'[q].spawned = server[q].spawned
  BY <1>2
<1>6. Tasks'
  <2> SUFFICES ASSUME NEW d \in Callers
               PROVE  /\ task'[d].pc \in {"idle", "lock", "ask"} => task'[d].id = 0 /\ task'[d].got = Nothing
                      /\ task'[d].pc \in {"ask", "write", "wait"} =>
                            task'[d].server \in Servers /\ server'[task'[d].server].spawned
                      /\ task'[d].pc = "write" => kind \in Lsp
                      /\ task'[d].starting => /\ task'[d].pc \in {"ask", "write", "wait"}
                                              /\ kind = "lsp" /\ client = Nobody
                      /\ task'[d].result = "ok" => task'[d].pc = "done"
    BY DEF Tasks
  <2>1. CASE d = c
    BY <1>3, <1>5, <2>1 DEF Tasks
  <2>2. CASE d # c
    BY <1>3, <1>5, <2>2 DEF Tasks
  <2> QED
    BY <2>1, <2>2
<1>7. Manager'
  BY <1>5 DEF Manager, Types, Nobody
<1>8. Processes' /\ QueueApart'
  <2>1. \A m : Readable(m)' = Readable(m)
    BY DEF Readable
  <2>2. \A q \in Servers : Process(server'[q]) /\ Apart(server'[q])
    BY <1>2 DEF Processes, QueueApart
  <2> QED
    BY <2>1, <2>2 DEF Processes, Process, QueueApart, Apart, Beyond, Elements
<1>9. PICK fresh : fresh = [id |-> n, call |-> a + 1]
  OBVIOUS
<1>10. \A q \in Servers : /\ q # p => Named(q)' \subseteq Named(q)
                          /\ q = p => Named(q)' \subseteq Named(q) \cup {fresh}
  <2> TAKE q \in Servers
  <2>1. Named(q)' = Held(server'[q]) \cup {Request(d)' : d \in {e \in Callers : Out(e)' /\ task'[e].server = q}}
    BY DEF Named, Held, Elements
  <2>2. \A d \in Callers : d # c /\ Out(d)' => Out(d) /\ task'[d] = task[d] /\ Request(d)' = Request(d)
    BY <1>3 DEF Out, Request
  <2>3. Request(c)' = fresh /\ task'[c].server = p
    BY <1>3, <1>9 DEF Request
  <2>4. Held(server'[q]) \subseteq Held(server[q]) \cup (IF q = p THEN {fresh} ELSE {})
    BY <1>2, <1>9
  <2> QED
    BY <2>1, <2>2, <2>3, <2>4 DEF Named
<1>11. OneName'
  <2> SUFFICES ASSUME NEW q \in Servers
               PROVE  /\ \A r \in Named(q)' : r.id \in 1..(server'[q].next - 1) /\ r.call \in 1..(a + 1)
                      /\ \A r, u \in Named(q)' : r.id = u.id => r = u
    BY DEF OneName
  <2>3. \A r \in Named(q) : r.id \in 1..(server[q].next - 1) /\ r.call \in 1..a
    BY DEF OneName
  <2>4. \A k \in 1..a : k \in 1..(a + 1)
    OBVIOUS
  <2>5. CASE q # p
    BY <1>2, <1>10, <2>3, <2>4, <2>5 DEF OneName
  <2>6. CASE q = p
    <3>1. \A k \in 1..(n - 1) : k \in 1..((n + 1) - 1) /\ k # n
      OBVIOUS
    <3>2. n \in 1..((n + 1) - 1) /\ a + 1 \in 1..(a + 1)
      OBVIOUS
    <3>3. fresh.id = n /\ fresh.call = a + 1
      BY <1>9
    <3>4. server'[q].next = n + 1 /\ server[q].next = n
      BY <1>2, <2>6
    <3>5. \A r \in Named(q) : r.id \in 1..(n - 1) /\ r.call \in 1..a
      BY <2>3, <3>4
    <3>6. \A r \in Named(q)' : r \in Named(q) \/ r = fresh
      BY <1>10, <2>6
    <3>7. \A r \in Named(q)' : r.id \in 1..((n + 1) - 1) /\ r.call \in 1..(a + 1)
      BY <2>4, <3>1, <3>2, <3>3, <3>5, <3>6
    <3>8. \A r, u \in Named(q)' : r.id = u.id => r = u
      BY <3>1, <3>3, <3>5, <3>6 DEF OneName
    <3> QED
      BY <3>4, <3>7, <3>8
  <2> QED
    BY <2>5, <2>6
<1>12. \A q \in Servers, d \in Callers : d # c /\ Out(d) /\ task[d].server = q /\ Settled(server[q], task[d].id)
                                          => Settled(server'[q], task[d].id)
  <2> SUFFICES ASSUME NEW d \in Callers, d # c, Out(d), task[d].server = p, Settled(s, task[d].id)
               PROVE  Settled(new, task[d].id)
    BY <1>0, <1>2
  <2>1. task[d].id \in 1..(n - 1)
    BY OutFacts
  <2>2. task[d].id # n
    BY <1>1, <2>1
  <2> QED
    BY <1>0, <2>2 DEF Settled
<1>13. HeardOwn'
  <2> SUFFICES ASSUME NEW d \in Callers, Out(d)', task'[d].got # Nothing
               PROVE  /\ \/ task'[d].got.call = task'[d].call
                         \/ kind \in Lsp /\ task'[d].got.body = "own"
                      /\ Settled(server'[task'[d].server], task'[d].id)
    BY DEF HeardOwn, Settled
  <2>1. d # c /\ task'[d] = task[d] /\ Out(d)
    BY <1>3 DEF Out
  <2>2. task[d].server \in Servers
    BY <2>1, OutFacts
  <2> QED
    BY <1>12, <2>1, <2>2 DEF HeardOwn
<1>14. \A d \in Callers, q \in Servers : \A id : Waits(d, q, id) => Waits(d, q, id)'
  BY <1>3 DEF Waits
<1>15. \A q, id : GivenUp(left, q, id)' = GivenUp(left, q, id)
  BY DEF GivenUp
<1>16. Waits(c, p, n)'
  BY <1>3 DEF Waits
<1>17. QueueAwaited'
  <2> SUFFICES ASSUME NEW q \in Servers, NEW r \in Elements(server'[q].queue)
               PROVE  (\E d \in Callers : Waits(d, q, r.id)') \/ GivenUp(left, q, r.id)
    BY <1>15 DEF QueueAwaited, Elements
  <2>1. r \in Elements(server[q].queue) \/ (q = p /\ r.id = n)
    BY <1>2
  <2>2. CASE r \in Elements(server[q].queue)
    BY <1>14, <2>2 DEF QueueAwaited
  <2>3. CASE q = p /\ r.id = n
    BY <1>16, <2>3
  <2> QED
    BY <2>1, <2>2, <2>3
<1>18. ParkedAwaited'
  <2> SUFFICES ASSUME NEW q \in Servers, NEW id \in server'[q].pending
               PROVE  \/ \E d \in Callers : Waits(d, q, id)'
                      \/ GivenUp(left, q, id)
                      \/ kind = "mcp" /\ ~server'[q].reads /\ ~server'[q].writes
    BY <1>15 DEF ParkedAwaited
  <2>1. id \in server[q].pending \/ (q = p /\ id = n)
    BY <1>2
  <2>2. CASE id \in server[q].pending
    BY <1>2, <1>14, <2>2 DEF ParkedAwaited
  <2>3. CASE q = p /\ id = n
    BY <1>16, <2>3
  <2> QED
    BY <2>1, <2>2, <2>3
<1>19. OwnAnswer'
  BY <1>3 DEF OwnAnswer, Tasks
<1> QED
  BY <1>4, <1>6, <1>7, <1>8, <1>11, <1>13, <1>17, <1>18, <1>19

LEMMA AskLspKeeps ==
    ASSUME NEW c \in Callers, RpcInv, task[c].pc = "ask", kind \in Lsp,
           NEW p, p = task[c].server,
           server' = [server EXCEPT ![p] =
                        [[server[p] EXCEPT !.next = @ + 1] EXCEPT !.pending = @ \cup {server[p].next}]],
           task' = [task EXCEPT ![c].pc = "write", ![c].id = server[p].next, ![c].call = asks + 1],
           asks' = asks + 1, UNCHANGED <<kind, client, lock, left>>
    PROVE  RpcInv'
<1>1. p \in Servers /\ server[p].spawned /\ task[c].got = Nothing
  BY DEF RpcInv, Tasks
<1>2. PICK s \in ServerType : s = server[p]
  BY <1>1 DEF RpcInv, Types
<1>3. s.next \in Nat \ {0} /\ asks \in Nat /\ task[c] \in TaskType /\ s.spawned /\ s.pending \in SUBSET Nat
  BY <1>1, <1>2 DEF RpcInv, Types, ServerType
<1>4. PICK n \in Nat \ {0} : n = s.next
  BY <1>3
<1>5. PICK a \in Nat : a = asks
  BY <1>3
<1>6. PICK more : more = s.pending \cup {n}
  OBVIOUS
<1>7. PICK m : m = n + 1
  OBVIOUS
<1>8. m \in Nat \ {0} /\ more \in SUBSET Nat
  BY <1>3, <1>6, <1>7
<1>9. PICK new : new = [s EXCEPT !.next = m, !.pending = more]
  OBVIOUS
<1>10. /\ new \in ServerType /\ new.next = m /\ new.pending = more
       /\ new.spawned = s.spawned /\ new.reads = s.reads /\ new.writes = s.writes
       /\ new.queue = s.queue /\ new.pipe = s.pipe /\ new.asked = s.asked /\ new.out = s.out
  BY <1>8, <1>9 DEF ServerType
<1>11. server' = [server EXCEPT ![p] = new]
  BY <1>2, <1>4, <1>6, <1>7, <1>9, <1>1 DEF ServerType, RpcInv, Types
<1>12. PICK t : t = [task[c] EXCEPT !.pc = "write", !.id = n, !.call = a + 1]
  OBVIOUS
<1>13. /\ t \in TaskType /\ t.pc = "write" /\ t.id = n /\ t.call = a + 1 /\ t.got = task[c].got
       /\ t.server = task[c].server /\ t.starting = task[c].starting /\ t.result = task[c].result
  <2>1. PICK u \in TaskType : u = task[c]
    BY <1>3
  <2>2. PICK b \in Nat : b = a + 1
    OBVIOUS
  <2>3. t = [u EXCEPT !.pc = "write", !.id = n, !.call = b]
    BY <1>12, <2>1, <2>2
  <2> QED
    BY <2>1, <2>2, <2>3 DEF TaskType
<1>14. task' = [task EXCEPT ![c] = t]
  <2>1. task' = [task EXCEPT ![c].pc = "write", ![c].id = n, ![c].call = a + 1]
    BY <1>2, <1>4, <1>5
  <2> QED
    BY <1>12, <2>1 DEF RpcInv, Types
<1>15. Held(new) = Held(s)
  BY <1>10 DEF Held
<1>16. Process(new) /\ Apart(new)
  <2>1. Process(s) /\ Apart(s)
    BY <1>1, <1>2 DEF RpcInv, Processes, QueueApart
  <2>2. \A k \in 1..(n - 1) : k \in 1..(m - 1)
    BY <1>7
  <2>3. n \in 1..(m - 1)
    BY <1>7
  <2>4. more \subseteq 1..(m - 1)
    BY <1>4, <1>6, <2>1, <2>2, <2>3 DEF Process
  <2>5. s.queue = <<>>
    BY <1>3, <2>1 DEF Process
  <2> QED
    BY <1>3, <1>10, <2>1, <2>4, <2>5 DEF Process, Apart
<1>17. /\ asks' = a + 1 /\ new.next = n + 1 /\ t.server = p
       /\ Held(new) \subseteq Held(s) \cup {[id |-> n, call |-> a + 1]}
       /\ \A r \in Elements(new.queue) : r \in Elements(s.queue) \/ r.id = n
       /\ new.pending \subseteq s.pending \cup {n}
       /\ t.pc \in {"write", "wait"} /\ (t.pc = "write" => kind \in Lsp) /\ t.got = Nothing
  BY <1>1, <1>5, <1>6, <1>7, <1>10, <1>13, <1>15
<1>18. NewRequest(c, t, p, n, a) /\ NewNumber(server[p], new, n, a)
  BY <1>2, <1>4, <1>10, <1>13, <1>16, <1>17 DEF NewRequest, NewNumber
<1> QED
  BY <1>1, <1>5, <1>10, <1>11, <1>13, <1>14, <1>17, <1>18, AskKeeps

LEMMA AskMcpKeeps ==
    ASSUME NEW c \in Callers, RpcInv, task[c].pc = "ask", kind = "mcp",
           NEW p, p = task[c].server, server[p].writes,
           server' = [server EXCEPT ![p] =
                        [[server[p] EXCEPT !.next = @ + 1] EXCEPT
                            !.queue = Append(@, [id |-> server[p].next, call |-> asks + 1])]],
           task' = [task EXCEPT ![c].pc = "wait", ![c].id = server[p].next, ![c].call = asks + 1],
           asks' = asks + 1, UNCHANGED <<kind, client, lock, left>>
    PROVE  RpcInv'
<1>1. p \in Servers /\ server[p].spawned /\ task[c].got = Nothing
  BY DEF RpcInv, Tasks
<1>2. PICK s \in ServerType : s = server[p]
  BY <1>1 DEF RpcInv, Types
<1>3. s.next \in Nat \ {0} /\ asks \in Nat /\ task[c] \in TaskType /\ s.spawned /\ s.queue \in Seq(Requests)
  BY <1>1, <1>2 DEF RpcInv, Types, ServerType
<1>4. PICK n \in Nat \ {0} : n = s.next
  BY <1>3
<1>5. PICK a \in Nat : a = asks
  BY <1>3
<1>6. PICK fresh : fresh = [id |-> n, call |-> a + 1]
  OBVIOUS
<1>7. fresh \in Requests /\ fresh.id = n
  BY <1>6 DEF Requests
<1>8. PICK more : more = Append(s.queue, fresh)
  OBVIOUS
<1>9. /\ more \in Seq(Requests) /\ Elements(more) = Elements(s.queue) \cup {fresh}
      /\ DOMAIN s.queue = 1..Len(s.queue) /\ Len(s.queue) \in Nat
      /\ DOMAIN more = 1..(Len(s.queue) + 1)
      /\ \A k \in 1..Len(s.queue) : more[k] = s.queue[k]
      /\ more[Len(s.queue) + 1] = fresh
  BY <1>3, <1>7, <1>8, AppendElements
<1>10. PICK m : m = n + 1
  OBVIOUS
<1>11. m \in Nat \ {0}
  BY <1>10
<1>12. PICK new : new = [s EXCEPT !.next = m, !.queue = more]
  OBVIOUS
<1>13. /\ new \in ServerType /\ new.next = m /\ new.pending = s.pending
       /\ new.spawned = s.spawned /\ new.reads = s.reads /\ new.writes = s.writes
       /\ new.queue = more /\ new.pipe = s.pipe /\ new.asked = s.asked /\ new.out = s.out
  BY <1>9, <1>11, <1>12 DEF ServerType
<1>14. server' = [server EXCEPT ![p] = new]
  BY <1>2, <1>4, <1>5, <1>6, <1>8, <1>10, <1>12, <1>1 DEF ServerType, RpcInv, Types
<1>15. PICK t : t = [task[c] EXCEPT !.pc = "wait", !.id = n, !.call = a + 1]
  OBVIOUS
<1>16. /\ t \in TaskType /\ t.pc = "wait" /\ t.id = n /\ t.call = a + 1 /\ t.got = task[c].got
       /\ t.server = task[c].server /\ t.starting = task[c].starting /\ t.result = task[c].result
  <2>1. PICK u \in TaskType : u = task[c]
    BY <1>3
  <2>2. PICK b \in Nat : b = a + 1
    OBVIOUS
  <2>3. t = [u EXCEPT !.pc = "wait", !.id = n, !.call = b]
    BY <1>15, <2>1, <2>2
  <2> QED
    BY <2>1, <2>2, <2>3 DEF TaskType
<1>17. task' = [task EXCEPT ![c] = t]
  <2>1. task' = [task EXCEPT ![c].pc = "wait", ![c].id = n, ![c].call = a + 1]
    BY <1>2, <1>4, <1>5
  <2> QED
    BY <1>15, <2>1 DEF RpcInv, Types
<1>18. Held(new) \subseteq Held(s) \cup {fresh} /\ Beyond(new) = Beyond(s)
  BY <1>9, <1>13 DEF Held, Beyond
<1>19. Process(s) /\ Apart(s)
  BY <1>1, <1>2 DEF RpcInv, Processes, QueueApart
<1>20. Process(new)
  <2>1. \A k \in 1..(n - 1) : k \in 1..(m - 1)
    BY <1>10
  <2> QED
    BY <1>2, <1>3, <1>4, <1>13, <1>19, <2>1 DEF Process, Lsp
<1>21. Apart(new)
  <2>1. \A r \in Held(s) : r.id \in 1..(n - 1)
    BY <1>1, <1>2, <1>4 DEF RpcInv, OneName, Named
  <2>2. n \notin 1..(n - 1)
    OBVIOUS
  <2>3. \A r \in Elements(s.queue) : r.id # n
    BY <2>1, <2>2 DEF Held
  <2>4. n \notin Beyond(s)
    <3>1. \A r \in Elements(s.pipe) \cup s.asked : r.id # n
      BY <2>1, <2>2 DEF Held
    <3>2. \A x \in {y \in Elements(s.out) : y.call # Nobody} : x.to # n
      <4> SUFFICES ASSUME NEW x \in Elements(s.out), x.call # Nobody PROVE x.to # n
        OBVIOUS
      <4>1. [id |-> x.to, call |-> x.call] \in Held(s)
        BY DEF Held
      <4> QED
        BY <2>1, <2>2, <4>1
    <3>3. n \notin s.pending
      BY <1>4, <1>19, <2>2 DEF Process
    <3> QED
      BY <3>1, <3>2, <3>3 DEF Beyond
  <2> SUFFICES ASSUME NEW k \in DOMAIN more
               PROVE  /\ more[k].id \notin Beyond(s)
                      /\ \A l \in DOMAIN more : l # k => more[l].id # more[k].id
    BY <1>13, <1>18 DEF Apart
  <2>5. \A l \in DOMAIN more : \/ l \in DOMAIN s.queue /\ more[l] = s.queue[l] /\ more[l] \in Elements(s.queue)
                               \/ l = Len(s.queue) + 1 /\ more[l] = fresh
    <3> TAKE l \in DOMAIN more
    <3>1. l \in 1..Len(s.queue) \/ l = Len(s.queue) + 1
      BY <1>9
    <3> QED
      BY <1>9, <3>1 DEF Elements
  <2> QED
    BY <1>7, <1>19, <2>3, <2>4, <2>5 DEF Apart
<1>22. \A r \in Elements(new.queue) : r \in Elements(s.queue) \/ r.id = n
  BY <1>7, <1>9, <1>13
<1>23. /\ asks' = a + 1 /\ new.next = n + 1 /\ t.server = p
       /\ Held(new) \subseteq Held(s) \cup {[id |-> n, call |-> a + 1]}
       /\ new.pending \subseteq s.pending \cup {n}
       /\ t.pc \in {"write", "wait"} /\ t.pc # "write" /\ t.got = Nothing
  BY <1>1, <1>5, <1>6, <1>10, <1>13, <1>16, <1>18
<1>24. NewRequest(c, t, p, n, a) /\ NewNumber(server[p], new, n, a)
  BY <1>2, <1>4, <1>13, <1>16, <1>20, <1>21, <1>22, <1>23 DEF NewRequest, NewNumber
<1> QED
  BY <1>1, <1>5, <1>13, <1>14, <1>16, <1>17, <1>23, <1>24, AskKeeps

-----------------------------------------------------------------------------
\* a language server's request is written by its task
LEMMA WriteKeeps ==
    ASSUME NEW c \in Callers, RpcInv, task[c].pc = "write", NEW p, p = task[c].server,
           server' = [server EXCEPT ![p].pipe = Append(@, Request(c))],
           task' = [task EXCEPT ![c].pc = "wait"],
           UNCHANGED <<kind, client, lock, asks, left>>
    PROVE  RpcInv'
<1>1. /\ Out(c) /\ p \in Servers /\ server[p].spawned /\ kind \in Lsp /\ Request(c) \in Named(p)
      /\ task[c] \in TaskType /\ task \in [Callers -> TaskType] /\ server \in [Servers -> ServerType]
      /\ task[c].starting \/ ~task[c].starting
  BY OutFacts DEF Out, RpcInv, Tasks, Types
<1>2. PICK s \in ServerType : s = server[p]
  BY <1>1
<1>3. Process(s) /\ s.queue = <<>> /\ s.spawned
  BY <1>1, <1>2 DEF RpcInv, Processes, Process
<1>4. PICK x : x = Request(c)
  OBVIOUS
<1>5. x \in Requests
  <2>1. task[c].id \in Nat \ {0} /\ task[c].call \in 1..asks /\ task[c].call # 0 /\ task[c].call \in Nat
    BY <1>1, OutFacts DEF TaskType
  <2> QED
    BY <1>4, <2>1 DEF Request, Requests
<1>6. PICK more : more = Append(s.pipe, x)
  OBVIOUS
<1>7. more \in Seq(Requests) /\ Elements(more) = Elements(s.pipe) \cup {x}
  BY <1>5, <1>6, AppendElements DEF ServerType
<1>8. PICK new : new = [s EXCEPT !.pipe = more]
  OBVIOUS
<1>9. /\ new \in ServerType /\ new.next = s.next /\ new.pending = s.pending
      /\ new.spawned = s.spawned /\ new.reads = s.reads /\ new.writes = s.writes
      /\ new.queue = s.queue /\ new.pipe = more /\ new.asked = s.asked /\ new.out = s.out
  BY <1>7, <1>8 DEF ServerType
<1>10. server' = [server EXCEPT ![p] = new]
  BY <1>2, <1>4, <1>6, <1>8
<1>11. /\ server' \in [Servers -> ServerType] /\ server'[p] = new
       /\ \A q \in Servers : q # p => server'[q] = server[q]
  BY <1>1, <1>9, <1>10
<1>12. \A q \in Servers : /\ server'[q].spawned = server[q].spawned /\ server'[q].next = server[q].next
                          /\ server'[q].pending = server[q].pending /\ server'[q].queue = server[q].queue
                          /\ server'[q].reads = server[q].reads /\ server'[q].writes = server[q].writes
  BY <1>2, <1>9, <1>11
<1>13. PICK t : t = [task[c] EXCEPT !.pc = "wait"]
  OBVIOUS
<1>14. /\ t \in TaskType /\ t.pc = "wait" /\ t.server = p /\ t.id = task[c].id /\ t.call = task[c].call
       /\ t.got = task[c].got /\ t.starting = task[c].starting /\ t.result = task[c].result
  BY <1>1, <1>13 DEF TaskType
<1>15. task' = [task EXCEPT ![c] = t]
  BY <1>1, <1>13
<1>16. /\ task' \in [Callers -> TaskType] /\ task'[c] = t
       /\ \A d \in Callers : d # c => task'[d] = task[d]
  BY <1>1, <1>14, <1>15
<1>17. \A d \in Callers :
          /\ task'[d].server = task[d].server /\ task'[d].id = task[d].id /\ task'[d].call = task[d].call
          /\ task'[d].got = task[d].got /\ task'[d].result = task[d].result
          /\ Out(d)' = Out(d) /\ (task'[d].starting = task[d].starting)
          /\ task'[d].pc = task[d].pc \/ (task'[d].pc = "wait" /\ task[d].pc = "write")
  BY <1>1, <1>14, <1>16 DEF Out
<1>18. Types' /\ Mutex'
  <2>1. Mutex'
    BY <1>14, <1>15, StillHolds
  <2> QED
    BY <1>11, <1>16, <2>1 DEF RpcInv, Types
<1>19. Tasks' /\ Manager'
  <2>1. Tasks'
    <3> SUFFICES ASSUME NEW d \in Callers
                 PROVE  /\ task'[d].pc \in {"idle", "lock", "ask"} => task'[d].id = 0 /\ task'[d].got = Nothing
                        /\ task'[d].pc \in {"ask", "write", "wait"} =>
                              task'[d].server \in Servers /\ server'[task'[d].server].spawned
                        /\ task'[d].pc = "write" => kind \in Lsp
                        /\ task'[d].starting => /\ task'[d].pc \in {"ask", "write", "wait"}
                                                /\ kind = "lsp" /\ client = Nobody
                        /\ task'[d].result = "ok" => task'[d].pc = "done"
      BY DEF Tasks
    <3>1. CASE d = c
      BY <1>1, <1>12, <1>14, <1>16, <3>1 DEF RpcInv, Tasks
    <3>2. CASE d # c
      BY <1>12, <1>16, <3>2 DEF RpcInv, Tasks
    <3> QED
      BY <3>1, <3>2
  <2>2. Manager'
    BY <1>12 DEF RpcInv, Manager, Types, Nobody
  <2> QED
    BY <2>1, <2>2
<1>20. Processes' /\ QueueApart'
  <2>1. \A m : Readable(m)' = Readable(m)
    BY DEF Readable
  <2>2. Process(new) /\ Apart(new)
    BY <1>3, <1>9 DEF Process, Apart
  <2>3. \A q \in Servers : Process(server'[q]) /\ Apart(server'[q])
    BY <1>11, <2>2 DEF RpcInv, Processes, QueueApart
  <2> QED
    BY <2>1, <2>3 DEF Processes, Process, QueueApart, Apart, Beyond, Elements
<1>21. OneName'
  <2>1. Held(new) \subseteq Held(s) \cup {x}
    BY <1>7, <1>9 DEF Held
  <2>2. \A d \in Callers : Request(d)' = Request(d)
    BY <1>17 DEF Request
  <2>3. \A q \in Servers : Named(q)' \subseteq Named(q)
    <3> TAKE q \in Servers
    <3>1. Named(q)' = Held(server'[q]) \cup {Request(d)' : d \in {e \in Callers : Out(e)' /\ task'[e].server = q}}
      BY DEF Named, Held, Elements
    <3>2. Held(server'[q]) \subseteq Named(q)
      <4>1. CASE q = p
        BY <1>1, <1>2, <1>4, <1>11, <2>1, <4>1 DEF Named
      <4>2. CASE q # p
        BY <1>11, <4>2 DEF Named
      <4> QED
        BY <4>1, <4>2
    <3> QED
      BY <1>17, <2>2, <3>1, <3>2 DEF Named
  <2> QED
    BY <1>12, <2>3 DEF RpcInv, OneName
<1>22. HeardOwn'
  <2>1. \A q \in Servers : \A id : Settled(server[q], id) => Settled(server'[q], id)
    BY <1>12 DEF Settled
  <2> SUFFICES ASSUME NEW d \in Callers, Out(d)', task'[d].got # Nothing
               PROVE  /\ \/ task'[d].got.call = task'[d].call
                         \/ kind \in Lsp /\ task'[d].got.body = "own"
                      /\ Settled(server'[task'[d].server], task'[d].id)
    BY DEF HeardOwn, Settled
  <2>2. /\ Out(d) /\ task[d].got # Nothing /\ task'[d].got = task[d].got /\ task'[d].call = task[d].call
        /\ task'[d].server = task[d].server /\ task'[d].id = task[d].id
    BY <1>17
  <2>3. task[d].server \in Servers
    BY <2>2, OutFacts
  <2>4. /\ task[d].got.call = task[d].call \/ (kind \in Lsp /\ task[d].got.body = "own")
        /\ Settled(server[task[d].server], task[d].id)
    BY <2>2 DEF RpcInv, HeardOwn
  <2> QED
    BY <2>1, <2>2, <2>3, <2>4
<1>23. /\ \A q, id : GivenUp(left, q, id)' = GivenUp(left, q, id)
       /\ \A d \in Callers : \A q, id : Waits(d, q, id) => Waits(d, q, id)'
  BY <1>17 DEF GivenUp, Waits
<1>24. QueueAwaited'
  <2>1. \A q \in Servers : \A r \in Elements(server'[q].queue) :
           (\E d \in Callers : Waits(d, q, r.id)') \/ GivenUp(left, q, r.id)
    BY <1>12, <1>23 DEF RpcInv, QueueAwaited
  <2> QED
    BY <1>23, <2>1 DEF QueueAwaited, Elements
<1>25. ParkedAwaited'
  <2> SUFFICES ASSUME NEW q \in Servers, NEW id \in server'[q].pending
               PROVE  \/ \E d \in Callers : Waits(d, q, id)'
                      \/ GivenUp(left, q, id)
                      \/ kind = "mcp" /\ ~server'[q].reads /\ ~server'[q].writes
    BY <1>23 DEF ParkedAwaited
  <2> QED
    BY <1>12, <1>23 DEF RpcInv, ParkedAwaited
<1>26. OwnAnswer'
  BY <1>17 DEF RpcInv, OwnAnswer
<1> QED
  BY <1>18, <1>19, <1>20, <1>21, <1>22, <1>24, <1>25, <1>26 DEF RpcInv

-----------------------------------------------------------------------------
\* the reader hands the next message to whoever is parked under its number
LEMMA PumpKeeps == ASSUME NEW p \in Servers, RpcInv, Pump(p) PROVE RpcInv'
<1>1. PICK s \in ServerType : s = server[p]
  BY DEF RpcInv, Types
<1>2. s.reads /\ s.out # <<>> /\ UNCHANGED <<kind, client, lock, asks>>
  BY <1>1 DEF Pump
<1>3. PICK m : m = Head(s.out)
  OBVIOUS
<1>4. PICK rest : rest = Tail(s.out)
  OBVIOUS
<1>5. /\ rest \in Seq(Messages) /\ m \in Messages /\ m \in Elements(s.out)
      /\ Elements(rest) \subseteq Elements(s.out)
  BY <1>2, <1>3, <1>4, TailElements DEF ServerType
<1>6. s.spawned
  <2>1. s.reads # Unborn.reads
    BY <1>2 DEF Unborn
  <2> QED
    BY <1>1, <2>1 DEF RpcInv, Processes, Process
<1>7. Process(s) /\ Apart(s) /\ Readable(m) /\ s.pending \subseteq Beyond(s)
  BY <1>1, <1>5 DEF RpcInv, Processes, QueueApart, Process, Beyond
<1>8. PICK few : few = s.pending \ {m.to}
  OBVIOUS
<1>9. PICK goes \in BOOLEAN : goes = (m # Garbage)
  OBVIOUS
<1>10. PICK new : new = [s EXCEPT !.out = rest, !.pending = few, !.reads = goes]
  OBVIOUS
<1>11. /\ new \in ServerType /\ new.pipe = s.pipe /\ new.asked = s.asked /\ new.spawned = s.spawned
       /\ new.next = s.next /\ new.writes = s.writes /\ new.queue = s.queue /\ new.out = rest
       /\ new.pending = few /\ few \subseteq s.pending
  BY <1>5, <1>8, <1>9, <1>10 DEF ServerType
<1>12. server' = [server EXCEPT ![p] = new]
  BY <1>1, <1>3, <1>4, <1>8, <1>9, <1>10 DEF Pump
<1>13. /\ server' \in [Servers -> ServerType] /\ server'[p] = new
       /\ \A q \in Servers : q # p => server'[q] = server[q]
  BY <1>11, <1>12 DEF RpcInv, Types
<1>14. \A q \in Servers : /\ server'[q].spawned = server[q].spawned /\ server'[q].next = server[q].next
                          /\ server'[q].pending \subseteq server[q].pending
                          /\ server'[q].queue = server[q].queue
  BY <1>1, <1>11, <1>13
\* what the tasks hear
<1>15. PICK heard \in SUBSET Callers :
          /\ \A d \in heard : m.to \in s.pending /\ Waits(d, p, m.to) /\ Passed(m)
          /\ task' = [d \in Callers |-> IF d \in heard THEN [task[d] EXCEPT !.got = m] ELSE task[d]]
  <2>1. PICK some : some = {d \in Callers : m.to \in s.pending /\ Waits(d, p, m.to) /\ Passed(m)}
    OBVIOUS
  <2>2. task' = [d \in Callers |-> IF m.to \in s.pending /\ Waits(d, p, m.to) /\ Passed(m)
                                   THEN [task[d] EXCEPT !.got = m] ELSE task[d]]
    BY <1>1, <1>3 DEF Pump
  <2>3. task' = [d \in Callers |-> IF d \in some THEN [task[d] EXCEPT !.got = m] ELSE task[d]]
    BY <2>1, <2>2
  <2> QED
    BY <2>1, <2>3
<1>16. \A d \in Callers :
          /\ task'[d] \in TaskType
          /\ task'[d].server = task[d].server /\ task'[d].id = task[d].id /\ task'[d].call = task[d].call
          /\ task'[d].pc = task[d].pc /\ task'[d].result = task[d].result
          /\ task'[d].starting = task[d].starting
          /\ d \in heard => task'[d].got = m /\ Waits(d, p, m.to) /\ m.to \in s.pending /\ Passed(m)
          /\ d \notin heard => task'[d] = task[d]
  <2> TAKE d \in Callers
  <2>1. PICK t \in TaskType : t = task[d]
    BY DEF RpcInv, Types
  <2>2. CASE d \in heard
    <3>1. PICK u : u = [t EXCEPT !.got = m]
      OBVIOUS
    <3>2. task'[d] = u
      BY <1>15, <2>1, <2>2, <3>1
    <3>3. /\ u \in TaskType /\ u.server = t.server /\ u.id = t.id /\ u.call = t.call /\ u.pc = t.pc
          /\ u.result = t.result /\ u.starting = t.starting /\ u.got = m
      BY <1>5, <3>1 DEF TaskType
    <3> QED
      BY <1>15, <2>1, <2>2, <3>2, <3>3
  <2>3. CASE d \notin heard
    BY <1>15, <2>1, <2>3
  <2> QED
    BY <2>2, <2>3
<1>17. /\ task' \in [Callers -> TaskType]
       /\ \A d \in Callers : Out(d)' = Out(d) /\ \A q, id : Waits(d, q, id)' = Waits(d, q, id)
  BY <1>15, <1>16 DEF Out, Waits
<1>18. left' = {e \in left : m.to \notin s.pending \/ e.server # p \/ e.id # m.to}
  BY <1>1, <1>3 DEF Pump
<1>19. \A q, id : GivenUp(left, q, id) /\ (m.to \notin s.pending \/ q # p \/ id # m.to)
                     => GivenUp(left, q, id)'
  BY <1>2, <1>18 DEF GivenUp
<1>20. Types'
  BY <1>2, <1>13, <1>17, <1>18 DEF RpcInv, Types
<1>21. Mutex'
  BY <1>2, <1>16 DEF RpcInv, Mutex
<1>22. Tasks'
  <2> SUFFICES ASSUME NEW d \in Callers
               PROVE  /\ task'[d].pc \in {"idle", "lock", "ask"} => task'[d].id = 0 /\ task'[d].got = Nothing
                      /\ task'[d].pc \in {"ask", "write", "wait"} =>
                            task'[d].server \in Servers /\ server'[task'[d].server].spawned
                      /\ task'[d].pc = "write" => kind' \in Lsp
                      /\ task'[d].starting => /\ task'[d].pc \in {"ask", "write", "wait"}
                                              /\ kind' = "lsp" /\ client' = Nobody
                      /\ task'[d].result = "ok" => task'[d].pc = "done"
    BY DEF Tasks
  <2>1. task'[d].pc \in {"idle", "lock", "ask"} => task'[d] = task[d]
    BY <1>16 DEF Waits
  <2>2. task'[d].pc \in {"ask", "write", "wait"} =>
             task'[d].server \in Servers /\ server'[task'[d].server].spawned
    BY <1>14, <1>16 DEF RpcInv, Tasks
  <2>3. task'[d].starting => task[d].starting
    BY <1>16
  <2> QED
    BY <1>2, <1>16, <2>1, <2>2, <2>3 DEF RpcInv, Tasks
<1>23. Manager'
  BY <1>2, <1>14 DEF RpcInv, Manager, Types, Nobody
<1>24. Processes' /\ QueueApart'
  <2>1. \A x : Readable(x)' = Readable(x)
    BY <1>2 DEF Readable
  <2>2. Beyond(new) \subseteq Beyond(s)
    BY <1>5, <1>11 DEF Beyond
  <2>3. Process(new) /\ Apart(new)
    BY <1>5, <1>6, <1>7, <1>11, <2>2 DEF Process, Apart
  <2>4. \A q \in Servers : Process(server'[q]) /\ Apart(server'[q])
    BY <1>13, <2>3 DEF RpcInv, Processes, QueueApart
  <2> QED
    BY <1>2, <2>1, <2>4 DEF Processes, Process, QueueApart, Apart, Beyond, Elements
<1>25. OneName'
  <2>1. Held(new) \subseteq Held(s)
    BY <1>5, <1>11 DEF Held
  <2>2. \A d \in Callers : Request(d)' = Request(d)
    BY <1>16 DEF Request
  <2>3. \A q \in Servers : Named(q)' \subseteq Named(q)
    <3> TAKE q \in Servers
    <3>1. Named(q)' = Held(server'[q]) \cup {Request(d)' : d \in {e \in Callers : Out(e)' /\ task'[e].server = q}}
      BY DEF Named, Held, Elements
    <3>2. Held(server'[q]) \subseteq Held(server[q])
      BY <1>1, <1>13, <2>1
    <3> QED
      BY <1>16, <1>17, <2>2, <3>1, <3>2 DEF Named
  <2> QED
    BY <1>2, <1>14, <2>3 DEF RpcInv, OneName
<1>26. HeardOwn'
  <2> SUFFICES ASSUME NEW d \in Callers, Out(d)', task'[d].got # Nothing
               PROVE  /\ \/ task'[d].got.call = task'[d].call
                         \/ kind \in Lsp /\ task'[d].got.body = "own"
                      /\ Settled(server'[task'[d].server], task'[d].id)
    BY <1>2 DEF HeardOwn, Settled
  <2>1. Out(d) /\ task[d].server \in Servers /\ task[d].id \in Nat \ {0}
        /\ Request(d) \in Named(task[d].server)
    BY <1>17, OutFacts
  <2>2. CASE d \in heard
    <3>1. task'[d].got = m /\ task[d].server = p /\ task[d].id = m.to /\ m.to \in s.pending
          /\ (kind \in Lsp \/ m.body # "own")
      BY <1>16, <2>2 DEF Waits, Passed
    <3>2. m.call = task[d].call \/ (kind \in Lsp /\ m.body = "own")
      <4>1. CASE m.call = Nobody
        BY <1>7, <2>1, <3>1, <4>1, Shapes DEF Readable
      <4>2. CASE m.call # Nobody
        <5>1. [id |-> m.to, call |-> m.call] \in Named(p)
          BY <1>1, <1>5, <4>2 DEF Named, Held
        <5>2. Request(d) \in Named(p) /\ Request(d).id = m.to /\ Request(d).call = task[d].call
          BY <2>1, <3>1 DEF Request
        <5>3. [id |-> m.to, call |-> m.call] = Request(d)
          BY <5>1, <5>2 DEF RpcInv, OneName
        <5> QED
          BY <5>2, <5>3
      <4> QED
        BY <4>1, <4>2
    <3>3. Settled(new, m.to)
      BY <1>7, <1>8, <1>11, <3>1 DEF Settled, Apart, Elements
    <3> QED
      BY <1>13, <1>16, <3>1, <3>2, <3>3
  <2>3. CASE d \notin heard
    <3>1. task'[d] = task[d]
      BY <1>16, <2>3
    <3>2. Settled(server[task[d].server], task[d].id)
          /\ (task[d].got.call = task[d].call \/ (kind \in Lsp /\ task[d].got.body = "own"))
      BY <2>1, <3>1 DEF RpcInv, HeardOwn
    <3>3. Settled(server'[task[d].server], task[d].id)
      BY <1>14, <2>1, <3>2 DEF Settled
    <3> QED
      BY <3>1, <3>2, <3>3
  <2> QED
    BY <2>2, <2>3
<1>27. QueueAwaited'
  <2> SUFFICES ASSUME NEW q \in Servers, NEW r \in Elements(server'[q].queue)
               PROVE  (\E d \in Callers : Waits(d, q, r.id)') \/ GivenUp(left, q, r.id)'
    BY DEF QueueAwaited, Elements, GivenUp
  <2>1. r \in Elements(server[q].queue)
    BY <1>14
  <2>2. m.to \notin s.pending \/ q # p \/ r.id # m.to
    BY <1>1, <1>7, <2>1 DEF Apart, Elements
  <2>3. (\E d \in Callers : Waits(d, q, r.id)) \/ GivenUp(left, q, r.id)
    BY <2>1 DEF RpcInv, QueueAwaited
  <2> QED
    BY <1>17, <1>19, <2>2, <2>3
<1>28. ParkedAwaited'
  <2> SUFFICES ASSUME NEW q \in Servers, NEW id \in server'[q].pending
               PROVE  \/ \E d \in Callers : Waits(d, q, id)'
                      \/ GivenUp(left, q, id)'
                      \/ kind = "mcp" /\ ~server'[q].reads /\ ~server'[q].writes
    BY <1>2 DEF ParkedAwaited, GivenUp
  <2>1. id \in server[q].pending /\ (q # p \/ id # m.to)
    BY <1>8, <1>11, <1>13, <1>14
  <2>2. \/ \E d \in Callers : Waits(d, q, id)
        \/ GivenUp(left, q, id)
        \/ kind = "mcp" /\ ~server[q].reads /\ ~server[q].writes
    BY <2>1 DEF RpcInv, ParkedAwaited
  <2> QED
    BY <1>1, <1>2, <1>13, <1>17, <1>19, <2>1, <2>2
<1>29. OwnAnswer'
  <2> SUFFICES ASSUME NEW d \in Callers, task'[d].result = "ok"
               PROVE  /\ task'[d].got.body # "error"
                      /\ \/ task'[d].got.call = task'[d].call
                         \/ kind \in Lsp /\ task'[d].got.body = "own"
    BY <1>2 DEF OwnAnswer
  <2>1. task[d].result = "ok" /\ task[d].pc = "done"
    BY <1>16 DEF RpcInv, Tasks
  <2>2. task'[d] = task[d]
    BY <1>16, <2>1 DEF Waits
  <2> QED
    BY <2>1, <2>2 DEF RpcInv, OwnAnswer
<1> QED
  BY <1>20, <1>21, <1>22, <1>23, <1>24, <1>25, <1>26, <1>27, <1>28, <1>29 DEF RpcInv

-----------------------------------------------------------------------------
(* Every step keeps the invariant.                                           *)
LEMMA EnterStep == ASSUME NEW c \in Callers, RpcAssumption, RpcInv, Enter(c) PROVE RpcInv'
<1>1. task[c].pc = "lock" /\ Holds(c) /\ UNCHANGED <<kind, client, calls, asks>>
  BY DEF Enter
<1>2. CASE /\ client # Nobody
           /\ task' = [task EXCEPT ![c].pc = "ask", ![c].server = client]
           /\ UNCHANGED <<server, lock, left>>
  BY <1>1, <1>2, EnterKeeps
<1>3. CASE /\ client = Nobody
           /\ \E p \in Unspawned :
               /\ \A q \in Unspawned : p <= q
               /\ server' = [q \in Servers |-> CASE q = p -> Born
                                               [] q # p /\ server[q].spawned /\ ~Known(q) -> Abandoned
                                               [] OTHER -> server[q]]
               /\ left' = {e \in left : Known(e.server)}
               /\ task' = [task EXCEPT ![c].pc = "ask", ![c].server = p, ![c].starting = TRUE]
           /\ UNCHANGED lock
  BY <1>1, <1>3, SpawnKeeps
<1>4. CASE client = Nobody /\ End(c, "error") /\ UNCHANGED <<server, left>>
  <2>1. Ends(c)
    BY <1>1, <1>4, EnterEnds
  <2> QED
    BY <2>1, EndsKeep
<1> QED
  BY <1>2, <1>3, <1>4 DEF Enter

LEMMA AskStep == ASSUME NEW c \in Callers, RpcInv, Ask(c) PROVE RpcInv'
<1>1. task[c].pc = "ask" /\ UNCHANGED <<kind, client, calls>>
  BY DEF Ask
<1>2. PICK p : p = task[c].server
  OBVIOUS
<1>3. CASE /\ kind \in Lsp
           /\ server' = [server EXCEPT ![p] =
                        [[server[p] EXCEPT !.next = @ + 1] EXCEPT !.pending = @ \cup {server[p].next}]]
           /\ task' = [task EXCEPT ![c].pc = "write", ![c].id = server[p].next, ![c].call = asks + 1]
           /\ asks' = asks + 1 /\ UNCHANGED <<lock, left>>
  BY <1>1, <1>2, <1>3, AskLspKeeps
<1>4. CASE /\ kind = "mcp" /\ server[p].writes
           /\ server' = [server EXCEPT ![p] =
                        [[server[p] EXCEPT !.next = @ + 1] EXCEPT
                            !.queue = Append(@, [id |-> server[p].next, call |-> asks + 1])]]
           /\ task' = [task EXCEPT ![c].pc = "wait", ![c].id = server[p].next, ![c].call = asks + 1]
           /\ asks' = asks + 1 /\ UNCHANGED <<lock, left>>
  BY <1>1, <1>2, <1>4, AskMcpKeeps
<1>5. CASE End(c, "error") /\ UNCHANGED <<server, asks, left>>
  <2>1. Ends(c)
    BY <1>1, <1>5, EnterEnds
  <2> QED
    BY <2>1, EndsKeep
<1> QED
  BY <1>2, <1>3, <1>4, <1>5 DEF Ask, NextNumber, Mine

LEMMA WriteStep == ASSUME NEW c \in Callers, RpcInv, Write(c) PROVE RpcInv'
<1>1. task[c].pc = "write" /\ UNCHANGED <<kind, client, calls, asks>>
  BY DEF Write
<1>2. CASE /\ server' = [server EXCEPT ![task[c].server].pipe = Append(@, Request(c))]
           /\ task' = [task EXCEPT ![c].pc = "wait"]
           /\ UNCHANGED <<lock, left>>
  BY <1>1, <1>2, WriteKeeps
<1>3. CASE End(c, "error") /\ Leaves(c, "write failed") /\ UNCHANGED server
  <2>1. Ends(c)
    BY <1>1, <1>3, WriteEnds
  <2> QED
    BY <2>1, EndsKeep
<1> QED
  BY <1>2, <1>3 DEF Write

LEMMA WakeStep == ASSUME NEW c \in Callers, RpcInv, Wake(c) PROVE RpcInv'
<1>1. /\ task[c].pc = "wait" /\ task[c].got # Nothing
      /\ UNCHANGED <<kind, server, calls, asks, left>>
  BY DEF Wake
<1>2. CASE ~task[c].starting
  <2>1. /\ End(c, IF Succeeded(task[c].got) THEN "ok" ELSE "error") /\ UNCHANGED client
    BY <1>2 DEF Wake
  <2>2. PICK r \in {"ok", "error"} : r = IF Succeeded(task[c].got) THEN "ok" ELSE "error"
    OBVIOUS
  <2>3. End(c, r) /\ (r = "ok" => Succeeded(task[c].got))
    BY <2>1, <2>2
  <2>4. Ends(c)
    BY <1>1, <1>2, <2>1, <2>3, WakeEnds
  <2> QED
    BY <2>4, EndsKeep
<1>3. CASE task[c].starting
  <2>1. CASE /\ client' = task[c].server
             /\ task' = [task EXCEPT ![c] = [Idle EXCEPT !.pc = "ask", !.server = task[c].server]]
             /\ UNCHANGED lock
    BY <1>1, <1>3, <2>1, StartKeeps
  <2>2. CASE End(c, "error") /\ UNCHANGED client
    <3>1. Ends(c)
      BY <1>1, <2>2, WakeEnds
    <3> QED
      BY <3>1, EndsKeep
  <2> QED
    BY <1>3, <2>1, <2>2 DEF Wake
<1> QED
  BY <1>2, <1>3

LEMMA RpcStep == ASSUME RpcAssumption, RpcInv, [Next]_vars PROVE RpcInv'
<1>1. ASSUME NEW c \in Callers, Call(c) PROVE RpcInv'
  BY <1>1, CallKeeps
<1>2. ASSUME NEW c \in Callers, Step(c) PROVE RpcInv'
  <2>1. CASE Timeout(c) \/ Closed(c)
    BY <2>1, TimeoutEnds, ClosedEnds, EndsKeep
  <2> QED
    BY <1>2, <2>1, EnterStep, AskStep, WriteStep, WakeStep DEF Step
<1>3. ASSUME NEW c \in Callers, Cancel(c) PROVE RpcInv'
  BY <1>3, CancelEnds, EndsKeep
<1>4. ASSUME NEW p \in Servers,
             Writer(p) \/ Reader(p) \/ Reads(p) \/ Answers(p) \/ Speaks(p) \/ Dies(p)
      PROVE  RpcInv'
  BY <1>4, WriterKeeps, PumpKeeps, PumpEndsKeeps, ReadsKeeps, AnswersKeeps, SpeaksKeeps, DiesKeeps
  DEF Reader
<1>5. CASE UNCHANGED vars
  <2>1. UNCHANGED <<kind, client, server, lock, task, asks, left>>
    BY <1>5 DEF vars
  <2>2. Types' /\ Mutex' /\ Tasks' /\ Manager' /\ OwnAnswer'
    BY <2>1 DEF RpcInv, Types, Mutex, Tasks, Manager, OwnAnswer
  <2>3. Processes'
    BY <2>1 DEF RpcInv, Processes, Process, Readable, Elements
  <2>4. OneName'
    BY <2>1 DEF RpcInv, OneName, Named, Held, Out, Request, Elements
  <2>5. QueueApart' /\ HeardOwn'
    BY <2>1 DEF RpcInv, QueueApart, Apart, Beyond, HeardOwn, Out, Settled, Elements
  <2>6. QueueAwaited' /\ ParkedAwaited'
    <3>1. /\ \A q, id : GivenUp(left, q, id)' = GivenUp(left, q, id)
          /\ \A d, q, id : Waits(d, q, id)' = Waits(d, q, id)
      BY <2>1 DEF GivenUp, Waits
    <3>2. QueueAwaited'
      BY <2>1, <3>1 DEF RpcInv, QueueAwaited, Elements
    <3>3. ParkedAwaited'
      BY <2>1, <3>1 DEF RpcInv, ParkedAwaited
    <3> QED
      BY <3>2, <3>3
  <2> QED
    BY <2>2, <2>3, <2>4, <2>5, <2>6 DEF RpcInv
<1> QED
  BY <1>1, <1>2, <1>3, <1>4, <1>5 DEF Next, Quiet

\* what is parked is awaited, in the names of the runs
LEMMA AwaitedIsAwaited == ParkedAwaited => ParkedIsAwaited
BY DEF ParkedAwaited, ParkedIsAwaited, GivenUp

\* one server at most is the manager's or being started: two tasks that start
\* one are both first at the mutex
LEMMA OnlyOneStarts == ASSUME RpcAssumption, RpcInv PROVE StartedOnce
<1> DEFINE Ours == {p \in Servers : \/ p = client
                                    \/ \E c \in Callers : /\ task[c].starting /\ task[c].server = p
                                                          /\ task[c].pc # "done"}
<1>1. \A p, q \in Ours : p = q
  <2>1. \A c \in Callers : task[c].starting => /\ task[c].pc \in {"ask", "write", "wait"}
                                               /\ kind = "lsp" /\ client = Nobody
    BY DEF RpcInv, Tasks
  <2>2. \A c, d \in Callers : task[c].starting /\ task[d].starting => c = d
    BY <2>1 DEF RpcInv, Mutex
  <2>3. Nobody \notin Servers
    BY DEF Nobody, Servers
  <2> QED
    BY <2>1, <2>2, <2>3
<1>2. CASE Ours = {}
  <2>1. Cardinality(Ours) = 0
    BY <1>2, FS_EmptySet
  <2> QED
    BY <2>1 DEF StartedOnce
<1>3. CASE Ours # {}
  <2>1. PICK p \in Ours : TRUE
    BY <1>3
  <2>2. Ours = {p}
    BY <1>1, <2>1
  <2>3. Cardinality(Ours) = 1
    BY <2>2, FS_Singleton
  <2> QED
    BY <2>3 DEF StartedOnce
<1> QED
  BY <1>2, <1>3

LEMMA RpcIsInvariant == Spec => []RpcInv
<1>1. Init => RpcInv
  BY RpcAssumption, InitRpc
<1>2. RpcInv /\ [Next]_vars => RpcInv'
  BY RpcAssumption, RpcStep
<1> QED
  BY <1>1, <1>2, PTL DEF Spec

(* A call that succeeds returns the answer to its own request, for any number of
   tasks, calls, servers and any room in the pipes: send_request, the reader task
   and the timeouts never mix two requests up. *)
THEOREM OwnAnswers == Spec => []OwnAnswer
<1>1. RpcInv => OwnAnswer
  BY DEF RpcInv
<1> QED
  BY <1>1, RpcIsInvariant, PTL

(* Every parked sender has a task waiting for it but where the code forgets to
   take it back, and ensure_started never has two servers. *)
THEOREM NothingIsLeft == Spec => []NothingLeftBehind
<1>1. RpcInv => NothingLeftBehind
  BY RpcAssumption, AwaitedIsAwaited, OnlyOneStarts DEF RpcInv, NothingLeftBehind
<1> QED
  BY <1>1, RpcIsInvariant, PTL

(***************************************************************************)
(* The commands of a session.                                              *)
(***************************************************************************)
Item ==
    [what : {"line", "sentinel", "pwd"}, by : {"shell", "left"}, dir : Dirs \cup {"working_dir", "none"}]
Chunks ==
    [what : {"started", "line", "exit"}, pipe : {"out", "err", "none"}, item : Item \cup {"none"}]

CommandTypes ==
    /\ made \in [Jobs -> {"bash", "run", "docker", "stream", "exec_streaming", "no_call"}]
    /\ stage \in [Jobs -> {"idle", "called", "waited", "expired", "done"}]
    /\ shell \in [Jobs -> {"no", "runs", "exited", "killed"}]
    /\ behind \in [Jobs -> BOOLEAN] /\ where \in [Jobs -> Dirs \cup {"working_dir"}]
    /\ written \in [Jobs -> [{"out", "err"} -> Seq(Item)]]
    /\ taken \in [Jobs -> [{"out", "err"} -> Nat]]
    /\ reading \in [Jobs -> [{"out", "err"} -> BOOLEAN]]
    /\ lines \in [Jobs -> Seq(Chunks)] /\ hears \in [Jobs -> BOOLEAN]
    /\ given \in [Jobs -> Seq(Chunks)]
    /\ told \in [Jobs -> [how : {"none", "ok", "timeout"}, out : Seq(Item), err : Seq(Item)]]
    /\ from \in [Jobs -> Dirs \cup {"working_dir"}] /\ before \in [Jobs -> SUBSET Jobs]
    /\ cwd \in Dirs \cup {"working_dir", "none"} /\ gone \subseteq Dirs

\* the words the code's values are, in the module of the commands
LEMMA Words ==
    /\ Session!Pipes = {"out", "err"} /\ Session!Base = "working_dir" /\ Session!None = "none"
    /\ Session!Kinds = {"bash", "run", "docker", "stream", "exec_streaming", "no_call"}
    /\ "working_dir" \notin Dirs /\ "none" \notin Dirs /\ CommandPlans \subseteq [Jobs -> Session!Kinds]
    /\ Session!NoResult = [how |-> "none", out |-> << >>, err |-> << >>]
    /\ Session!Sentinel = [what |-> "sentinel", by |-> "shell", dir |-> "none"]
BY CommandAssumption DEF Session!Pipes, Session!Base, Session!None, Session!Kinds, Session!NoResult, Session!Sentinel

\* what is written to a pipe
LEMMA ItemTypes ==
    /\ \A by \in {"shell", "left"}, d \in Dirs \cup {"working_dir", "none"} :
          /\ Session!Line(by, d) \in Item /\ Session!Line(by, d).what = "line"
          /\ Session!Line(by, d).by = by /\ Session!Line(by, d).dir = d
    /\ \A i \in Item : i.what = "line" => i = Session!Line(i.by, i.dir)
    /\ Session!Sentinel \in Item /\ Session!Sentinel.what = "sentinel" /\ Session!Sentinel.dir = "none"
    /\ \A d \in Dirs \cup {"working_dir"} : Session!Pwd(d) \in Item /\ Session!Pwd(d).what = "pwd"
                                            /\ Session!Pwd(d).dir = d
BY DEF Item, Session!Line, Session!Sentinel, Session!Pwd, Session!None

\* what is sent to the caller of a stream
LEMMA ChunkTypes ==
    /\ \A what \in {"started", "exit"} :
          /\ Session!Chunk(what, "none", "none") \in Chunks
          /\ Session!Chunk(what, "none", "none").what = what /\ Session!Chunk(what, "none", "none").pipe = "none"
    /\ \A p \in {"out", "err"}, i \in Item :
          /\ Session!Chunk("line", p, i) \in Chunks /\ Session!Chunk("line", p, i).what = "line"
          /\ Session!Chunk("line", p, i).pipe = p /\ Session!Chunk("line", p, i).item = i
BY DEF Chunks, Session!Chunk

\* at the start nothing has run
LEMMA InitCommandTypes == Session!Init => CommandTypes
<1> SUFFICES ASSUME Session!Init PROVE CommandTypes
  OBVIOUS
<1>1. made \in [Jobs -> {"bash", "run", "docker", "stream", "exec_streaming", "no_call"}]
  BY Words DEF Session!Init
<1>2. << >> \in Seq(Item) /\ << >> \in Seq(Chunks)
  OBVIOUS
<1> QED
  BY <1>1, <1>2, Words DEF Session!Init, CommandTypes

\* A pipe gets one more item.
LEMMA PutsTypes ==
    ASSUME CommandTypes, NEW j \in Jobs, NEW p \in {"out", "err"}, NEW item \in Item, Session!Puts(j, p, item)
    PROVE  /\ written' \in [Jobs -> [{"out", "err"} -> Seq(Item)]]
           /\ written'[j][p] = Append(written[j][p], item)
           /\ \A q \in {"out", "err"} : q # p => written'[j][q] = written[j][q]
           /\ \A i \in Jobs : i # j => written'[i] = written[i]
<1>1. Append(written[j][p], item) \in Seq(Item)
  BY DEF CommandTypes
<1>2. written' = [written EXCEPT ![j] = [written[j] EXCEPT ![p] = Append(written[j][p], item)]]
  BY DEF Session!Puts
<1> QED
  BY <1>1, <1>2 DEF CommandTypes

\* every step keeps the types: a start and the steps that write nothing,
LEMMA TypesKept1 ==
    ASSUME CommandTypes, NEW j \in Jobs,
           \/ Session!Start(j) \/ Session!Cd(j) \/ Session!LeaveBehind(j)
           \/ Session!LeftEnds(j)
    PROVE  CommandTypes'
<1>1. CASE Session!Start(j)
  <2>1. << >> \in Seq(Chunks) /\ << Session!Chunk("started", "none", "none") >> \in Seq(Chunks)
    BY ChunkTypes
  <2>2. lines' = [lines EXCEPT ![j] = IF made[j] = "stream" THEN << Session!Chunk("started", "none", "none") >>
                                      ELSE << >>]
    BY <1>1 DEF Session!Start, Session!None
  <2>5. lines' \in [Jobs -> Seq(Chunks)]
    BY <2>2, <2>1 DEF CommandTypes
  <2>3. reading' \in [Jobs -> [{"out", "err"} -> BOOLEAN]] /\ hears' \in [Jobs -> BOOLEAN]
    BY <1>1, Words DEF Session!Start, CommandTypes, Session!Streams
  <2>4. /\ from' \in [Jobs -> Dirs \cup {"working_dir"}] /\ where' \in [Jobs -> Dirs \cup {"working_dir"}]
        /\ before' \in [Jobs -> SUBSET Jobs]
    <3>1. CASE made[j] = "bash"
      <4> DEFINE dir == IF cwd = "none" THEN "working_dir" ELSE cwd
      <4>1. dir \in Dirs \cup {"working_dir"}
        BY DEF CommandTypes
      <4>2. /\ from' = [from EXCEPT ![j] = dir]
            /\ where' = [where EXCEPT ![j] = IF dir \in gone THEN "working_dir" ELSE dir]
            /\ before' = [before EXCEPT ![j] = {i \in Jobs : stage[i] = "done"}]
        BY <1>1, <3>1, Words DEF Session!Start
      <4> HIDE DEF dir
      <4> QED
        BY <4>1, <4>2 DEF CommandTypes
    <3>2. CASE made[j] # "bash"
      BY <1>1, <3>2 DEF Session!Start, CommandTypes
    <3> QED
      BY <3>1, <3>2
  <2> QED
    BY <1>1, <2>5, <2>3, <2>4 DEF Session!Start, CommandTypes
<1>2. CASE Session!Cd(j)
  BY <1>2, Words DEF Session!Cd, CommandTypes, Session!readers, Session!stream, Session!session
<1>3. CASE Session!LeaveBehind(j) \/ Session!LeftEnds(j)
  BY <1>3 DEF Session!LeaveBehind, Session!LeftEnds, CommandTypes, Session!readers, Session!stream, Session!session
<1> QED
  BY <1>1, <1>2, <1>3

\* the steps that write,
LEMMA TypesKept2 ==
    ASSUME CommandTypes, NEW j \in Jobs,
           (\E p \in Session!Pipes : Session!Write(j, p)) \/ Session!Tell(j) \/ Session!Exit(j)
    PROVE  CommandTypes'
<1>1. CASE \E p \in Session!Pipes : Session!Write(j, p)
  <2>1. PICK p \in {"out", "err"} : Session!Write(j, p)
    BY <1>1, Words
  <2>2. PICK by \in {"shell", "left"}, d \in Dirs \cup {"working_dir", "none"} :
           Session!Puts(j, p, Session!Line(by, d))
    BY <2>1, Words DEF Session!Write, Session!Named
  <2>3. written' \in [Jobs -> [{"out", "err"} -> Seq(Item)]]
    BY <2>2, ItemTypes, PutsTypes
  <2> QED
    BY <2>1, <2>3 DEF Session!Write, CommandTypes, Session!readers, Session!stream, Session!session
<1>2. CASE Session!Tell(j)
  <2>1. written' \in [Jobs -> [{"out", "err"} -> Seq(Item)]]
    BY <1>2, ItemTypes, PutsTypes DEF Session!Tell
  <2> QED
    BY <1>2, <2>1 DEF Session!Tell, CommandTypes, Session!readers, Session!stream, Session!session
<1>3. CASE Session!Exit(j)
  <2>0. where[j] \in Dirs \cup {"working_dir"}
    BY DEF CommandTypes
  <2>1. written' \in [Jobs -> [{"out", "err"} -> Seq(Item)]]
    <3>1. CASE Session!Said(j)
      BY <1>3, <2>0, <3>1, ItemTypes, PutsTypes DEF Session!Exit
    <3>2. CASE ~Session!Said(j)
      BY <1>3, <3>2 DEF Session!Exit, CommandTypes
    <3> QED
      BY <3>1, <3>2
  <2> QED
    BY <1>3, <2>1 DEF Session!Exit, CommandTypes, Session!readers, Session!stream, Session!session
<1> QED
  BY <1>1, <1>2, <1>3

\* What the parse finds in an output that holds at most one sentinel.
LEMMA Parse ==
    ASSUME NEW out \in Seq(Item),
           \A k, l \in DOMAIN out : out[k] = Session!Sentinel /\ out[l] = Session!Sentinel => l = k
    PROVE  /\ Session!UserOutput(out) \in Seq(Item)
           /\ Session!NewCwd(out) \in Dirs \cup {"working_dir", "none"}
           /\ (\A k \in DOMAIN out : out[k] # Session!Sentinel) =>
                  Session!UserOutput(out) = out /\ Session!NewCwd(out) = "none"
           /\ \A k \in DOMAIN out : out[k] = Session!Sentinel =>
                  /\ Session!UserOutput(out) = SubSeq(out, 1, k - 1)
                  /\ Session!NewCwd(out) = IF k = Len(out) THEN "none" ELSE out[k + 1].dir
<1>1. CASE \A k \in DOMAIN out : out[k] # Session!Sentinel
  <2>1. Session!Marks(out) = {}
    BY <1>1 DEF Session!Marks
  <2>2. Session!UserOutput(out) = out /\ Session!NewCwd(out) = "none"
    BY <2>1 DEF Session!UserOutput, Session!NewCwd, Session!None
  <2> QED
    BY <1>1, <2>2
<1>2. ASSUME NEW k \in DOMAIN out, out[k] = Session!Sentinel
      PROVE  /\ Session!UserOutput(out) \in Seq(Item)
             /\ Session!UserOutput(out) = SubSeq(out, 1, k - 1)
             /\ Session!NewCwd(out) = IF k = Len(out) THEN "none" ELSE out[k + 1].dir
             /\ Session!NewCwd(out) \in Dirs \cup {"working_dir", "none"}
  <2>0. k \in 1..Len(out)
    OBVIOUS
  <2>1. Session!Marks(out) = {k}
    BY <1>2 DEF Session!Marks
  <2>2. Session!Mark(out) = k
    BY <2>1, <2>0 DEF Session!Mark
  <2>3. Session!UserOutput(out) = SubSeq(out, 1, k - 1)
    BY <2>1, <2>2 DEF Session!UserOutput
  <2>4. Session!NewCwd(out) = IF k = Len(out) THEN "none" ELSE out[k + 1].dir
    BY <2>1, <2>2 DEF Session!NewCwd, Session!None
  <2>5. SubSeq(out, 1, k - 1) \in Seq(Item)
    BY <2>0
  <2>6. k # Len(out) => k + 1 \in DOMAIN out
    BY <2>0
  <2>7. \A l \in DOMAIN out : out[l].dir \in Dirs \cup {"working_dir", "none"}
    <3>1. \A l \in DOMAIN out : out[l] \in Item
      OBVIOUS
    <3> QED
      BY <3>1 DEF Item
  <2> QED
    BY <2>3, <2>4, <2>5, <2>6, <2>7
<1> QED
  BY <1>1, <1>2

\* What comes out of a command: at most one sentinel, no line of its shell behind it,
\* and a directory only once the shell has exited there.
Spoken(j) ==
    LET out == written[j].out IN
    /\ \A k, l \in DOMAIN out : out[k] = Session!Sentinel /\ k < l =>
          out[l] # Session!Sentinel /\ ~Session!LineOfShell(out[l])
    /\ \A k \in DOMAIN out :
          /\ out[k].what = "sentinel" => out[k] = Session!Sentinel
          /\ out[k].what = "pwd" => shell[j] \notin {"no", "runs"} /\ out[k].dir = where[j]
          /\ out[k] = Session!Sentinel =>
                /\ made[j] = "bash"
                /\ shell[j] # "runs" => k < Len(out)
    /\ made[j] = "bash" => shell[j] # "killed"

\* so there is at most one sentinel in an output
LEMMA OneSentinel ==
    ASSUME CommandTypes, NEW j \in Jobs, Spoken(j)
    PROVE  /\ written[j].out \in Seq(Item)
           /\ \A k, l \in DOMAIN written[j].out :
                 written[j].out[k] = Session!Sentinel /\ written[j].out[l] = Session!Sentinel => l = k
<1>1. written[j].out \in Seq(Item)
  BY DEF CommandTypes
<1>2. \A k, l \in DOMAIN written[j].out : k = l \/ k < l \/ l < k
  BY <1>1
<1> QED
  BY <1>1, <1>2 DEF Spoken

\* a return,
LEMMA TypesKept3 ==
    ASSUME CommandTypes, NEW j \in Jobs, Spoken(j), Session!Return(j)
    PROVE  CommandTypes'
<1>1. Session!UserOutput(written[j].out) \in Seq(Item)
      /\ Session!NewCwd(written[j].out) \in Dirs \cup {"working_dir", "none"}
  BY OneSentinel, Parse
<1>2. written[j].out \in Seq(Item) /\ written[j].err \in Seq(Item)
  BY DEF CommandTypes
<1>3. told' = [told EXCEPT ![j] = [how |-> "ok", err |-> written[j].err,
                    out |-> IF made[j] = "bash" THEN Session!UserOutput(written[j].out) ELSE written[j].out]]
  BY DEF Session!Return
<1>4. told' \in [Jobs -> [how : {"none", "ok", "timeout"}, out : Seq(Item), err : Seq(Item)]]
  BY <1>1, <1>2, <1>3 DEF CommandTypes
<1>5. cwd' \in Dirs \cup {"working_dir", "none"}
  BY <1>1 DEF CommandTypes, Session!Return
<1> QED
  BY <1>4, <1>5 DEF CommandTypes, Session!Return, Session!process, Session!readers, Session!stream

\* the steps that end a call, and the caller's,
LEMMA TypesKept4 ==
    ASSUME CommandTypes, NEW j \in Jobs, \A p \in {"out", "err"} : taken[j][p] <= Len(written[j][p]),
           \/ Session!TimeOut(j) \/ Session!SendExit(j) \/ Session!Wait(j) \/ Session!Join(j)
           \/ Session!Take(j) \/ Session!Drop(j)
    PROVE  CommandTypes'
<1>1. CASE Session!TimeOut(j)
  BY <1>1 DEF CommandTypes, Session!TimeOut, Session!readers, Session!stream, Session!session
<1>2. CASE Session!SendExit(j)
  <2>1. Append(lines[j], Session!Chunk("exit", "none", "none")) \in Seq(Chunks)
    BY ChunkTypes DEF CommandTypes
  <2>2. lines' = [lines EXCEPT ![j] = IF hears[j] THEN Append(lines[j], Session!Chunk("exit", "none", "none"))
                                      ELSE lines[j]]
    BY <1>2 DEF Session!SendExit, Session!None
  <2> QED
    BY <1>2, <2>1, <2>2 DEF CommandTypes, Session!SendExit, Session!process, Session!readers, Session!session
<1>3. CASE Session!Wait(j)
  BY <1>3 DEF CommandTypes, Session!Wait, Session!process, Session!readers, Session!stream, Session!session
<1>4. CASE Session!Join(j)
  <2>1. written[j].out \in Seq(Item) /\ written[j].err \in Seq(Item) /\ taken[j].out \in 0..Len(written[j].out)
        /\ taken[j].err \in 0..Len(written[j].err)
    BY DEF CommandTypes
  <2>2. SubSeq(written[j].out, 1, taken[j].out) \in Seq(Item) /\ SubSeq(written[j].err, 1, taken[j].err) \in Seq(Item)
    BY <2>1
  <2> QED
    BY <1>4, <2>2 DEF CommandTypes, Session!Join, Session!readers, Session!stream, Session!session
<1>5. CASE Session!Take(j)
  <2>1. Append(given[j], Head(lines[j])) \in Seq(Chunks) /\ Tail(lines[j]) \in Seq(Chunks)
    BY <1>5 DEF CommandTypes, Session!Take
  <2> QED
    BY <1>5, <2>1 DEF CommandTypes, Session!Take, Session!process, Session!readers, Session!session
<1>6. CASE Session!Drop(j)
  BY <1>6 DEF CommandTypes, Session!Drop, Session!process, Session!readers, Session!session
<1> QED
  BY <1>1, <1>2, <1>3, <1>4, <1>5, <1>6

\* and the readers'
LEMMA PassTypes ==
    ASSUME CommandTypes, NEW j \in Jobs, NEW p \in {"out", "err"}, Session!Pass(j, p)
    PROVE  /\ CommandTypes'
           /\ taken[j][p] + 1 \in DOMAIN written[j][p] /\ written[j][p][taken[j][p] + 1] \in Item
<1>1. /\ written[j][p] \in Seq(Item) /\ taken[j][p] \in Nat /\ taken[j][p] < Len(written[j][p])
  BY DEF CommandTypes, Session!Pass, Session!Pending
<1>2. taken[j][p] + 1 \in DOMAIN written[j][p] /\ written[j][p][taken[j][p] + 1] \in Item
  BY <1>1
<1> DEFINE next == Session!Chunk("line", p, written[j][p][taken[j][p] + 1])
<1>3. next \in Chunks
  BY <1>2, ChunkTypes
<1>4. lines' = [lines EXCEPT ![j] = IF hears[j] THEN Append(lines[j], next) ELSE lines[j]]
  BY DEF Session!Pass, CommandTypes
<1>5. lines' \in [Jobs -> Seq(Chunks)]
  <2> HIDE DEF next
  <2> QED
    BY <1>3, <1>4 DEF CommandTypes
<1>6. taken' \in [Jobs -> [{"out", "err"} -> Nat]]
  <2>1. taken' = taken \/ taken' = [taken EXCEPT ![j] = [taken[j] EXCEPT ![p] = taken[j][p] + 1]]
    <3>1. CASE hears[j] \/ made[j] = "exec_streaming"
      BY <3>1, Zenon DEF Session!Pass
    <3>2. CASE ~(hears[j] \/ made[j] = "exec_streaming")
      BY <3>2, Zenon DEF Session!Pass
    <3> QED
      BY <3>1, <3>2
  <2>2. CASE taken' = taken
    BY <2>2 DEF CommandTypes
  <2>3. CASE taken' = [taken EXCEPT ![j] = [taken[j] EXCEPT ![p] = taken[j][p] + 1]]
    BY <2>3, <1>1 DEF CommandTypes
  <2> QED
    BY <2>1, <2>2, <2>3
<1>7. reading' \in [Jobs -> [{"out", "err"} -> BOOLEAN]]
  <2>1. reading' = reading \/ reading' = [reading EXCEPT ![j] = [reading[j] EXCEPT ![p] = FALSE]]
    <3>1. CASE ~(hears[j] \/ made[j] = "exec_streaming")
      BY <3>1, Zenon DEF Session!Pass
    <3>2. CASE hears[j] \/ made[j] = "exec_streaming"
      BY <3>2, Zenon DEF Session!Pass
    <3> QED
      BY <3>1, <3>2
  <2>2. CASE reading' = reading
    BY <2>2 DEF CommandTypes
  <2>3. CASE reading' = [reading EXCEPT ![j] = [reading[j] EXCEPT ![p] = FALSE]]
    BY <2>3 DEF CommandTypes
  <2> QED
    BY <2>1, <2>2, <2>3
<1> QED
  BY <1>2, <1>5, <1>6, <1>7 DEF CommandTypes, Session!Pass, Session!process, Session!session

LEMMA PipeEndsTypes ==
    ASSUME CommandTypes, NEW j \in Jobs, NEW p \in {"out", "err"}, Session!PipeEnds(j, p)
    PROVE  CommandTypes'
<1>1. reading' = [reading EXCEPT ![j] = [reading[j] EXCEPT ![p] = FALSE]]
  BY DEF Session!PipeEnds
<1>2. reading' \in [Jobs -> [{"out", "err"} -> BOOLEAN]]
  BY <1>1 DEF CommandTypes
<1> QED
  BY <1>2 DEF CommandTypes, Session!PipeEnds, Session!process, Session!stream, Session!session

(* What a step of a call leaves alone: all of the other calls, and of its own what it
   does not name. *)
Same(i) ==
    /\ made'[i] = made[i] /\ stage'[i] = stage[i] /\ shell'[i] = shell[i] /\ behind'[i] = behind[i]
    /\ where'[i] = where[i] /\ written'[i] = written[i] /\ taken'[i] = taken[i]
    /\ reading'[i] = reading[i] /\ lines'[i] = lines[i] /\ hears'[i] = hears[i]
    /\ given'[i] = given[i] /\ told'[i] = told[i] /\ from'[i] = from[i] /\ before'[i] = before[i]

LEMMA OthersStay ==
    ASSUME CommandTypes, NEW j \in Jobs, NEW i \in Jobs, i # j,
           Session!Start(j) \/ Session!Command(j) \/ Session!Step(j) \/ Session!Drop(j)
    PROVE  Same(i)
<1>1. CASE Session!Start(j)
  BY <1>1 DEF Same, CommandTypes, Session!Start, Session!process, Session!readers, Session!stream, Session!session
<1>2. CASE Session!Cd(j)
  BY <1>2 DEF Same, CommandTypes, Session!Cd, Session!process, Session!readers, Session!stream, Session!session
<1>3. CASE Session!LeaveBehind(j)
  BY <1>3 DEF Same, CommandTypes, Session!LeaveBehind, Session!process, Session!readers, Session!stream, Session!session
<1>4. CASE Session!LeftEnds(j)
  BY <1>4 DEF Same, CommandTypes, Session!LeftEnds, Session!process, Session!readers, Session!stream, Session!session
<1>5. CASE Session!Tell(j)
  BY <1>5 DEF Same, CommandTypes, Session!Tell, Session!process, Session!readers, Session!stream, Session!session, Session!Puts
<1>6. CASE Session!Exit(j)
  BY <1>6 DEF Same, CommandTypes, Session!Exit, Session!process, Session!readers, Session!stream, Session!session, Session!Puts
<1>7. CASE Session!Return(j)
  BY <1>7 DEF Same, CommandTypes, Session!Return, Session!process, Session!readers, Session!stream, Session!session
<1>8. CASE Session!TimeOut(j)
  BY <1>8 DEF Same, CommandTypes, Session!TimeOut, Session!process, Session!readers, Session!stream, Session!session
<1>9. CASE Session!SendExit(j)
  BY <1>9 DEF Same, CommandTypes, Session!SendExit, Session!process, Session!readers, Session!stream, Session!session
<1>10. CASE Session!Wait(j)
  BY <1>10 DEF Same, CommandTypes, Session!Wait, Session!process, Session!readers, Session!stream, Session!session
<1>11. CASE Session!Join(j)
  BY <1>11 DEF Same, CommandTypes, Session!Join, Session!process, Session!readers, Session!stream, Session!session
<1>12. CASE Session!Take(j)
  BY <1>12 DEF Same, CommandTypes, Session!Take, Session!process, Session!readers, Session!stream, Session!session
<1>13. CASE Session!Drop(j)
  BY <1>13 DEF Same, CommandTypes, Session!Drop, Session!process, Session!readers, Session!stream, Session!session
<1>14. ASSUME NEW p \in {"out", "err"}, Session!Write(j, p) PROVE Same(i)
  BY <1>14 DEF Same, CommandTypes, Session!Write, Session!process, Session!readers, Session!stream, Session!session, Session!Puts
<1>15. ASSUME NEW p \in {"out", "err"}, Session!Pass(j, p) PROVE Same(i)
  BY <1>15 DEF Same, CommandTypes, Session!Pass, Session!process, Session!readers, Session!stream, Session!session
<1>16. ASSUME NEW p \in {"out", "err"}, Session!PipeEnds(j, p) PROVE Same(i)
  BY <1>16 DEF Same, CommandTypes, Session!PipeEnds, Session!process, Session!readers, Session!stream, Session!session
<1> QED
  BY <1>1, <1>2, <1>3, <1>4, <1>5, <1>6, <1>7, <1>8, <1>9, <1>10, <1>11, <1>12, <1>13, <1>14, <1>15, <1>16, Words DEF Session!Command, Session!Step

-------------------------------------------------------------------------------
(* The invariant of one call, beside Spoken. *)

\* A call that has not spawned a shell has done nothing, and where a call may be.
AtRest(j) ==
    /\ shell[j] = "no" <=> stage[j] = "idle" \/ made[j] = "no_call"
    /\ made[j] = "no_call" => stage[j] = "done"
    /\ shell[j] = "no" =>
          /\ ~behind[j] /\ told[j].how = "none" /\ from[j] = "working_dir" /\ before[j] = {}
          /\ \A p \in {"out", "err"} : written[j][p] = << >> /\ taken[j][p] = 0 /\ ~reading[j][p]
          /\ lines[j] = << >> /\ given[j] = << >> /\ ~hears[j]
    /\ stage[j] \in {"waited", "expired"} => made[j] = "exec_streaming"
    /\ stage[j] = "waited" => shell[j] # "runs"
    /\ stage[j] = "done" /\ made[j] \in {"run", "exec_streaming"} => shell[j] # "runs"

\* A reader task ends at the end of its pipe, unless nobody hears it any more.
ReadersAt(j) ==
    /\ \A p \in {"out", "err"} : taken[j][p] <= Len(written[j][p])
    /\ ~Session!Streams(j) => /\ \A p \in {"out", "err"} : ~reading[j][p]
                              /\ lines[j] = << >> /\ given[j] = << >> /\ ~hears[j]
    /\ Session!Streams(j) /\ shell[j] # "no" /\ (hears[j] \/ made[j] = "exec_streaming") =>
          \A p \in {"out", "err"} : ~reading[j][p] =>
              shell[j] # "runs" /\ ~behind[j] /\ taken[j][p] = Len(written[j][p])
    /\ ~hears[j] => lines[j] = << >>

\* A result in time is of a command that is over, and holds what it wrote.
ToldWhole(j) ==
    told[j].how = "ok" =>
        /\ stage[j] = "done" /\ made[j] # "stream" /\ shell[j] \notin {"no", "runs"} /\ ~behind[j]
        /\ told[j].err = written[j].err
        /\ told[j].out = IF made[j] = "bash" THEN Session!UserOutput(written[j].out) ELSE written[j].out

\* What was sent to the caller of a stream, while it listened, is what the readers
\* passed on, and an ending of it was the last.
Heard(j)       == given[j] \o lines[j]
Count(s, p, n) == Cardinality({i \in 1..n : s[i].pipe = p})
Handed(j) ==
    LET all == Heard(j) IN
    /\ hears[j] => \A p \in {"out", "err"} : Count(all, p, Len(all)) = taken[j][p]
    /\ \A k \in DOMAIN all :
          /\ all[k].what # "line" => all[k].pipe = "none"
          /\ all[k].what = "line" =>
                /\ all[k].pipe \in {"out", "err"}
                /\ Count(all, all[k].pipe, k) \in 1..taken[j][all[k].pipe]
                /\ all[k].item = written[j][all[k].pipe][Count(all, all[k].pipe, k)]
          /\ all[k].what = "exit" =>
                /\ k = Len(all) /\ stage[j] = "done" /\ shell[j] # "runs" /\ ~behind[j]
                /\ \A p \in {"out", "err"} :
                      ~reading[j][p] /\ Count(all, p, k) = Len(written[j][p])

JobHolds(j) == AtRest(j) /\ ReadersAt(j) /\ Spoken(j) /\ ToldWhole(j) /\ Handed(j)

\* a call that no step touches keeps its invariant
LEMMA SameStays ==
    ASSUME NEW i \in Jobs, Same(i), JobHolds(i)
    PROVE  JobHolds(i)'
<1>1. AtRest(i)'
  BY DEF Same, JobHolds, AtRest
<1>2. ReadersAt(i)'
  BY DEF Same, JobHolds, ReadersAt, Session!Streams
<1>3. Spoken(i)'
  BY DEF Same, JobHolds, Spoken
<1>4. ToldWhole(i)'
  BY DEF Same, JobHolds, ToldWhole
<1>5. Handed(i)'
  <2>1. Heard(i)' = Heard(i)
    BY DEF Same, Heard
  <2> QED
    BY <2>1 DEF Same, JobHolds, Handed
<1> QED
  BY <1>1, <1>2, <1>3, <1>4, <1>5 DEF JobHolds

\* at the start it holds of every call
LEMMA InitCall ==
    ASSUME Session!Init, CommandTypes, NEW j \in Jobs
    PROVE  JobHolds(j)
<1>1. /\ shell[j] = "no" /\ ~behind[j] /\ told[j].how = "none" /\ from[j] = "working_dir" /\ before[j] = {}
      /\ \A p \in {"out", "err"} : written[j][p] = << >> /\ taken[j][p] = 0 /\ ~reading[j][p]
      /\ lines[j] = << >> /\ given[j] = << >> /\ ~hears[j]
      /\ stage[j] = IF made[j] = "no_call" THEN "done" ELSE "idle"
  BY Words DEF Session!Init
<1>2. AtRest(j)
  BY <1>1 DEF AtRest
<1>3. ReadersAt(j)
  BY <1>1 DEF ReadersAt
<1>4. Spoken(j)
  BY <1>1 DEF Spoken
<1>5. ToldWhole(j)
  BY <1>1 DEF ToldWhole
<1>6. Heard(j) = << >>
  BY <1>1 DEF Heard
<1>7. Handed(j)
  BY <1>1, <1>6 DEF Handed
<1> QED
  BY <1>2, <1>3, <1>4, <1>5, <1>7 DEF JobHolds

\* a start keeps it, the streams' first chunk included
LEMMA StartHolds ==
    ASSUME CommandTypes, NEW j \in Jobs, JobHolds(j), Session!Start(j)
    PROVE  JobHolds(j)'
<1>1. /\ stage[j] = "idle" /\ stage'[j] = "called" /\ shell'[j] = "runs" /\ made'[j] = made[j]
      /\ behind'[j] = behind[j] /\ written'[j] = written[j] /\ taken'[j] = taken[j]
      /\ given'[j] = given[j] /\ told'[j] = told[j]
      /\ \A p \in {"out", "err"} : reading'[j][p] = (made[j] \in {"stream", "exec_streaming"})
      /\ hears'[j] = (made[j] \in {"stream", "exec_streaming"})
  BY Words DEF Session!Start, CommandTypes, Session!Streams
<1>2. lines'[j] = IF made[j] = "stream" THEN << Session!Chunk("started", "none", "none") >> ELSE << >>
  <2>1. lines' = [lines EXCEPT ![j] = IF made[j] = "stream" THEN << Session!Chunk("started", "none", "none") >>
                                      ELSE << >>]
    BY DEF Session!Start, Session!None
  <2> QED
    BY <2>1 DEF CommandTypes
<1>3. /\ ~behind[j] /\ told[j].how = "none" /\ made[j] # "no_call"
      /\ \A p \in {"out", "err"} : written[j][p] = << >> /\ taken[j][p] = 0
      /\ given[j] = << >>
  BY <1>1 DEF JobHolds, AtRest
<1>4. AtRest(j)'
  BY <1>1, <1>3 DEF AtRest
<1>5. ReadersAt(j)'
  <2>1. CASE made[j] \in {"stream", "exec_streaming"}
    <3>1. hears'[j] /\ \A p \in {"out", "err"} : reading'[j][p]
      BY <1>1, <2>1
    <3> QED
      BY <1>1, <1>3, <2>1, <3>1 DEF ReadersAt, Session!Streams
  <2>2. CASE made[j] \notin {"stream", "exec_streaming"}
    <3>1. ~hears'[j] /\ \A p \in {"out", "err"} : ~reading'[j][p]
      BY <1>1, <2>2
    <3> QED
      BY <1>1, <1>2, <1>3, <2>2, <3>1 DEF ReadersAt, Session!Streams
  <2> QED
    BY <2>1, <2>2
<1>6. Spoken(j)'
  BY <1>1, <1>3 DEF Spoken
<1>7. ToldWhole(j)'
  BY <1>1, <1>3 DEF ToldWhole
<1>8. Handed(j)'
  <2>1. Heard(j)' = lines'[j]
    BY <1>1, <1>2, <1>3 DEF Heard
  <2>2. CASE made[j] # "stream"
    <3>1. Heard(j)' = << >>
      BY <1>2, <2>1, <2>2
    <3>2. \A p : Count(<< >>, p, Len(<< >>)) = 0
      BY FS_EmptySet DEF Count
    <3> QED
      BY <1>1, <1>3, <3>1, <3>2 DEF Handed
  <2>3. CASE made[j] = "stream"
    <3> DEFINE all == << Session!Chunk("started", "none", "none") >>
    <3>1. Heard(j)' = all
      BY <1>2, <2>1, <2>3
    <3>2. Len(all) = 1 /\ DOMAIN all = {1} /\ all[1].what = "started" /\ all[1].pipe = "none"
      BY ChunkTypes
    <3>3. ASSUME NEW p \in {"out", "err"} PROVE Count(all, p, Len(all)) = 0
      <4>1. {i \in 1..Len(all) : all[i].pipe = p} = {}
        BY <3>2
      <4> QED
        BY <4>1, FS_EmptySet DEF Count
    <3> HIDE DEF all
    <3> QED
      BY <1>1, <1>3, <3>1, <3>2, <3>3 DEF Handed
  <2> QED
    BY <2>2, <2>3
<1> QED
  BY <1>4, <1>5, <1>6, <1>7, <1>8 DEF JobHolds

\* A step of the shell that writes nothing.
LEMMA ShellHolds ==
    ASSUME CommandTypes, NEW j \in Jobs, JobHolds(j),
           Session!Cd(j) \/ Session!LeaveBehind(j) \/ Session!LeftEnds(j)
    PROVE  JobHolds(j)'
<1>1. /\ stage'[j] = stage[j] /\ shell'[j] = shell[j] /\ made'[j] = made[j]
      /\ written'[j] = written[j] /\ taken'[j] = taken[j] /\ reading'[j] = reading[j]
      /\ lines'[j] = lines[j] /\ hears'[j] = hears[j] /\ given'[j] = given[j] /\ told'[j] = told[j]
      /\ from'[j] = from[j] /\ before'[j] = before[j]
  BY DEF Session!Cd, Session!LeaveBehind, Session!LeftEnds, Session!readers, Session!stream, Session!session
<1>2. /\ where'[j] # where[j] => Session!Busy(j)
      /\ behind'[j] # behind[j] => Session!Busy(j) \/ ~behind'[j]
  BY DEF Session!Cd, Session!LeaveBehind, Session!LeftEnds, CommandTypes
<1>3. /\ where'[j] = where[j] \/ shell[j] = "runs" 
      /\ behind'[j] = behind[j] \/ shell[j] = "runs" \/ (behind[j] /\ ~behind'[j])
  BY <1>2 DEF Session!Busy, Session!Runs, CommandTypes, Session!Cd, Session!LeaveBehind, Session!LeftEnds
<1>4. AtRest(j)'
  BY <1>1, <1>3 DEF AtRest, JobHolds
<1>5. ReadersAt(j)'
  BY <1>1, <1>3 DEF ReadersAt, Session!Streams, JobHolds
<1>6. Spoken(j)'
  BY <1>1, <1>3 DEF Spoken, JobHolds
<1>7. ToldWhole(j)'
  BY <1>1, <1>3 DEF ToldWhole, JobHolds
<1>8. Handed(j)'
  <2>1. Heard(j)' = Heard(j)
    BY <1>1 DEF Heard
  <2> QED
    BY <1>1, <1>3, <2>1 DEF Handed, JobHolds
<1> QED
  BY <1>4, <1>5, <1>6, <1>7, <1>8 DEF JobHolds

\* A step that puts one more item into a pipe.
LEMMA MoreHolds ==
    ASSUME CommandTypes, NEW j \in Jobs, JobHolds(j), NEW p \in {"out", "err"}, NEW item \in Item,
           Session!Puts(j, p, item), shell[j] = "runs" \/ behind[j],
           made'[j] = made[j], stage'[j] = stage[j], behind'[j] = behind[j], where'[j] = where[j],
           taken'[j] = taken[j], reading'[j] = reading[j], lines'[j] = lines[j], hears'[j] = hears[j],
           given'[j] = given[j], told'[j] = told[j], from'[j] = from[j], before'[j] = before[j],
           shell'[j] = shell[j] \/ (shell[j] = "runs" /\ shell'[j] = "exited" /\ item.what = "pwd")
    PROVE  AtRest(j)' /\ ReadersAt(j)' /\ ToldWhole(j)' /\ Handed(j)'
<1>1. /\ written'[j][p] = Append(written[j][p], item)
      /\ \A q \in {"out", "err"} : q # p => written'[j][q] = written[j][q]
  BY PutsTypes
<1>2. shell[j] # "no"
  BY DEF JobHolds, AtRest
<1>3. \A q \in {"out", "err"} :
         /\ written[j][q] \in Seq(Item) /\ written'[j][q] \in Seq(Item)
         /\ Len(written'[j][q]) >= Len(written[j][q])
         /\ \A n \in 1..Len(written[j][q]) : written'[j][q][n] = written[j][q][n]
  <2>1. written[j][p] \in Seq(Item)
    BY DEF CommandTypes
  <2>2. \A q \in {"out", "err"} : written[j][q] \in Seq(Item)
    BY DEF CommandTypes
  <2>3. /\ written'[j][p] \in Seq(Item) /\ Len(written'[j][p]) = Len(written[j][p]) + 1
        /\ \A n \in 1..Len(written[j][p]) : written'[j][p][n] = written[j][p][n]
    BY <1>1, <2>1
  <2>4. \A q \in {"out", "err"} : Len(written[j][q]) \in Nat
    BY <2>2
  <2>5. TAKE q \in {"out", "err"}
  <2>6. CASE q = p
    BY <2>1, <2>3, <2>4, <2>6
  <2>7. CASE q # p
    BY <1>1, <2>2, <2>4, <2>7
  <2> QED
    BY <2>6, <2>7
<1>4. AtRest(j)'
  BY <1>2 DEF AtRest, JobHolds
<1>5. ReadersAt(j)'
  BY <1>2, <1>3 DEF ReadersAt, JobHolds, Session!Streams, CommandTypes
<1>6. ToldWhole(j)'
  BY DEF ToldWhole, JobHolds
<1>7. Handed(j)'
  <2>1. Heard(j)' = Heard(j)
    BY DEF Heard
  <2>2. \A q \in {"out", "err"} : taken[j][q] <= Len(written[j][q]) /\ taken[j][q] \in Nat
    BY DEF JobHolds, ReadersAt, CommandTypes
  <2> DEFINE all == Heard(j)
  <2>3. hears[j] => \A q \in {"out", "err"} : Count(all, q, Len(all)) = taken[j][q]
    BY DEF JobHolds, Handed
  <2>4. ASSUME NEW k \in DOMAIN all
        PROVE  /\ all[k].what # "line" => all[k].pipe = "none"
               /\ all[k].what = "line" =>
                    /\ all[k].pipe \in {"out", "err"}
                    /\ Count(all, all[k].pipe, k) \in 1..taken[j][all[k].pipe]
                    /\ all[k].item = written'[j][all[k].pipe][Count(all, all[k].pipe, k)]
               /\ all[k].what # "exit"
    <3>1. /\ all[k].what # "line" => all[k].pipe = "none"
          /\ all[k].what = "line" =>
                /\ all[k].pipe \in {"out", "err"}
                /\ Count(all, all[k].pipe, k) \in 1..taken[j][all[k].pipe]
                /\ all[k].item = written[j][all[k].pipe][Count(all, all[k].pipe, k)]
          /\ all[k].what # "exit"
      BY DEF JobHolds, Handed
    <3>2. all[k].what = "line" =>
             Count(all, all[k].pipe, k) \in 1..Len(written[j][all[k].pipe])
      BY <3>1, <2>2, <1>3
    <3> QED
      BY <3>1, <3>2, <1>3
  <2> HIDE DEF all
  <2>5. (Heard(j))' = all
    BY <2>1 DEF all
  <2> QED
    BY <2>3, <2>4, <2>5 DEF Handed
<1> QED
  BY <1>4, <1>5, <1>6, <1>7

\* what is put into the output keeps to what a command says
LEMMA MoreSpoken ==
    ASSUME CommandTypes, NEW j \in Jobs, Spoken(j), NEW item \in Item,
           written'[j].out = Append(written[j].out, item),
           made'[j] = made[j], where'[j] = where[j],
           shell'[j] = shell[j] \/ (shell[j] = "runs" /\ shell'[j] = "exited"),
           item.what = "sentinel" => item = Session!Sentinel,
           item.what = "pwd" => shell'[j] = "exited" /\ item.dir = where[j],
           item = Session!Sentinel => made[j] = "bash" /\ shell'[j] = "runs",
           item = Session!Sentinel \/ Session!LineOfShell(item) => ~Session!Said(j)
    PROVE  Spoken(j)'
<1> DEFINE out == written[j].out
           new == written'[j].out
<1>1. /\ out \in Seq(Item) /\ new \in Seq(Item) /\ Len(new) = Len(out) + 1 /\ Len(out) \in Nat
      /\ DOMAIN out = 1..Len(out) /\ DOMAIN new = 1..(Len(out) + 1)
      /\ \A k \in 1..Len(out) : new[k] = out[k]
      /\ new[Len(out) + 1] = item
  <2>1. out \in Seq(Item)
    BY DEF CommandTypes
  <2> HIDE DEF out
  <2>2. new = Append(out, item)
    BY DEF out
  <2> HIDE DEF new
  <2> QED
    BY <2>1, <2>2
<1>2. /\ \A k, l \in 1..Len(out) : out[k] = Session!Sentinel /\ k < l =>
            out[l] # Session!Sentinel /\ ~Session!LineOfShell(out[l])
      /\ \A k \in 1..Len(out) :
          /\ out[k].what = "sentinel" => out[k] = Session!Sentinel
          /\ out[k].what = "pwd" => shell[j] \notin {"no", "runs"} /\ out[k].dir = where[j]
          /\ out[k] = Session!Sentinel => made[j] = "bash"
      /\ made[j] = "bash" => shell[j] # "killed"
  BY <1>1 DEF Spoken
<1>3. (\E k \in 1..Len(out) : out[k] = Session!Sentinel) => Session!Said(j)
  BY <1>1 DEF Session!Said
<1> HIDE DEF out, new
<1>4. \A k, l \in 1..(Len(out) + 1) : new[k] = Session!Sentinel /\ k < l =>
            new[l] # Session!Sentinel /\ ~Session!LineOfShell(new[l])
  <2> TAKE k, l \in 1..(Len(out) + 1)
  <2> SUFFICES ASSUME new[k] = Session!Sentinel, k < l
               PROVE  new[l] # Session!Sentinel /\ ~Session!LineOfShell(new[l])
    OBVIOUS
  <2>1. k \in 1..Len(out)
    BY <1>1
  <2>2. Session!Said(j)
    BY <2>1, <1>1, <1>3
  <2>3. CASE l = Len(out) + 1
    BY <2>2, <2>3, <1>1
  <2>4. CASE l # Len(out) + 1
    <3>1. l \in 1..Len(out)
      BY <2>4, <1>1
    <3>2. out[k] = Session!Sentinel /\ new[l] = out[l]
      BY <2>1, <3>1, <1>1
    <3> QED
      BY <2>1, <3>1, <3>2, <1>2
  <2> QED
    BY <2>3, <2>4
<1>5. \A k \in 1..(Len(out) + 1) :
          /\ new[k].what = "sentinel" => new[k] = Session!Sentinel
          /\ new[k].what = "pwd" => shell'[j] \notin {"no", "runs"} /\ new[k].dir = where[j]
          /\ new[k] = Session!Sentinel => made[j] = "bash"
          /\ new[k] = Session!Sentinel => (shell'[j] # "runs" => k < Len(new))
  <2> TAKE k \in 1..(Len(out) + 1)
  <2>1. CASE k = Len(out) + 1
    BY <2>1, <1>1
  <2>2. CASE k \in 1..Len(out)
    BY <2>2, <1>1, <1>2
  <2> QED
    BY <2>1, <2>2, <1>1
<1> QED
  BY <1>1, <1>2, <1>4, <1>5 DEF Spoken, new

\* a line is written
LEMMA WriteHolds ==
    ASSUME CommandTypes, NEW j \in Jobs, JobHolds(j), NEW p \in {"out", "err"}, Session!Write(j, p)
    PROVE  JobHolds(j)'
<1>1. PICK by \in {"shell", "left"}, d \in Dirs \cup {"working_dir", "none"} :
         Session!Puts(j, p, Session!Line(by, d)) /\ (by = "shell" => Session!Busy(j)) /\ (by = "left" => behind[j])
  BY Words DEF Session!Write, Session!Named
<1> DEFINE item == Session!Line(by, d)
<1>2. /\ item \in Item /\ item.what = "line" /\ item.by = by
      /\ item # Session!Sentinel
  BY ItemTypes
<1>3. shell[j] = "runs" \/ behind[j]
  BY <1>1 DEF Session!Busy, Session!Runs
<1>4. /\ made'[j] = made[j] /\ stage'[j] = stage[j] /\ behind'[j] = behind[j] /\ where'[j] = where[j]
      /\ taken'[j] = taken[j] /\ reading'[j] = reading[j] /\ lines'[j] = lines[j] /\ hears'[j] = hears[j]
      /\ given'[j] = given[j] /\ told'[j] = told[j] /\ from'[j] = from[j] /\ before'[j] = before[j]
      /\ shell'[j] = shell[j]
  BY DEF Session!Write, Session!readers, Session!stream, Session!session
<1>5. Session!LineOfShell(item) => ~Session!Said(j)
  BY <1>1, <1>2 DEF Session!LineOfShell, Session!Busy
<1>6. Session!Puts(j, p, item)
  BY <1>1
<1> HIDE DEF item
<1>7. AtRest(j)' /\ ReadersAt(j)' /\ ToldWhole(j)' /\ Handed(j)'
  BY <1>2, <1>3, <1>4, <1>6, MoreHolds
<1>8. Spoken(j)'
  <2>1. CASE p = "out"
    <3>1. written'[j].out = Append(written[j].out, item)
      BY <1>2, <1>6, <2>1, PutsTypes
    <3> QED
      BY <1>2, <1>4, <1>5, <3>1, MoreSpoken DEF JobHolds
  <2>2. CASE p # "out"
    <3>1. written'[j].out = written[j].out
      BY <1>2, <1>6, <2>2, PutsTypes
    <3> QED
      BY <1>4, <3>1 DEF JobHolds, Spoken
  <2> QED
    BY <2>1, <2>2
<1> QED
  BY <1>7, <1>8 DEF JobHolds

\* the shell echoes the sentinel
LEMMA TellHolds ==
    ASSUME CommandTypes, NEW j \in Jobs, JobHolds(j), Session!Tell(j)
    PROVE  JobHolds(j)'
<1>1. /\ made'[j] = made[j] /\ stage'[j] = stage[j] /\ behind'[j] = behind[j] /\ where'[j] = where[j]
      /\ taken'[j] = taken[j] /\ reading'[j] = reading[j] /\ lines'[j] = lines[j] /\ hears'[j] = hears[j]
      /\ given'[j] = given[j] /\ told'[j] = told[j] /\ from'[j] = from[j] /\ before'[j] = before[j]
      /\ shell'[j] = shell[j] /\ shell[j] = "runs" /\ made[j] = "bash" /\ ~Session!Said(j)
  BY DEF Session!Tell, Session!readers, Session!stream, Session!session, Session!Busy, Session!Runs
<1>2. Session!Puts(j, "out", Session!Sentinel) /\ Session!Sentinel \in Item
      /\ Session!Sentinel.what = "sentinel" /\ Session!Sentinel.dir = "none"
  BY ItemTypes DEF Session!Tell
<1>3. AtRest(j)' /\ ReadersAt(j)' /\ ToldWhole(j)' /\ Handed(j)'
  BY <1>1, <1>2, MoreHolds
<1>4. written'[j].out = Append(written[j].out, Session!Sentinel)
  BY <1>2, PutsTypes
<1>5. Spoken(j)'
  BY <1>1, <1>2, <1>4, MoreSpoken DEF JobHolds
<1> QED
  BY <1>3, <1>5 DEF JobHolds

\* the shell exits, behind the directory when it said the sentinel
LEMMA ExitHolds ==
    ASSUME CommandTypes, NEW j \in Jobs, JobHolds(j), Session!Exit(j)
    PROVE  JobHolds(j)'
<1>1. /\ made'[j] = made[j] /\ stage'[j] = stage[j] /\ behind'[j] = behind[j] /\ where'[j] = where[j]
      /\ taken'[j] = taken[j] /\ reading'[j] = reading[j] /\ lines'[j] = lines[j] /\ hears'[j] = hears[j]
      /\ given'[j] = given[j] /\ told'[j] = told[j] /\ from'[j] = from[j] /\ before'[j] = before[j]
      /\ shell'[j] = "exited" /\ shell[j] = "runs"
  BY DEF Session!Exit, Session!readers, Session!stream, Session!session, Session!Runs, CommandTypes
<1>2. CASE Session!Said(j)
  <2> DEFINE item == Session!Pwd(where[j])
  <2>1. item \in Item /\ item.what = "pwd" /\ item.dir = where[j] /\ item # Session!Sentinel
        /\ ~Session!LineOfShell(item)
    BY ItemTypes DEF CommandTypes, Session!LineOfShell
  <2>2. Session!Puts(j, "out", item)
    BY <1>2 DEF Session!Exit
  <2> HIDE DEF item
  <2>3. AtRest(j)' /\ ReadersAt(j)' /\ ToldWhole(j)' /\ Handed(j)'
    BY <1>1, <2>1, <2>2, MoreHolds
  <2>4. written'[j].out = Append(written[j].out, item)
    BY <2>1, <2>2, PutsTypes
  <2>5. Spoken(j)'
    BY <1>1, <2>1, <2>4, MoreSpoken DEF JobHolds
  <2> QED
    BY <2>3, <2>5 DEF JobHolds
<1>3. CASE ~Session!Said(j)
  <2>1. written'[j] = written[j]
    BY <1>3 DEF Session!Exit
  <2>2. AtRest(j)'
    BY <1>1, <2>1 DEF JobHolds, AtRest
  <2>3. ReadersAt(j)'
    BY <1>1, <2>1 DEF JobHolds, ReadersAt, Session!Streams
  <2>4. Spoken(j)'
    BY <1>1, <1>3, <2>1 DEF JobHolds, Spoken, Session!Said
  <2>5. ToldWhole(j)'
    BY <1>1, <2>1 DEF JobHolds, ToldWhole
  <2>6. Heard(j)' = Heard(j)
    BY <1>1 DEF Heard
  <2>7. Handed(j)'
    BY <1>1, <2>1, <2>6 DEF JobHolds, Handed
  <2> QED
    BY <2>2, <2>3, <2>4, <2>5, <2>7 DEF JobHolds
<1> QED
  BY <1>2, <1>3

\* The steps that end a call, or the wait for its shell, and send nothing.
LEMMA EndHolds ==
    ASSUME CommandTypes, NEW j \in Jobs, JobHolds(j),
           Session!Return(j) \/ Session!TimeOut(j) \/ Session!Wait(j) \/ Session!Join(j)
    PROVE  JobHolds(j)'
<1>1. /\ made'[j] = made[j] /\ behind'[j] = behind[j] /\ where'[j] = where[j] /\ written'[j] = written[j]
      /\ taken'[j] = taken[j] /\ reading'[j] = reading[j] /\ lines'[j] = lines[j] /\ hears'[j] = hears[j]
      /\ given'[j] = given[j] /\ from'[j] = from[j] /\ before'[j] = before[j]
  <2>1. CASE Session!Return(j)
    BY <2>1 DEF Session!Return, Session!process, Session!readers, Session!stream
  <2>2. CASE Session!TimeOut(j)
    BY <2>2 DEF Session!TimeOut, Session!readers, Session!stream, Session!session
  <2>3. CASE Session!Wait(j)
    BY <2>3 DEF Session!Wait, Session!process, Session!readers, Session!stream, Session!session
  <2>4. CASE Session!Join(j)
    BY <2>4 DEF Session!Join, Session!readers, Session!stream, Session!session
  <2> QED
    BY <2>1, <2>2, <2>3, <2>4
<1>2. /\ stage[j] # "idle" /\ stage[j] # "done" /\ stage'[j] # "idle"
      /\ stage'[j] \in {"waited", "expired"} => made[j] = "exec_streaming"
      /\ stage'[j] = "waited" => shell'[j] # "runs"
      /\ stage'[j] = "done" /\ made[j] \in {"run", "exec_streaming"} => shell'[j] # "runs"
      /\ shell'[j] = shell[j] \/ (shell[j] = "runs" /\ shell'[j] = "killed" /\ made[j] # "bash")
  <2>1. CASE Session!Return(j)
    <3>1. stage[j] = "called" /\ stage'[j] = "done" /\ shell'[j] = shell[j] /\ shell[j] # "runs"
      BY <2>1 DEF Session!Return, Session!Complete, Session!HasEnded, Session!process, CommandTypes
    <3> QED
      BY <3>1
  <2>2. CASE Session!TimeOut(j)
    <3>1. /\ stage[j] = "called" /\ stage'[j] = "done" /\ ~Session!Streams(j)
          /\ shell'[j] = IF made[j] = "run" /\ shell[j] = "runs" THEN "killed" ELSE shell[j]
      BY <2>2 DEF Session!TimeOut, CommandTypes, Session!Runs
    <3> QED
      BY <3>1 DEF Session!Streams
  <2>3. CASE Session!Wait(j)
    <3>1. /\ stage[j] = "called" /\ made[j] = "exec_streaming" /\ shell'[j] = shell[j]
          /\ stage'[j] = "expired" \/ (stage'[j] = "waited" /\ shell[j] # "runs")
      BY <2>3 DEF Session!Wait, Session!HasEnded, Session!process, CommandTypes
    <3> QED
      BY <3>1
  <2>4. CASE Session!Join(j)
    <3>1. /\ stage[j] \in {"waited", "expired"} /\ stage'[j] = "done"
          /\ shell'[j] = IF shell[j] = "runs" THEN "killed" ELSE shell[j]
      BY <2>4 DEF Session!Join, CommandTypes, Session!Runs
    <3> QED
      BY <3>1 DEF JobHolds, AtRest
  <2> QED
    BY <2>1, <2>2, <2>3, <2>4
<1>3. shell[j] # "no" /\ shell'[j] # "no" /\ made[j] # "no_call"
  BY <1>2 DEF JobHolds, AtRest
<1>4. AtRest(j)'
  BY <1>1, <1>2, <1>3 DEF JobHolds, AtRest
<1>5. ReadersAt(j)'
  BY <1>1, <1>2, <1>3 DEF JobHolds, ReadersAt, Session!Streams
<1>6. Spoken(j)'
  BY <1>1, <1>2, <1>3 DEF JobHolds, Spoken
<1>7. Handed(j)'
  <2>1. Heard(j)' = Heard(j)
    BY <1>1 DEF Heard
  <2> QED
    BY <1>1, <1>2, <2>1 DEF JobHolds, Handed
<1>8. ToldWhole(j)'
  <2>1. CASE Session!Return(j)
    <3>1. /\ stage'[j] = "done" /\ made[j] # "stream" /\ shell'[j] = shell[j] /\ shell[j] # "runs" /\ ~behind[j]
          /\ told'[j].err = written[j].err
          /\ told'[j].out = IF made[j] = "bash" THEN Session!UserOutput(written[j].out) ELSE written[j].out
      BY <2>1 DEF Session!Return, Session!Complete, Session!HasEnded, Session!process, CommandTypes, Session!Streams
    <3> QED
      BY <1>1, <1>3, <3>1 DEF ToldWhole
  <2>2. CASE Session!TimeOut(j)
    <3>1. told'[j].how = "timeout"
      BY <2>2 DEF Session!TimeOut, CommandTypes
    <3> QED
      BY <3>1 DEF ToldWhole
  <2>3. CASE Session!Wait(j)
    <3>1. told'[j] = told[j]
      BY <2>3 DEF Session!Wait
    <3> QED
      BY <1>2, <3>1 DEF JobHolds, ToldWhole
  <2>4. CASE Session!Join(j)
    <3>1. CASE stage[j] = "waited"
      <4>1. shell[j] # "runs" /\ made[j] = "exec_streaming" /\ shell[j] # "no"
        BY <1>3, <3>1 DEF JobHolds, AtRest
      <4>2. \A p \in {"out", "err"} : ~reading[j][p]
        BY <2>4, Words DEF Session!Join, Session!ReadersEnded
      <4>3. ~behind[j] /\ taken[j].out = Len(written[j].out) /\ taken[j].err = Len(written[j].err)
        BY <4>1, <4>2 DEF JobHolds, ReadersAt, Session!Streams
      <4>4. written[j].out \in Seq(Item) /\ written[j].err \in Seq(Item)
        BY DEF CommandTypes
      <4>5. /\ SubSeq(written[j].out, 1, Len(written[j].out)) = written[j].out
            /\ SubSeq(written[j].err, 1, Len(written[j].err)) = written[j].err
        BY <4>4
      <4>6. told'[j].out = written[j].out /\ told'[j].err = written[j].err /\ stage'[j] = "done"
        BY <2>4, <4>3, <4>5 DEF Session!Join, CommandTypes
      <4> QED
        BY <1>1, <1>2, <1>3, <4>1, <4>3, <4>6 DEF ToldWhole
    <3>2. CASE stage[j] # "waited"
      <4>1. told'[j].how = "timeout"
        BY <2>4, <3>2 DEF Session!Join, CommandTypes
      <4> QED
        BY <4>1 DEF ToldWhole
    <3> QED
      BY <3>1, <3>2
  <2> QED
    BY <2>1, <2>2, <2>3, <2>4
<1> QED
  BY <1>4, <1>5, <1>6, <1>7, <1>8 DEF JobHolds

-------------------------------------------------------------------------------
(* Counting what a stream has handed out of a pipe. *)

\* a count grows by the chunks of the pipe
LEMMA Counted ==
    ASSUME NEW s, NEW n \in Nat, NEW p
    PROVE  /\ Count(s, p, n) \in Nat /\ Count(s, p, n) <= n
           /\ \A t : (\A i \in 1..n : t[i] = s[i]) => Count(t, p, n) = Count(s, p, n)
           /\ Count(s, p, n + 1) = Count(s, p, n) + (IF s[n + 1].pipe = p THEN 1 ELSE 0)
<1> DEFINE S(t, m) == {i \in 1..m : t[i].pipe = p}
<1>1. /\ IsFiniteSet(S(s, n)) /\ Cardinality(S(s, n)) \in Nat /\ Cardinality(S(s, n)) <= n
  <2>1. IsFiniteSet(1..n) /\ Cardinality(1..n) = n
    BY FS_Interval
  <2>2. S(s, n) \in SUBSET (1..n)
    OBVIOUS
  <2> QED
    BY <2>1, <2>2, FS_Subset, FS_CardinalityType
<1>2. ASSUME NEW t, \A i \in 1..n : t[i] = s[i] PROVE S(t, n) = S(s, n)
  BY <1>2
<1>3. n + 1 \notin S(s, n)
  OBVIOUS
<1>4. S(s, n + 1) = IF s[n + 1].pipe = p THEN S(s, n) \cup {n + 1} ELSE S(s, n)
  OBVIOUS
<1>5. Cardinality(S(s, n) \cup {n + 1}) = Cardinality(S(s, n)) + 1
  BY <1>1, <1>3, FS_AddElement
<1>6. Count(s, p, n + 1) = Cardinality(S(s, n + 1)) /\ \A t : Count(t, p, n) = Cardinality(S(t, n))
  BY DEF Count
<1>7. ASSUME NEW t, \A i \in 1..n : t[i] = s[i] PROVE Count(t, p, n) = Count(s, p, n)
  BY <1>2, <1>6, <1>7
<1> HIDE DEF S
<1>8. Count(s, p, n + 1) = Count(s, p, n) + (IF s[n + 1].pipe = p THEN 1 ELSE 0)
  BY <1>1, <1>4, <1>5, <1>6
<1> QED
  BY <1>1, <1>6, <1>7, <1>8

\* The channel and what came out of it, one behind the other.
LEMMA Behind ==
    ASSUME CommandTypes, NEW j \in Jobs
    PROVE  /\ given[j] \in Seq(Chunks) /\ lines[j] \in Seq(Chunks) /\ Heard(j) \in Seq(Chunks)
           /\ Len(Heard(j)) = Len(given[j]) + Len(lines[j]) /\ Len(given[j]) \in Nat /\ Len(lines[j]) \in Nat
           /\ \A k \in 1..Len(given[j]) : Heard(j)[k] = given[j][k]
           /\ \A c \in Chunks : given[j] \o Append(lines[j], c) = Append(Heard(j), c)
           /\ lines[j] # << >> => Append(given[j], Head(lines[j])) \o Tail(lines[j]) = Heard(j)
           /\ given[j] \o << >> = given[j]
<1> DEFINE g == given[j]
           l == lines[j]
<1>1. g \in Seq(Chunks) /\ l \in Seq(Chunks)
  BY DEF CommandTypes
<1>2. Heard(j) = g \o l
  BY DEF Heard
<1> HIDE DEF g, l
<1>3. /\ g \o l \in Seq(Chunks) /\ Len(g \o l) = Len(g) + Len(l) /\ Len(g) \in Nat /\ Len(l) \in Nat
      /\ \A k \in 1..Len(g) : (g \o l)[k] = g[k]
      /\ g \o << >> = g
  BY <1>1
<1>4. ASSUME NEW c \in Chunks PROVE g \o Append(l, c) = Append(g \o l, c)
  BY <1>1
<1>5. ASSUME l # << >> PROVE Append(g, Head(l)) \o Tail(l) = g \o l
  BY <1>1, <1>5
<1> QED
  BY <1>1, <1>2, <1>3, <1>4, <1>5 DEF g, l

\* and is of the first chunks only
LEMMA CountedSame ==
    ASSUME NEW s, NEW t, NEW n \in Nat, NEW p, \A i \in 1..n : t[i] = s[i]
    PROVE  Count(t, p, n) = Count(s, p, n)
BY Counted

\* a reader ends at the end of its pipe
LEMMA PipeEndsHolds ==
    ASSUME CommandTypes, NEW j \in Jobs, JobHolds(j), NEW p \in {"out", "err"}, Session!PipeEnds(j, p)
    PROVE  JobHolds(j)'
<1>1. /\ made'[j] = made[j] /\ stage'[j] = stage[j] /\ behind'[j] = behind[j] /\ where'[j] = where[j]
      /\ taken'[j] = taken[j] /\ lines'[j] = lines[j] /\ hears'[j] = hears[j] /\ shell'[j] = shell[j]
      /\ given'[j] = given[j] /\ told'[j] = told[j] /\ from'[j] = from[j] /\ before'[j] = before[j]
      /\ written'[j] = written[j]
  BY DEF Session!PipeEnds, Session!process, Session!stream, Session!session
<1>2. reading'[j] = [reading[j] EXCEPT ![p] = FALSE] /\ reading[j] \in [{"out", "err"} -> BOOLEAN]
  BY DEF Session!PipeEnds, CommandTypes
<1>3. \A q \in {"out", "err"} : q # p => reading'[j][q] = reading[j][q]
  BY <1>2
<1>4. reading'[j][p] = FALSE /\ reading[j][p]
  BY <1>2 DEF Session!PipeEnds
<1>5. taken[j][p] = Len(written[j][p]) /\ shell[j] # "runs" /\ ~behind[j]
  <2>1. ~(taken[j][p] < Len(written[j][p])) /\ shell[j] # "runs" /\ ~behind[j]
    BY <1>4 DEF Session!PipeEnds, Session!Pending, Session!Open, Session!Runs
  <2>2. taken[j][p] \in Nat /\ Len(written[j][p]) \in Nat /\ taken[j][p] <= Len(written[j][p])
    BY DEF CommandTypes, JobHolds, ReadersAt
  <2> QED
    BY <2>1, <2>2
<1>6. AtRest(j)'
  BY <1>1, <1>3, <1>4 DEF JobHolds, AtRest
<1>7. ReadersAt(j)'
  BY <1>1, <1>3, <1>4, <1>5 DEF JobHolds, ReadersAt, Session!Streams
<1>8. Spoken(j)' /\ ToldWhole(j)'
  BY <1>1 DEF JobHolds, Spoken, ToldWhole
<1>9. Handed(j)'
  <2>1. Heard(j)' = Heard(j)
    BY <1>1 DEF Heard
  <2> QED
    BY <1>1, <1>3, <1>4, <2>1 DEF JobHolds, Handed
<1> QED
  BY <1>6, <1>7, <1>8, <1>9 DEF JobHolds

\* One more chunk is sent: none before it is an ending, and it is the next line of its
\* pipe, or the ending behind all that was written.
LEMMA MoreHanded ==
    ASSUME CommandTypes, NEW j \in Jobs, Handed(j), hears[j], NEW c \in Chunks,
           lines'[j] = Append(lines[j], c), given'[j] = given[j], written'[j] = written[j],
           hears'[j] = hears[j], reading'[j] = reading[j],
           \A k \in DOMAIN Heard(j) : Heard(j)[k].what # "exit",
           c.what # "started", c.what = "exit" => c.pipe = "none", c.what = "line" => c.pipe \in {"out", "err"},
           \A q \in {"out", "err"} : taken'[j][q] = taken[j][q] + (IF c.pipe = q THEN 1 ELSE 0),
           c.what = "line" => c.item = written[j][c.pipe][taken'[j][c.pipe]],
           c.what = "exit" =>
               /\ stage'[j] = "done" /\ shell'[j] # "runs" /\ ~behind'[j]
               /\ \A q \in {"out", "err"} : ~reading[j][q] /\ taken[j][q] = Len(written[j][q])
    PROVE  Handed(j)'
<1> DEFINE all == Heard(j)
           new == Append(all, c)
           n == Len(all)
<1>1. Heard(j)' = new
  <2>1. Heard(j)' = given[j] \o Append(lines[j], c)
    BY DEF Heard
  <2> QED
    BY <2>1, Behind
<1>2. all \in Seq(Chunks)
  BY Behind
<1>3. /\ hears[j] => \A q \in {"out", "err"} : Count(all, q, n) = taken[j][q]
      /\ \A k \in DOMAIN all :
          /\ all[k].what # "line" => all[k].pipe = "none"
          /\ all[k].what = "line" =>
                /\ all[k].pipe \in {"out", "err"}
                /\ Count(all, all[k].pipe, k) \in 1..taken[j][all[k].pipe]
                /\ all[k].item = written[j][all[k].pipe][Count(all, all[k].pipe, k)]
  BY DEF Handed
<1>4. \A k \in DOMAIN all : all[k].what # "exit"
  OBVIOUS
<1>10. \A q \in {"out", "err"} : taken[j][q] \in Nat
  BY DEF CommandTypes
<1> HIDE DEF all
<1>5. /\ n \in Nat /\ DOMAIN all = 1..n /\ Len(new) = n + 1 /\ DOMAIN new = 1..(n + 1)
      /\ new[n + 1] = c /\ \A k \in 1..n : new[k] = all[k]
  BY <1>2
<1> HIDE DEF new, n
<1>6. \A q, k : k \in 0..n => Count(new, q, k) = Count(all, q, k)
  <2> TAKE q, k
  <2> HAVE k \in 0..n
  <2>1. k \in Nat /\ \A i \in 1..k : new[i] = all[i]
    BY <1>5
  <2> QED
    BY <2>1, CountedSame
<1>7. \A q : Count(new, q, n + 1) = Count(all, q, n) + (IF c.pipe = q THEN 1 ELSE 0)
  <2> TAKE q
  <2>1. Count(new, q, n) = Count(all, q, n)
    BY <1>5, <1>6
  <2> QED
    BY <2>1, <1>5, Counted
<1>8. \A q \in {"out", "err"} : Count(new, q, n + 1) = taken'[j][q]
  BY <1>3, <1>7, n = Len(all)  DEF n
<1>9. ASSUME NEW k \in 1..(n + 1)
      PROVE  /\ new[k].what # "line" => new[k].pipe = "none"
             /\ new[k].what = "line" =>
                  /\ new[k].pipe \in {"out", "err"}
                  /\ Count(new, new[k].pipe, k) \in 1..taken'[j][new[k].pipe]
                  /\ new[k].item = written[j][new[k].pipe][Count(new, new[k].pipe, k)]
             /\ new[k].what = "exit" =>
                  /\ k = n + 1 /\ stage'[j] = "done" /\ shell'[j] # "runs" /\ ~behind'[j]
                  /\ \A q \in {"out", "err"} :
                        ~reading[j][q] /\ Count(new, q, k) = Len(written[j][q])
  <2>1. CASE k = n + 1
    <3>0. new[k] = c
      BY <2>1, <1>5
    <3>1. CASE c.what = "exit"
      <4>1. \A q \in {"out", "err"} : q # "none"
        OBVIOUS
      <4>2. \A q \in {"out", "err"} : taken'[j][q] = taken[j][q]
        BY <3>1, <4>1, <1>10
      <4> QED
        BY <2>1, <3>0, <3>1, <4>2, <1>8
    <3>2. CASE c.what = "line"
      <4>1. taken'[j][c.pipe] = taken[j][c.pipe] + 1 /\ c.pipe \in {"out", "err"}
        BY <3>2
      <4>2. taken'[j][c.pipe] \in 1..taken'[j][c.pipe]
        BY <4>1, <1>10
      <4> QED
        BY <2>1, <3>0, <3>2, <4>1, <4>2, <1>8
    <3>3. c.what \in {"started", "line", "exit"}
      BY DEF Chunks
    <3> QED
      BY <3>1, <3>2, <3>3
  <2>2. CASE k \in 1..n
    <3>0. k \in 0..n
      BY <2>2, <1>5
    <3>1. new[k] = all[k] /\ \A q : Count(new, q, k) = Count(all, q, k)
      BY <2>2, <3>0, <1>5, <1>6
    <3>2. \A q \in {"out", "err"} : taken[j][q] <= taken'[j][q] /\ taken'[j][q] \in Nat
      BY <1>10
    <3>3. all[k].what = "line" => Count(all, all[k].pipe, k) \in 1..taken'[j][all[k].pipe]
      <4> SUFFICES ASSUME all[k].what = "line"
                   PROVE  Count(all, all[k].pipe, k) \in 1..taken'[j][all[k].pipe]
        OBVIOUS
      <4>1. all[k].pipe \in {"out", "err"} /\ Count(all, all[k].pipe, k) \in 1..taken[j][all[k].pipe]
        BY <1>3, <1>5, <2>2
      <4>2. PICK q \in {"out", "err"} : q = all[k].pipe
        BY <4>1
      <4>3. taken[j][q] \in Nat /\ taken'[j][q] \in Nat /\ taken[j][q] <= taken'[j][q]
        BY <3>2, <1>10
      <4> QED
        BY <4>1, <4>2, <4>3
    <3> QED
      BY <1>3, <1>4, <1>5, <2>2, <3>1, <3>3
  <2> QED
    BY <2>1, <2>2, <1>5
<1> QED
  BY <1>1, <1>5, <1>8, <1>9 DEF Handed

\* a reader passes a line on, or stops because nobody hears it
LEMMA PassHolds ==
    ASSUME CommandTypes, NEW j \in Jobs, JobHolds(j), NEW p \in {"out", "err"}, Session!Pass(j, p)
    PROVE  JobHolds(j)'
<1>1. /\ made'[j] = made[j] /\ stage'[j] = stage[j] /\ behind'[j] = behind[j] /\ where'[j] = where[j]
      /\ hears'[j] = hears[j] /\ shell'[j] = shell[j]
      /\ given'[j] = given[j] /\ told'[j] = told[j] /\ from'[j] = from[j] /\ before'[j] = before[j]
      /\ written'[j] = written[j]
  BY DEF Session!Pass, Session!process, Session!session
<1>2. reading[j][p] /\ taken[j][p] < Len(written[j][p])
  BY DEF Session!Pass, Session!Pending
<1>3. shell[j] # "no" /\ Session!Streams(j)
  BY <1>2 DEF JobHolds, AtRest, ReadersAt
<1>4. \A k \in DOMAIN Heard(j) : Heard(j)[k].what # "exit"
  BY <1>2 DEF JobHolds, Handed
<1>5. Spoken(j)' /\ ToldWhole(j)'
  BY <1>1 DEF JobHolds, Spoken, ToldWhole
<1>6. /\ \A q \in {"out", "err"} : taken[j][q] \in Nat /\ Len(written[j][q]) \in Nat
      /\ taken[j] \in [{"out", "err"} -> Nat] /\ reading[j] \in [{"out", "err"} -> BOOLEAN]
  BY DEF CommandTypes
<1>7. CASE hears[j] \/ made[j] = "exec_streaming"
  <2>1. taken'[j] = [taken[j] EXCEPT ![p] = taken[j][p] + 1] /\ reading'[j] = reading[j]
    <3>1. taken' = [taken EXCEPT ![j] = [taken[j] EXCEPT ![p] = taken[j][p] + 1]] /\ reading' = reading
      BY <1>7, Zenon DEF Session!Pass
    <3> QED
      BY <3>1 DEF CommandTypes
  <2>2. \A q \in {"out", "err"} : taken'[j][q] = taken[j][q] + (IF q = p THEN 1 ELSE 0)
    BY <2>1, <1>6
  <2>3. hears[j] \/ lines'[j] = lines[j]
    BY DEF Session!Pass
  <2>4. AtRest(j)'
    BY <1>1, <1>3 DEF JobHolds, AtRest
  <2>5. ReadersAt(j)'
    <3>1. \A q \in {"out", "err"} : taken'[j][q] <= Len(written[j][q])
      BY <2>2, <1>2, <1>6 DEF JobHolds, ReadersAt
    <3>2. \A q \in {"out", "err"} : ~reading[j][q] => taken'[j][q] = taken[j][q]
      BY <2>2, <1>2, <1>6
    <3> QED
      BY <1>1, <1>3, <2>1, <2>3, <3>1, <3>2 DEF JobHolds, ReadersAt, Session!Streams
  <2>6. Handed(j)'
    <3>1. CASE hears[j]
      <4> DEFINE c == Session!Chunk("line", p, written[j][p][taken[j][p] + 1])
      <4>1. written[j][p][taken[j][p] + 1] \in Item
        BY PassTypes
      <4>2. c \in Chunks /\ c.what = "line" /\ c.pipe = p /\ c.item = written[j][p][taken[j][p] + 1]
        BY <4>1, ChunkTypes
      <4>3. lines'[j] = Append(lines[j], c)
        BY <3>1 DEF Session!Pass, CommandTypes
      <4> HIDE DEF c
      <4>4. \A q \in {"out", "err"} : taken'[j][q] = taken[j][q] + (IF c.pipe = q THEN 1 ELSE 0)
        BY <4>2, <2>2
      <4>5. c.item = written[j][c.pipe][taken'[j][c.pipe]]
        BY <4>2, <2>2
      <4>6. Handed(j)
        BY DEF JobHolds
      <4> QED
        BY <1>1, <1>4, <2>1, <3>1, <4>2, <4>3, <4>4, <4>5, <4>6, MoreHanded
    <3>2. CASE ~hears[j]
      <4>1. Heard(j)' = Heard(j)
        BY <1>1, <2>3, <3>2 DEF Heard
      <4>2. \A q \in {"out", "err"} : taken[j][q] <= taken'[j][q] /\ taken'[j][q] \in Nat
        BY <2>2, <1>6
      <4>3. \A q \in {"out", "err"} : \A m \in 1..taken[j][q] : m \in 1..taken'[j][q]
        BY <4>2, <1>6
      <4> QED
        BY <1>1, <1>4, <3>2, <4>1, <4>3 DEF JobHolds, Handed
    <3> QED
      BY <3>1, <3>2
  <2> QED
    BY <1>5, <2>4, <2>5, <2>6 DEF JobHolds
<1>8. CASE ~(hears[j] \/ made[j] = "exec_streaming")
  <2>1. /\ reading'[j] = [reading[j] EXCEPT ![p] = FALSE] /\ taken'[j] = taken[j]
        /\ lines'[j] = lines[j]
    <3>1. /\ reading' = [reading EXCEPT ![j] = [reading[j] EXCEPT ![p] = FALSE]] /\ taken' = taken
          /\ lines' = lines
      BY <1>8, Zenon DEF Session!Pass
    <3> QED
      BY <3>1 DEF CommandTypes
  <2>2. AtRest(j)'
    BY <1>1, <1>3 DEF JobHolds, AtRest
  <2>3. ReadersAt(j)'
    BY <1>1, <1>3, <1>8, <2>1 DEF JobHolds, ReadersAt, Session!Streams
  <2>4. Heard(j)' = Heard(j)
    BY <1>1, <2>1 DEF Heard
  <2>5. Handed(j)'
    BY <1>1, <1>4, <1>8, <2>1, <2>4 DEF JobHolds, Handed
  <2> QED
    BY <1>5, <2>2, <2>3, <2>5 DEF JobHolds
<1> QED
  BY <1>7, <1>8

\* a stream ends
LEMMA SendExitHolds ==
    ASSUME CommandTypes, NEW j \in Jobs, JobHolds(j), Session!SendExit(j)
    PROVE  JobHolds(j)'
<1>1. /\ made'[j] = made[j] /\ behind'[j] = behind[j] /\ where'[j] = where[j] /\ shell'[j] = shell[j]
      /\ written'[j] = written[j] /\ taken'[j] = taken[j] /\ reading'[j] = reading[j] /\ hears'[j] = hears[j]
      /\ given'[j] = given[j] /\ told'[j] = told[j] /\ from'[j] = from[j] /\ before'[j] = before[j]
  BY DEF Session!SendExit, Session!process, Session!readers, Session!session
<1>2. /\ made[j] = "stream" /\ stage[j] = "called" /\ stage'[j] = "done" /\ shell[j] # "runs"
      /\ \A p \in {"out", "err"} : ~reading[j][p]
  BY Words DEF Session!SendExit, Session!ReadersEnded, Session!HasEnded, CommandTypes
<1>3. shell[j] # "no"
  BY <1>2 DEF JobHolds, AtRest
<1>4. hears[j] => ~behind[j] /\ \A p \in {"out", "err"} : taken[j][p] = Len(written[j][p])
  BY <1>2, <1>3 DEF JobHolds, ReadersAt, Session!Streams
<1>5. Spoken(j)' /\ ToldWhole(j)'
  BY <1>1, <1>2 DEF JobHolds, Spoken, ToldWhole
<1>6. AtRest(j)'
  BY <1>1, <1>2, <1>3 DEF JobHolds, AtRest
<1>7. ~hears[j] => lines'[j] = lines[j]
  BY DEF Session!SendExit, CommandTypes
<1>8. ReadersAt(j)'
  BY <1>1, <1>2, <1>7 DEF JobHolds, ReadersAt, Session!Streams
<1>9. Handed(j)'
  <2>1. CASE hears[j]
    <3> DEFINE c == Session!Chunk("exit", "none", "none")
    <3>1. c \in Chunks /\ c.what = "exit" /\ c.pipe = "none"
      BY ChunkTypes
    <3>2. lines'[j] = Append(lines[j], c)
      <4>1. lines' = [lines EXCEPT ![j] = IF hears[j] THEN Append(lines[j], c) ELSE lines[j]]
        BY DEF Session!SendExit, Session!None
      <4> QED
        BY <2>1, <4>1 DEF CommandTypes
    <3> HIDE DEF c
    <3>3. \A k \in DOMAIN Heard(j) : Heard(j)[k].what # "exit"
      BY <1>2 DEF JobHolds, Handed
    <3>4. \A q \in {"out", "err"} : taken'[j][q] = taken[j][q] + (IF c.pipe = q THEN 1 ELSE 0)
      <4>1. \A q \in {"out", "err"} : q # "none" /\ taken[j][q] \in Nat
        BY DEF CommandTypes
      <4> QED
        BY <4>1, <3>1, <1>1
    <3>5. Handed(j)
      BY DEF JobHolds
    <3> QED
      BY <1>1, <1>2, <1>4, <2>1, <3>1, <3>2, <3>3, <3>4, <3>5, MoreHanded
  <2>2. CASE ~hears[j]
    <3>1. Heard(j)' = Heard(j)
      BY <1>1, <1>7, <2>2 DEF Heard
    <3> QED
      BY <1>1, <1>2, <2>2, <3>1 DEF JobHolds, Handed
  <2> QED
    BY <2>1, <2>2
<1> QED
  BY <1>5, <1>6, <1>8, <1>9 DEF JobHolds

\* the caller takes a chunk
LEMMA TakeHolds ==
    ASSUME CommandTypes, NEW j \in Jobs, JobHolds(j), Session!Take(j)
    PROVE  JobHolds(j)'
<1>1. /\ made'[j] = made[j] /\ stage'[j] = stage[j] /\ behind'[j] = behind[j] /\ where'[j] = where[j]
      /\ written'[j] = written[j] /\ taken'[j] = taken[j] /\ reading'[j] = reading[j] /\ hears'[j] = hears[j]
      /\ shell'[j] = shell[j] /\ told'[j] = told[j] /\ from'[j] = from[j] /\ before'[j] = before[j]
  BY DEF Session!Take, Session!process, Session!readers, Session!session
<1>2. /\ hears[j] /\ lines[j] # << >>
      /\ given'[j] = Append(given[j], Head(lines[j])) /\ lines'[j] = Tail(lines[j])
  BY DEF Session!Take, CommandTypes
<1>3. Heard(j)' = Heard(j)
  <2>1. Heard(j)' = Append(given[j], Head(lines[j])) \o Tail(lines[j])
    BY <1>2 DEF Heard
  <2> QED
    BY <1>2, <2>1, Behind
<1>4. AtRest(j)'
  BY <1>1, <1>2 DEF JobHolds, AtRest
<1>5. ReadersAt(j)'
  BY <1>1, <1>2 DEF JobHolds, ReadersAt, Session!Streams
<1>6. Spoken(j)' /\ ToldWhole(j)'
  BY <1>1 DEF JobHolds, Spoken, ToldWhole
<1>7. Handed(j)'
  BY <1>1, <1>3 DEF JobHolds, Handed
<1> QED
  BY <1>4, <1>5, <1>6, <1>7 DEF JobHolds

\* the caller drops the stream
LEMMA DropHolds ==
    ASSUME CommandTypes, NEW j \in Jobs, JobHolds(j), Session!Drop(j)
    PROVE  JobHolds(j)'
<1>1. /\ made'[j] = made[j] /\ stage'[j] = stage[j] /\ behind'[j] = behind[j] /\ where'[j] = where[j]
      /\ written'[j] = written[j] /\ taken'[j] = taken[j] /\ reading'[j] = reading[j] /\ given'[j] = given[j]
      /\ shell'[j] = shell[j] /\ told'[j] = told[j] /\ from'[j] = from[j] /\ before'[j] = before[j]
  BY DEF Session!Drop, Session!process, Session!readers, Session!session
<1>2. hears[j] /\ ~hears'[j] /\ lines'[j] = << >>
  BY DEF Session!Drop, CommandTypes
<1>4. AtRest(j)'
  BY <1>1, <1>2 DEF JobHolds, AtRest
<1>5. ReadersAt(j)'
  BY <1>1, <1>2 DEF JobHolds, ReadersAt, Session!Streams
<1>6. Spoken(j)' /\ ToldWhole(j)'
  BY <1>1 DEF JobHolds, Spoken, ToldWhole
<1>7. Handed(j)'
  <2> DEFINE all == Heard(j)
             new == given[j]
  <2>1. Heard(j)' = new
    <3>1. Heard(j)' = given[j] \o << >>
      BY <1>1, <1>2 DEF Heard
    <3> QED
      BY <3>1, Behind
  <2>2. /\ \A k \in 1..Len(new) : new[k] = all[k]
        /\ DOMAIN new = 1..Len(new) /\ DOMAIN all = 1..Len(all) /\ Len(new) \in Nat /\ Len(all) \in Nat
        /\ Len(new) <= Len(all)
    <3>1. new \in Seq(Chunks) /\ all \in Seq(Chunks) /\ \A k \in 1..Len(new) : new[k] = all[k]
      BY Behind
    <3>2. Len(all) = Len(new) + Len(lines[j]) /\ Len(lines[j]) \in Nat
      BY Behind
    <3> HIDE DEF all, new
    <3> QED
      BY <3>1, <3>2
  <2>3. \A k \in DOMAIN all :
          /\ all[k].what # "line" => all[k].pipe = "none"
          /\ all[k].what = "line" =>
                /\ all[k].pipe \in {"out", "err"}
                /\ Count(all, all[k].pipe, k) \in 1..taken[j][all[k].pipe]
                /\ all[k].item = written[j][all[k].pipe][Count(all, all[k].pipe, k)]
          /\ all[k].what = "exit" =>
                /\ k = Len(all) /\ stage[j] = "done" /\ shell[j] # "runs" /\ ~behind[j]
                /\ \A p \in {"out", "err"} :
                      ~reading[j][p] /\ Count(all, p, k) = Len(written[j][p])
    BY DEF JobHolds, Handed
  <2> HIDE DEF all, new
  <2>4. \A q, k : k \in 1..Len(new) => Count(new, q, k) = Count(all, q, k)
    <3> TAKE q, k
    <3> HAVE k \in 1..Len(new)
    <3>1. k \in Nat /\ \A i \in 1..k : new[i] = all[i]
      BY <2>2
    <3> QED
      BY <3>1, CountedSame
  <2> QED
    BY <1>1, <1>2, <2>1, <2>2, <2>3, <2>4 DEF Handed
<1> QED
  BY <1>4, <1>5, <1>6, <1>7 DEF JobHolds

-------------------------------------------------------------------------------
\* so every step keeps the invariant of every call
LEMMA CallsHold ==
    ASSUME CommandTypes, \A j \in Jobs : JobHolds(j), [Session!Next]_commandVars
    PROVE  CommandTypes' /\ \A j \in Jobs : JobHolds(j)'
<1>1. ASSUME NEW j \in Jobs, Session!Start(j) \/ Session!Command(j) \/ Session!Step(j) \/ Session!Drop(j)
      PROVE  CommandTypes' /\ JobHolds(j)'
  <2>0. JobHolds(j)
    OBVIOUS
  <2>13. \A p \in {"out", "err"} : taken[j][p] <= Len(written[j][p])
    BY <2>0 DEF JobHolds, ReadersAt
  <2>1. CASE Session!Start(j)
    BY <2>0, <2>1, TypesKept1, StartHolds
  <2>2. CASE Session!Cd(j) \/ Session!LeaveBehind(j) \/ Session!LeftEnds(j)
    BY <2>0, <2>2, TypesKept1, ShellHolds
  <2>3. ASSUME NEW p \in Session!Pipes, Session!Write(j, p) PROVE CommandTypes' /\ JobHolds(j)'
    BY <2>0, <2>3, TypesKept2, WriteHolds, Words
  <2>4. CASE Session!Tell(j)
    BY <2>0, <2>4, TypesKept2, TellHolds
  <2>5. CASE Session!Exit(j)
    BY <2>0, <2>5, TypesKept2, ExitHolds
  <2>6. CASE Session!Return(j)
    <3>1. Spoken(j)
      BY <2>0 DEF JobHolds
    <3> QED
      BY <2>0, <2>6, <3>1, TypesKept3, EndHolds
  <2>7. CASE Session!TimeOut(j) \/ Session!Wait(j) \/ Session!Join(j)
    BY <2>0, <2>13, <2>7, TypesKept4, EndHolds
  <2>8. CASE Session!SendExit(j)
    BY <2>0, <2>13, <2>8, TypesKept4, SendExitHolds
  <2>9. CASE Session!Take(j)
    BY <2>0, <2>13, <2>9, TypesKept4, TakeHolds
  <2>10. CASE Session!Drop(j)
    BY <2>0, <2>13, <2>10, TypesKept4, DropHolds
  <2>11. ASSUME NEW p \in Session!Pipes, Session!Pass(j, p) PROVE CommandTypes' /\ JobHolds(j)'
    BY <2>0, <2>11, PassTypes, PassHolds, Words
  <2>12. ASSUME NEW p \in Session!Pipes, Session!PipeEnds(j, p) PROVE CommandTypes' /\ JobHolds(j)'
    BY <2>0, <2>12, PipeEndsTypes, PipeEndsHolds, Words
  <2> QED
    BY <1>1, <2>1, <2>2, <2>3, <2>4, <2>5, <2>6, <2>7, <2>8, <2>9, <2>10, <2>11, <2>12
    DEF Session!Command, Session!Step
<1>2. ASSUME NEW j \in Jobs, Session!Start(j) \/ Session!Command(j) \/ Session!Step(j) \/ Session!Drop(j)
      PROVE  CommandTypes' /\ \A i \in Jobs : JobHolds(i)'
  <2>1. CommandTypes' /\ JobHolds(j)'
    BY <1>1, <1>2
  <2>2. ASSUME NEW i \in Jobs, i # j PROVE JobHolds(i)'
    <3>1. Same(i)
      BY <1>2, <2>2, OthersStay
    <3> QED
      BY <3>1, SameStays
  <2> QED
    BY <2>1, <2>2
<1>3. CASE UNCHANGED commandVars \/ \E d \in Dirs : Session!Vanish(d)
  <2>1. \A i \in Jobs : Same(i)
    BY <1>3 DEF commandVars, Same, Session!Vanish, Session!process, Session!readers, Session!stream, Session!session
  <2>2. CommandTypes'
    BY <1>3 DEF commandVars, CommandTypes, Session!Vanish, Session!process, Session!readers, Session!stream,
                Session!session
  <2> QED
    BY <2>1, <2>2, SameStays
<1>4. CASE Session!Over
  <2>1. UNCHANGED commandVars
    BY <1>4 DEF commandVars, Session!Over, Session!vars, Session!process, Session!readers, Session!stream,
                Session!session
  <2> QED
    BY <2>1, <1>3
<1> QED
  BY <1>2, <1>3, <1>4 DEF Session!Next

-------------------------------------------------------------------------------
(* The directory of the session: as long as one call has returned, it is what that   *)
(* call said, and a call that starts finds the calls that have returned behind it.   *)
Returned == {i \in Jobs : stage[i] = "done"}
Followed ==
    /\ \A j \in Jobs :
          /\ before[j] \subseteq Returned /\ j \notin before[j]
          /\ made[j] = "bash" /\ before[j] = {} => from[j] = "working_dir"
    /\ Returned = {} => cwd = "none"
    /\ \A i \in Jobs : Returned = {i} /\ made[i] = "bash" =>
          IF Session!ToldTruly(i) THEN cwd = where[i] \/ (where[i] \in gone /\ cwd = "none")
          ELSE cwd \in {"none"} \cup Session!LedTo(i)
    /\ Session!SessionFollows

\* What a call has returned with stays as it was.
LEMMA ReturnedStays ==
    ASSUME CommandTypes, NEW i \in Jobs, JobHolds(i), stage[i] = "done", [Session!Next]_commandVars
    PROVE  /\ stage'[i] = "done" /\ made'[i] = made[i] /\ told'[i] = told[i]
           /\ from'[i] = from[i] /\ before'[i] = before[i]
           /\ told[i].how = "ok" => written'[i] = written[i] /\ where'[i] = where[i]
<1> DEFINE Goal == /\ stage'[i] = "done" /\ made'[i] = made[i] /\ told'[i] = told[i]
                   /\ from'[i] = from[i] /\ before'[i] = before[i]
                   /\ told[i].how = "ok" => written'[i] = written[i] /\ where'[i] = where[i]
<1>1. told[i].how = "ok" => shell[i] # "runs" /\ ~behind[i]
  BY DEF JobHolds, ToldWhole
<1>2. ASSUME Same(i) PROVE Goal
  BY <1>2 DEF Same
<1>3. ASSUME NEW j \in Jobs, j # i,
             Session!Start(j) \/ Session!Command(j) \/ Session!Step(j) \/ Session!Drop(j)
      PROVE  Goal
  BY <1>2, <1>3, OthersStay
<1>4. ASSUME Session!Start(i) \/ Session!Command(i) \/ Session!Step(i) \/ Session!Drop(i)
      PROVE  Goal
  <2>1. CASE Session!Start(i) \/ Session!Return(i) \/ Session!TimeOut(i) \/ Session!SendExit(i)
             \/ Session!Wait(i) \/ Session!Join(i)
    BY <2>1 DEF Session!Start, Session!Return, Session!TimeOut, Session!SendExit, Session!Wait, Session!Join
  <2>2. ASSUME NEW p \in Session!Pipes, Session!Write(i, p) PROVE Goal
    BY <2>2, <1>1 DEF Session!Write, Session!Busy, Session!Runs, Session!readers, Session!stream, Session!session
  <2>3. CASE Session!Cd(i) \/ Session!LeaveBehind(i) \/ Session!Tell(i) \/ Session!Exit(i)
    BY <2>3, <1>1 DEF Session!Cd, Session!LeaveBehind, Session!Tell, Session!Exit, Session!Busy, Session!Runs,
                      Session!readers, Session!stream, Session!session
  <2>4. CASE Session!LeftEnds(i) \/ Session!Take(i) \/ Session!Drop(i)
    BY <2>4 DEF Session!LeftEnds, Session!Take, Session!Drop, Session!process, Session!readers, Session!stream,
                Session!session
  <2>5. ASSUME NEW p \in Session!Pipes, Session!Pass(i, p) \/ Session!PipeEnds(i, p) PROVE Goal
    BY <2>5 DEF Session!Pass, Session!PipeEnds, Session!process, Session!stream, Session!session
  <2> QED
    BY <1>4, <2>1, <2>2, <2>3, <2>4, <2>5 DEF Session!Command, Session!Step
<1>5. CASE UNCHANGED commandVars \/ (\E d \in Dirs : Session!Vanish(d)) \/ Session!Over
  <2>1. Same(i)
    BY <1>5 DEF commandVars, Same, Session!Vanish, Session!Over, Session!vars, Session!process, Session!readers,
                Session!stream, Session!session
  <2> QED
    BY <1>2, <2>1
<1>6. Goal
  <2>1. ASSUME NEW j \in Jobs, Session!Start(j) \/ Session!Command(j) \/ Session!Step(j) \/ Session!Drop(j)
        PROVE  Goal
    <3>1. CASE j = i
      BY <1>4, <2>1, <3>1
    <3>2. CASE j # i
      BY <1>3, <2>1, <3>2
    <3> QED
      BY <3>1, <3>2
  <2>2. \/ \E j \in Jobs : Session!Start(j) \/ Session!Command(j) \/ Session!Step(j) \/ Session!Drop(j)
        \/ UNCHANGED commandVars \/ (\E d \in Dirs : Session!Vanish(d)) \/ Session!Over
    BY DEF Session!Next
  <2> QED
    BY <2>1, <2>2, <1>5
<1> QED
  BY <1>6

\* and whether it told its directory
LEMMA TruthStays ==
    ASSUME CommandTypes, NEW i \in Jobs, JobHolds(i), stage[i] = "done", [Session!Next]_commandVars
    PROVE  /\ (Session!ToldTruly(i))' <=> Session!ToldTruly(i)
           /\ Session!ToldTruly(i) => where'[i] = where[i]
           /\ (Session!LedTo(i))' = Session!LedTo(i)
<1>1. told'[i] = told[i] /\ (told[i].how = "ok" => written'[i] = written[i] /\ where'[i] = where[i])
  BY ReturnedStays
<1>2. ((Session!ToldTruly(i))' <=> Session!ToldTruly(i)) /\ (Session!ToldTruly(i) => where'[i] = where[i])
  BY <1>1 DEF Session!ToldTruly
<1>3. (Session!LedTo(i))' = Session!LedTo(i)
  <2>1. CASE told[i].how = "ok"
    BY <1>1, <2>1 DEF Session!LedTo
  <2>2. CASE told[i].how # "ok"
    BY <1>1, <2>2 DEF Session!LedTo
  <2> QED
    BY <2>1, <2>2
<1> QED
  BY <1>2, <1>3

\* What a Bash call that returns in time says of its directory.
LEMMA ToldWhere ==
    ASSUME CommandTypes, NEW j \in Jobs, JobHolds(j), made[j] = "bash", Session!Return(j)
    PROVE  /\ (Session!ToldTruly(j))' => Session!NewCwd(written[j].out) = where'[j]
           /\ ~(Session!ToldTruly(j))' => Session!NewCwd(written[j].out) \in {"none"} \cup (Session!LedTo(j))'
<1> DEFINE out == written[j].out
<1>1. /\ told'[j].how = "ok" /\ written'[j] = written[j] /\ where'[j] = where[j]
  BY DEF Session!Return, Session!process, CommandTypes
<1>2. (Session!ToldTruly(j))' <=> \E k \in DOMAIN out : out[k] = Session!Sentinel /\ out[k + 1].what = "pwd"
  <2>1. (Session!ToldTruly(j))' <=>
            /\ told'[j].how = "ok"
            /\ \E k \in DOMAIN written'[j].out :
                  written'[j].out[k] = Session!Sentinel /\ written'[j].out[k + 1].what = "pwd"
    BY DEF Session!ToldTruly
  <2> QED
    BY <1>1, <2>1
<1>3. Spoken(j) /\ shell[j] # "runs"
  BY DEF JobHolds, Session!Return, Session!Complete, Session!HasEnded
<1>4. /\ out \in Seq(Item)
      /\ \A k, l \in DOMAIN out : out[k] = Session!Sentinel /\ out[l] = Session!Sentinel => l = k
  BY <1>3, OneSentinel
<1>5. CASE \A k \in DOMAIN out : out[k] # Session!Sentinel
  <2>1. Session!NewCwd(out) = "none"
    BY <1>4, <1>5, Parse
  <2> QED
    BY <1>2, <1>5, <2>1
<1>6. ASSUME NEW k \in DOMAIN out, out[k] = Session!Sentinel
      PROVE  /\ (Session!ToldTruly(j))' => Session!NewCwd(out) = where'[j]
             /\ ~(Session!ToldTruly(j))' => Session!NewCwd(out) \in {"none"} \cup (Session!LedTo(j))'
  <2>1. k < Len(out) /\ k \in 1..Len(out) /\ Len(out) \in Nat
    BY <1>3, <1>4, <1>6 DEF Spoken
  <2>2. k + 1 \in DOMAIN out
    BY <2>1, <1>4
  <2>3. Session!NewCwd(out) = out[k + 1].dir
    BY <1>4, <1>6, <2>1, Parse
  <2>4. (Session!ToldTruly(j))' <=> out[k + 1].what = "pwd"
    BY <1>2, <1>4, <1>6
  <2>5. out[k + 1].what = "pwd" => out[k + 1].dir = where[j]
    BY <1>3, <2>2 DEF Spoken
  <2>6. ASSUME out[k + 1].what # "pwd" PROVE out[k + 1].dir \in {"none"} \cup (Session!LedTo(j))'
    <3> DEFINE item == out[k + 1]
    <3>1. item \in Item
      BY <1>4, <2>2
    <3>2. item # Session!Sentinel /\ ~Session!LineOfShell(item)
      BY <1>3, <1>6, <2>1, <2>2 DEF Spoken
    <3>3. item.what = "sentinel" => item = Session!Sentinel
      BY <1>3, <2>2 DEF Spoken
    <3>4. item.what = "line" /\ item.by = "left"
      BY <2>6, <3>1, <3>2, <3>3 DEF Item, Session!LineOfShell
    <3>5. item = Session!Line("left", item.dir) /\ item.dir \in Dirs \cup {"working_dir", "none"}
      BY <3>1, <3>4, ItemTypes DEF Item
    <3>6. CASE item.dir # "none"
      <4>1. written'[j].out[k] = Session!Sentinel /\ written'[j].out[k + 1] = Session!Line("left", item.dir)
            /\ k \in DOMAIN written'[j].out
        BY <1>1, <1>6, <3>5
      <4>2. item.dir \in Dirs \cup {Session!Base}
        BY <3>5, <3>6, Words
      <4>3. told'[j].how = "ok"
        BY <1>1
      <4> HIDE DEF item, out
      <4>4. item.dir \in (Session!LedTo(j))'
        BY <4>1, <4>2, <4>3 DEF Session!LedTo
      <4> QED
        BY <4>4 DEF item, out
    <3>7. item.dir \in {"none"} \cup (Session!LedTo(j))'
      BY <3>6
    <3> QED
      BY <3>7
  <2> QED
    BY <1>1, <2>3, <2>4, <2>5, <2>6
<1> QED
  BY <1>5, <1>6

\* at the start no call has returned
LEMMA InitFollowed ==
    ASSUME Session!Init, CommandTypes
    PROVE  Followed
<1>1. /\ \A j \in Jobs : before[j] = {} /\ from[j] = "working_dir"
      /\ \A j \in Jobs : stage[j] = "done" => made[j] = "no_call"
      /\ cwd = "none"
  BY Words DEF Session!Init
<1>2. Session!SessionFollows
  BY <1>1 DEF Session!SessionFollows, Session!Alone
<1> QED
  BY <1>1, <1>2 DEF Followed, Returned

\* A step that neither starts a call nor returns a result in time leaves the session.
LEMMA SessionRests ==
    ASSUME CommandTypes, \A i \in Jobs : JobHolds(i), [Session!Next]_commandVars,
           \A j \in Jobs : ~Session!Start(j) /\ ~Session!Return(j)
    PROVE  /\ cwd' = cwd /\ gone \subseteq gone' /\ from' = from /\ before' = before /\ made' = made
           /\ \A i \in Jobs : /\ stage'[i] = "idle" => stage[i] = "idle"
                              /\ stage[i] = "idle" => stage'[i] = "idle"
                              /\ stage'[i] = "done" /\ stage[i] # "done" /\ made[i] = "bash" => told'[i].how # "ok"
<1> DEFINE Rests(i) == /\ stage'[i] = "idle" => stage[i] = "idle"
                       /\ stage[i] = "idle" => stage'[i] = "idle"
                       /\ stage'[i] = "done" /\ stage[i] # "done" /\ made[i] = "bash" => told'[i].how # "ok"
           Goal == /\ cwd' = cwd /\ gone \subseteq gone' /\ from' = from /\ before' = before /\ made' = made
                   /\ \A i \in Jobs : Rests(i)
<1>1. ASSUME cwd' = cwd, gone \subseteq gone', from' = from, before' = before, made' = made, stage' = stage
      PROVE  Goal
  BY <1>1
<1>2. ASSUME NEW j \in Jobs, Session!Command(j) PROVE Goal
  <2>1. ASSUME NEW p \in Session!Pipes, Session!Write(j, p) PROVE Goal
    BY <2>1, <1>1 DEF Session!Write, Session!session
  <2>2. CASE Session!Cd(j)
    BY <2>2, <1>1 DEF Session!Cd, Session!session
  <2>3. CASE Session!LeaveBehind(j)
    BY <2>3, <1>1 DEF Session!LeaveBehind, Session!session
  <2>4. CASE Session!Tell(j)
    BY <2>4, <1>1 DEF Session!Tell, Session!session
  <2>5. CASE Session!Exit(j)
    BY <2>5, <1>1 DEF Session!Exit, Session!session
  <2>6. CASE Session!LeftEnds(j)
    BY <2>6, <1>1 DEF Session!LeftEnds, Session!session
  <2> QED
    BY <1>2, <2>1, <2>2, <2>3, <2>4, <2>5, <2>6 DEF Session!Command
<1>3. ASSUME NEW j \in Jobs, Session!Step(j) \/ Session!Drop(j) PROVE Goal
  <2>0. ASSUME cwd' = cwd, gone' = gone, from' = from, before' = before, made' = made,
               \A i \in Jobs : i # j => stage'[i] = stage[i], Rests(j)
        PROVE  Goal
    BY <2>0
  <2>1. ASSUME NEW p \in Session!Pipes, Session!Pass(j, p) \/ Session!PipeEnds(j, p) PROVE Goal
    BY <2>1, <1>1 DEF Session!Pass, Session!PipeEnds, Session!session
  <2>2. CASE Session!TimeOut(j)
    <3>1. stage[j] = "called" /\ stage'[j] = "done" /\ told'[j].how = "timeout"
      BY <2>2 DEF Session!TimeOut, CommandTypes
    <3>2. \A i \in Jobs : i # j => stage'[i] = stage[i]
      BY <2>2 DEF Session!TimeOut, CommandTypes
    <3> QED
      BY <2>0, <2>2, <3>1, <3>2 DEF Session!TimeOut, Session!session
  <2>3. CASE Session!SendExit(j)
    <3>1. stage[j] = "called" /\ stage'[j] = "done" /\ made[j] = "stream"
      BY <2>3 DEF Session!SendExit, CommandTypes
    <3>2. \A i \in Jobs : i # j => stage'[i] = stage[i]
      BY <2>3 DEF Session!SendExit, CommandTypes
    <3> QED
      BY <2>0, <2>3, <3>1, <3>2 DEF Session!SendExit, Session!session
  <2>4. CASE Session!Wait(j)
    <3>1. stage[j] = "called" /\ stage'[j] \in {"waited", "expired"}
      BY <2>4 DEF Session!Wait, CommandTypes
    <3>2. \A i \in Jobs : i # j => stage'[i] = stage[i]
      BY <2>4 DEF Session!Wait, CommandTypes
    <3> QED
      BY <2>0, <2>4, <3>1, <3>2 DEF Session!Wait, Session!session
  <2>5. CASE Session!Join(j)
    <3>1. stage[j] \in {"waited", "expired"} /\ stage'[j] = "done" /\ made[j] = "exec_streaming"
      BY <2>5 DEF Session!Join, CommandTypes, JobHolds, AtRest
    <3>2. \A i \in Jobs : i # j => stage'[i] = stage[i]
      BY <2>5 DEF Session!Join, CommandTypes
    <3> QED
      BY <2>0, <2>5, <3>1, <3>2 DEF Session!Join, Session!session
  <2>6. CASE Session!Take(j)
    BY <2>6, <1>1 DEF Session!Take, Session!session
  <2>7. CASE Session!Drop(j)
    BY <2>7, <1>1 DEF Session!Drop, Session!session
  <2> QED
    BY <1>3, <2>1, <2>2, <2>3, <2>4, <2>5, <2>6, <2>7 DEF Session!Step
<1>4. ASSUME NEW d \in Dirs, Session!Vanish(d) PROVE Goal
  BY <1>4, <1>1 DEF Session!Vanish, Session!session
<1>5. CASE UNCHANGED commandVars
  BY <1>5, <1>1 DEF commandVars
<1>6. CASE Session!Over
  BY <1>6, <1>1 DEF Session!Over, Session!vars, Session!session
<1>7. \/ \E j \in Jobs : Session!Command(j) \/ Session!Step(j) \/ Session!Drop(j)
      \/ UNCHANGED commandVars \/ (\E d \in Dirs : Session!Vanish(d)) \/ Session!Over
  BY DEF Session!Next
<1>8. Goal
  BY <1>2, <1>3, <1>4, <1>5, <1>6, <1>7
<1> QED
  BY <1>8

\* so every step keeps what is said of the session
LEMMA FollowedKept ==
    ASSUME CommandTypes, \A i \in Jobs : JobHolds(i), Followed, [Session!Next]_commandVars
    PROVE  Followed'
<1>1. ASSUME NEW i \in Returned
      PROVE  /\ i \in Jobs /\ i \in Returned' /\ made'[i] = made[i] /\ from'[i] = from[i] /\ before'[i] = before[i]
             /\ (Session!ToldTruly(i))' <=> Session!ToldTruly(i)
             /\ Session!ToldTruly(i) => where'[i] = where[i]
             /\ (Session!LedTo(i))' = Session!LedTo(i)
  BY ReturnedStays, TruthStays DEF Returned
<1>2. Returned \subseteq Jobs /\ Returned' \subseteq Jobs
  BY DEF Returned
\* what was said of a call that follows another stays true
<1>3. ASSUME NEW i \in Jobs, NEW j \in Jobs, before[j] = {i}, made[i] = "bash", made[j] = "bash",
             stage[j] # "idle", from'[j] = from[j], gone \subseteq gone'
      PROVE  IF (Session!ToldTruly(i))' THEN from'[j] = where'[i] \/ (where'[i] \in gone' /\ from'[j] = from'[i])
             ELSE from'[j] \in {from'[i]} \cup (Session!LedTo(i))'
  <2>1. i \in Returned
    BY <1>3 DEF Followed
  <2>2. IF Session!ToldTruly(i) THEN from[j] = where[i] \/ (where[i] \in gone /\ from[j] = from[i])
        ELSE from[j] \in {from[i]} \cup Session!LedTo(i)
    BY <1>3 DEF Followed, Session!SessionFollows, Session!Alone
  <2> QED
    BY <1>1, <1>3, <2>1, <2>2
<1>4. CASE \A j \in Jobs : ~Session!Start(j) /\ ~Session!Return(j)
  <2>1. /\ cwd' = cwd /\ gone \subseteq gone' /\ from' = from /\ before' = before /\ made' = made
        /\ \A i \in Jobs : /\ stage'[i] = "idle" => stage[i] = "idle"
                           /\ stage[i] = "idle" => stage'[i] = "idle"
                           /\ stage'[i] = "done" /\ stage[i] # "done" /\ made[i] = "bash" => told'[i].how # "ok"
    BY <1>4, SessionRests
  <2>2. \A j \in Jobs : /\ before'[j] \subseteq Returned' /\ j \notin before'[j]
                        /\ made'[j] = "bash" /\ before'[j] = {} => from'[j] = "working_dir"
    BY <1>1, <2>1 DEF Followed
  <2>3. Returned' = {} => cwd' = "none"
    BY <1>1, <2>1 DEF Followed
  <2>4. ASSUME NEW i \in Jobs, Returned' = {i}, made'[i] = "bash"
        PROVE  IF (Session!ToldTruly(i))' THEN cwd' = where'[i] \/ (where'[i] \in gone' /\ cwd' = "none")
               ELSE cwd' \in {"none"} \cup (Session!LedTo(i))'
    <3>1. CASE i \in Returned
      <4>1. Returned = {i}
        BY <1>1, <2>4, <3>1
      <4> QED
        BY <1>1, <2>1, <2>4, <3>1, <4>1 DEF Followed
    <3>2. CASE i \notin Returned
      <4>1. Returned = {} /\ told'[i].how # "ok"
        BY <1>1, <2>1, <2>4, <3>2 DEF Returned
      <4>2. ~(Session!ToldTruly(i))'
        BY <4>1 DEF Session!ToldTruly
      <4> QED
        BY <2>1, <4>1, <4>2 DEF Followed
    <3> QED
      BY <3>1, <3>2
  <2>5. Session!SessionFollows'
    BY <1>3, <2>1 DEF Session!SessionFollows, Session!Alone
  <2> QED
    BY <2>2, <2>3, <2>4, <2>5 DEF Followed
<1>5. ASSUME NEW j \in Jobs, Session!Start(j) PROVE Followed'
  <2>1. /\ cwd' = cwd /\ gone' = gone /\ made' = made /\ stage[j] = "idle" /\ stage'[j] = "called"
        /\ \A i \in Jobs : i # j => stage'[i] = stage[i] /\ from'[i] = from[i] /\ before'[i] = before[i]
    BY <1>5 DEF Session!Start, CommandTypes
  <2>2. Returned' = Returned /\ j \notin Returned
    BY <2>1 DEF Returned
  <2>3. IF made[j] = "bash"
        THEN /\ before'[j] = Returned
             /\ from'[j] = IF cwd = "none" THEN "working_dir" ELSE cwd
        ELSE from'[j] = from[j] /\ before'[j] = before[j]
    <3>1. CASE made[j] = "bash"
      <4>1. /\ from' = [from EXCEPT ![j] = IF cwd = "none" THEN "working_dir" ELSE cwd]
            /\ before' = [before EXCEPT ![j] = {i \in Jobs : stage[i] = "done"}]
        BY <1>5, <3>1, Words DEF Session!Start
      <4> QED
        BY <3>1, <4>1 DEF CommandTypes, Returned
    <3>2. CASE made[j] # "bash"
      BY <1>5, <3>2 DEF Session!Start
    <3> QED
      BY <3>1, <3>2
  <2>4. ASSUME NEW i \in Jobs
        PROVE  /\ before'[i] \subseteq Returned' /\ i \notin before'[i]
               /\ made'[i] = "bash" /\ before'[i] = {} => from'[i] = "working_dir"
    <3>1. CASE i # j \/ made[j] # "bash"
      BY <2>1, <2>2, <2>3, <3>1 DEF Followed
    <3>2. CASE i = j /\ made[j] = "bash"
      BY <2>1, <2>2, <2>3, <3>2 DEF Followed
    <3> QED
      BY <3>1, <3>2
  <2>5. Returned' = {} => cwd' = "none"
    BY <2>1, <2>2 DEF Followed
  <2>6. ASSUME NEW i \in Jobs, Returned' = {i}, made'[i] = "bash"
        PROVE  IF (Session!ToldTruly(i))' THEN cwd' = where'[i] \/ (where'[i] \in gone' /\ cwd' = "none")
               ELSE cwd' \in {"none"} \cup (Session!LedTo(i))'
    BY <1>1, <2>1, <2>2, <2>6 DEF Followed
  <2>7. ASSUME NEW i \in Jobs, NEW k \in Jobs, made[i] = "bash", made[k] = "bash", before'[k] = {i}
        PROVE  stage'[k] # "idle" =>
                 IF (Session!ToldTruly(i))' THEN from'[k] = where'[i] \/ (where'[i] \in gone' /\ from'[k] = from'[i])
                 ELSE from'[k] \in {from'[i]} \cup (Session!LedTo(i))'
    <3>1. CASE k # j
      BY <1>3, <2>1, <2>7, <3>1
    <3>2. CASE k = j
      <4>1. Returned = {i} /\ i # j
        BY <2>2, <2>3, <2>7, <3>2
      <4>2. before[i] = {}
        BY <4>1 DEF Followed
      <4>3. from[i] = "working_dir" /\ from'[i] = from[i]
        BY <2>1, <2>7, <4>1, <4>2 DEF Followed
      <4>4. IF Session!ToldTruly(i) THEN cwd = where[i] \/ (where[i] \in gone /\ cwd = "none")
            ELSE cwd \in {"none"} \cup Session!LedTo(i)
        BY <2>7, <4>1 DEF Followed
      <4>5. from'[j] = IF cwd = "none" THEN "working_dir" ELSE cwd
        BY <2>3, <2>7, <3>2
      <4>6. where[i] # "none" /\ "none" \notin Session!LedTo(i)
        BY Words DEF CommandTypes, Session!LedTo
      <4>7. /\ (Session!ToldTruly(i))' <=> Session!ToldTruly(i)
            /\ Session!ToldTruly(i) => where'[i] = where[i]
            /\ (Session!LedTo(i))' = Session!LedTo(i)
        BY <1>1, <4>1
      <4> QED
        BY <2>1, <3>2, <4>3, <4>4, <4>5, <4>6, <4>7
    <3> QED
      BY <3>1, <3>2
  <2>8. Session!SessionFollows'
    BY <2>1, <2>7 DEF Session!SessionFollows, Session!Alone
  <2> QED
    BY <2>4, <2>5, <2>6, <2>8 DEF Followed
<1>6. ASSUME NEW j \in Jobs, Session!Return(j) PROVE Followed'
  <2>1. /\ gone' = gone /\ made' = made /\ from' = from /\ before' = before
        /\ stage[j] = "called" /\ stage'[j] = "done"
        /\ \A i \in Jobs : i # j => stage'[i] = stage[i]
    BY <1>6 DEF Session!Return, CommandTypes
  <2>2. Returned' = Returned \cup {j} /\ j \notin Returned
    BY <2>1 DEF Returned
  <2>3. cwd' = IF made[j] = "bash" /\ Session!NewCwd(written[j].out) \notin gone \cup {"none"}
               THEN Session!NewCwd(written[j].out) ELSE cwd
    BY <1>6 DEF Session!Return, Session!None
  <2>4. ASSUME NEW i \in Jobs
        PROVE  /\ before'[i] \subseteq Returned' /\ i \notin before'[i]
               /\ made'[i] = "bash" /\ before'[i] = {} => from'[i] = "working_dir"
    BY <2>1, <2>2 DEF Followed
  <2>5. Returned' # {}
    BY <2>2
  <2>6. ASSUME NEW i \in Jobs, Returned' = {i}, made'[i] = "bash"
        PROVE  IF (Session!ToldTruly(i))' THEN cwd' = where'[i] \/ (where'[i] \in gone' /\ cwd' = "none")
               ELSE cwd' \in {"none"} \cup (Session!LedTo(i))'
    <3>1. i = j /\ Returned = {} /\ made[j] = "bash"
      BY <2>1, <2>2, <2>6
    <3>2. cwd = "none"
      BY <3>1 DEF Followed
    <3>3. JobHolds(j)
      OBVIOUS
    <3>4. /\ (Session!ToldTruly(j))' => Session!NewCwd(written[j].out) = where'[j]
          /\ ~(Session!ToldTruly(j))' => Session!NewCwd(written[j].out) \in {"none"} \cup (Session!LedTo(j))'
      BY <1>6, <3>1, <3>3, ToldWhere
    <3>5. where'[j] # "none"
      BY <1>6, Words DEF CommandTypes, Session!Return, Session!process
    <3>6. CASE (Session!ToldTruly(j))'
      BY <2>1, <2>3, <3>1, <3>2, <3>4, <3>5, <3>6
    <3>7. CASE ~(Session!ToldTruly(j))'
      BY <2>3, <3>1, <3>2, <3>4, <3>7
    <3> QED
      BY <3>1, <3>6, <3>7
  <2>7. ASSUME NEW i \in Jobs, NEW k \in Jobs, made[i] = "bash", made[k] = "bash", before[k] = {i},
               stage'[k] # "idle"
        PROVE  IF (Session!ToldTruly(i))' THEN from'[k] = where'[i] \/ (where'[i] \in gone' /\ from'[k] = from'[i])
               ELSE from'[k] \in {from'[i]} \cup (Session!LedTo(i))'
    <3>1. stage[k] # "idle"
      BY <2>1, <2>7
    <3> QED
      BY <1>3, <2>1, <2>7, <3>1
  <2>8. Session!SessionFollows'
    BY <2>1, <2>7 DEF Session!SessionFollows, Session!Alone
  <2> QED
    BY <2>4, <2>5, <2>6, <2>8 DEF Followed
<1> QED
  BY <1>4, <1>5, <1>6

-------------------------------------------------------------------------------
\* a result in time holds what was written, up to the sentinel
LEMMA ResultsTold ==
    ASSUME CommandTypes, \A j \in Jobs : JobHolds(j)
    PROVE  Session!ResultsAreWhole
<1> SUFFICES ASSUME NEW j \in Jobs, told[j].how = "ok"
             PROVE  /\ told[j].err = written[j].err
                    /\ IF made[j] = "bash"
                       THEN /\ Session!IsPrefixOf(told[j].out, written[j].out)
                            /\ \A k \in (Len(told[j].out) + 1)..Len(written[j].out) :
                                  ~Session!LineOfShell(written[j].out[k])
                       ELSE told[j].out = written[j].out
  BY DEF Session!ResultsAreWhole
<1> DEFINE out == written[j].out
<1>1. /\ told[j].err = written[j].err
      /\ told[j].out = IF made[j] = "bash" THEN Session!UserOutput(out) ELSE out
      /\ Spoken(j)
  BY DEF JobHolds, ToldWhole
<1>2. /\ out \in Seq(Item)
      /\ \A k, l \in DOMAIN out : out[k] = Session!Sentinel /\ out[l] = Session!Sentinel => l = k
  BY <1>1, OneSentinel
<1>3. /\ Session!IsPrefixOf(Session!UserOutput(out), out)
      /\ \A k \in (Len(Session!UserOutput(out)) + 1)..Len(out) : ~Session!LineOfShell(out[k])
  <2>1. CASE \A k \in DOMAIN out : out[k] # Session!Sentinel
    <3>1. Session!UserOutput(out) = out
      BY <1>2, <2>1, Parse
    <3> HIDE DEF out
    <3>2. Len(out) \in Nat /\ DOMAIN out = 1..Len(out)
      BY <1>2
    <3> QED
      BY <3>1, <3>2 DEF Session!IsPrefixOf
  <2>2. ASSUME NEW k \in DOMAIN out, out[k] = Session!Sentinel
        PROVE  /\ Session!IsPrefixOf(Session!UserOutput(out), out)
               /\ \A l \in (Len(Session!UserOutput(out)) + 1)..Len(out) : ~Session!LineOfShell(out[l])
    <3>1. Session!UserOutput(out) = SubSeq(out, 1, k - 1)
      BY <1>2, <2>2, Parse
    <3>2. \A l \in DOMAIN out : k < l => ~Session!LineOfShell(out[l])
      BY <1>1, <2>2 DEF Spoken
    <3>3. ~Session!LineOfShell(out[k])
      BY <2>2, ItemTypes DEF Session!LineOfShell
    <3> HIDE DEF out
    <3>4. k \in 1..Len(out) /\ Len(out) \in Nat /\ DOMAIN out = 1..Len(out)
      BY <1>2
    <3> DEFINE user == SubSeq(out, 1, k - 1)
    <3>5. Len(user) = k - 1 /\ DOMAIN user = 1..(k - 1) /\ \A l \in 1..(k - 1) : user[l] = out[l]
      BY <1>2, <3>4
    <3> HIDE DEF user
    <3>6. Session!IsPrefixOf(user, out)
      BY <3>4, <3>5 DEF Session!IsPrefixOf
    <3>7. \A l \in (Len(user) + 1)..Len(out) : ~Session!LineOfShell(out[l])
      BY <3>2, <3>3, <3>4, <3>5
    <3> QED
      BY <3>1, <3>6, <3>7 DEF user
  <2> QED
    BY <2>1, <2>2
<1> QED
  BY <1>1, <1>3

\* the counts of the commands' module are these
LEMMA SessionCounts ==
    ASSUME NEW s, NEW p, NEW n
    PROVE  Session!Cardinality(Session!OfPipe(s, p, n)) = Count(s, p, n)
<1>1. \A S : Session!Cardinality(S) = Cardinality(S)
  BY DEF Session!Cardinality, Cardinality
<1> QED
  BY <1>1 DEF Count, Session!OfPipe

\* what a stream hands out are the first lines of its pipes
LEMMA StreamsTold ==
    ASSUME CommandTypes, \A j \in Jobs : JobHolds(j)
    PROVE  Session!StreamsAreTrue
<1> SUFFICES ASSUME NEW j \in Jobs, NEW k \in DOMAIN given[j]
             PROVE  /\ given[j][k].what = "line" =>
                         /\ Session!Nth(given[j], k) \in DOMAIN written[j][given[j][k].pipe]
                         /\ given[j][k].item = written[j][given[j][k].pipe][Session!Nth(given[j], k)]
                    /\ Session!Exits(given[j], k) =>
                         /\ k = Len(given[j]) /\ ~Session!Open(j)
                         /\ \A p \in Session!Pipes :
                               Session!Cardinality(Session!OfPipe(given[j], p, k)) = Len(written[j][p])
  BY DEF Session!StreamsAreTrue
<1> DEFINE all == Heard(j)
           new == given[j]
<1>1. /\ new \in Seq(Chunks) /\ all \in Seq(Chunks) /\ \A i \in 1..Len(new) : new[i] = all[i]
      /\ Len(all) = Len(new) + Len(lines[j]) /\ Len(lines[j]) \in Nat
  BY Behind
<1>2. /\ all[k].what = "line" =>
            /\ all[k].pipe \in {"out", "err"}
            /\ Count(all, all[k].pipe, k) \in 1..taken[j][all[k].pipe]
            /\ all[k].item = written[j][all[k].pipe][Count(all, all[k].pipe, k)]
      /\ all[k].what = "exit" =>
            /\ k = Len(all) /\ shell[j] # "runs" /\ ~behind[j]
            /\ \A p \in {"out", "err"} : Count(all, p, k) = Len(written[j][p])
  <2>1. k \in DOMAIN new
    OBVIOUS
  <2>2. k \in DOMAIN all
    <3> HIDE DEF all, new
    <3> QED
      BY <1>1, <2>1
  <2> QED
    BY <2>2 DEF JobHolds, Handed
<1>3. \A p \in {"out", "err"} : /\ taken[j][p] <= Len(written[j][p]) /\ taken[j][p] \in Nat
                                /\ written[j][p] \in Seq(Item)
  BY DEF JobHolds, ReadersAt, CommandTypes
<1>9. k \in DOMAIN new
  OBVIOUS
<1> HIDE DEF all, new
<1>5. k \in 1..Len(new) /\ k \in Nat /\ Len(new) \in Nat /\ Len(all) \in Nat
  BY <1>1, <1>9
<1>6. new[k] = all[k] /\ \A p : Count(new, p, k) = Count(all, p, k)
  <2>1. \A i \in 1..k : new[i] = all[i]
    BY <1>1, <1>5
  <2> QED
    BY <1>5, <2>1, CountedSame
<1>7. ASSUME new[k].what = "line"
      PROVE  /\ Session!Nth(new, k) \in DOMAIN written[j][new[k].pipe]
             /\ new[k].item = written[j][new[k].pipe][Session!Nth(new, k)]
  <2>1. PICK p \in {"out", "err"} : p = new[k].pipe
    BY <1>2, <1>6, <1>7
  <2>2. Session!Nth(new, k) = Count(new, p, k)
    BY <2>1, SessionCounts DEF Session!Nth
  <2>3. Count(new, p, k) \in 1..taken[j][p] /\ new[k].item = written[j][p][Count(new, p, k)]
    BY <1>2, <1>6, <1>7, <2>1
  <2>4. Count(new, p, k) \in DOMAIN written[j][p]
    BY <1>3, <2>3
  <2> QED
    BY <2>1, <2>2, <2>3, <2>4
<1>8. ASSUME Session!Exits(new, k)
      PROVE  /\ k = Len(new) /\ ~Session!Open(j)
             /\ \A p \in Session!Pipes :
                   Session!Cardinality(Session!OfPipe(new, p, k)) = Len(written[j][p])
  <2>1. all[k].what = "exit"
    BY <1>6, <1>8 DEF Session!Exits
  <2>2. k = Len(new)
    BY <1>1, <1>2, <1>5, <2>1
  <2> QED
    BY <1>2, <1>6, <2>1, <2>2, SessionCounts, Words DEF Session!Open, Session!Runs
<1> QED
  BY <1>7, <1>8 DEF new

(***************************************************************************)
(* A call says what its command printed, where it ended and that it ended, *)
(* for any calls of the Bash tool, of exec and of sandboxes, any number of *)
(* lines and any room in a stream's channel, whatever the commands leave   *)
(* behind, however slow they are, and whether or not directories vanish.   *)
(***************************************************************************)
THEOREM CommandsAreTold ==
    Session!Spec => []CommandsAreTrue
<1> DEFINE IInv == CommandTypes /\ (\A j \in Jobs : JobHolds(j)) /\ Followed
<1>1. Session!Init => IInv
  BY InitCommandTypes, InitCall, InitFollowed
<1>2. IInv /\ [Session!Next]_commandVars => IInv'
  <2> SUFFICES ASSUME IInv, [Session!Next]_commandVars PROVE IInv'
    OBVIOUS
  <2>1. CommandTypes' /\ \A j \in Jobs : JobHolds(j)'
    BY CallsHold
  <2>2. Followed'
    BY FollowedKept
  <2> QED
    BY <2>1, <2>2
<1>3. IInv => CommandsAreTrue
  <2> SUFFICES ASSUME IInv PROVE CommandsAreTrue
    OBVIOUS
  <2>1. Session!ResultsAreWhole /\ Session!StreamsAreTrue
    BY ResultsTold, StreamsTold
  <2>2. Session!NothingRunsOn
    BY DEF JobHolds, AtRest, Session!NothingRunsOn, Session!Runs
  <2>3. Session!SessionFollows
    BY DEF Followed
  <2> QED
    BY <2>1, <2>2, <2>3 DEF CommandsAreTrue, Session!CommandsAreTrue
<1>4. [Session!Next]_(Session!vars) => [Session!Next]_commandVars
  BY DEF Session!vars, commandVars, Session!process, Session!readers, Session!stream, Session!session
<1> QED
  BY <1>1, <1>2, <1>3, <1>4, PTL DEF Session!Spec

================================================================================
