------------------------------- MODULE RpcClient -------------------------------
(* Requests to a tool server over its standard input and output: the language    *)
(* server client and its manager (cersei-lsp/src/client.rs, manager.rs) and the  *)
(* MCP transport and its manager (cersei-mcp/src/transport.rs, lib.rs). Both give *)
(* every request a number, park a one-shot channel under it and let a reader task *)
(* hand over whatever answer names that number.                                   *)
(*                                                                               *)
(* Three clients in one module: "lsp" is used through LspManager, which holds one *)
(* mutex for the whole call and starts the server on first use; "shared" is an    *)
(* LspClient used by several tasks at once, which its API allows; "mcp" is a       *)
(* connected McpClient behind McpManager's mutex.                                  *)
EXTENDS Integers, Sequences, FiniteSets

CONSTANTS Callers,     \* tasks that make calls
          MaxCalls,    \* bound: calls made in a behaviour, for each kind of client
          MaxServers,  \* bound: server processes spawned
          Room,        \* what a pipe or a channel holds before it blocks
          OwnNumbers   \* what a server numbers its own requests with

Kinds == {"lsp", "shared", "mcp"}

ASSUME RpcAssumption ==
    /\ MaxCalls \in [Kinds -> Nat] /\ MaxServers \in Nat \ {0} /\ Room \in Nat \ {0}
    /\ OwnNumbers \subseteq Nat \ {0}

VARIABLES
    kind,    \* which client this is
    client,  \* the manager's client: a server number, or 0
    server,  \* [1..MaxServers -> the process and this side of its pipes]
    lock,    \* tasks at the manager's mutex, in turn; the first one holds it
    task,    \* [Callers -> what the task is doing]
    calls,   \* calls made so far
    asks,    \* requests made so far
    left     \* ghost: requests nobody waits for any more: [server, id, how]

vars == <<kind, client, server, lock, task, calls, asks, left>>

Lsp     == {"lsp", "shared"}
Servers == 1..MaxServers
Nobody  == 0

(* next: request_id. pending: ids with a parked sender. queue: requests on their
   way to MCP's writer task. pipe, asked, out: unread by the server, unanswered
   by it, unread by us. A request is [id, call], call telling requests apart. *)
Unborn == [alive |-> FALSE, reads |-> FALSE, writes |-> FALSE, spawned |-> FALSE,
           next |-> 1, pending |-> {}, queue |-> <<>>, pipe |-> <<>>, asked |-> {},
           out |-> <<>>]
Abandoned == [Unborn EXCEPT !.spawned = TRUE]
Born   == [Unborn EXCEPT !.alive = TRUE, !.reads = TRUE, !.writes = TRUE, !.spawned = TRUE]

Answer(id, call, body) == [to |-> id, call |-> call, body |-> body]
Nothing == Answer(0, Nobody, "nothing")
Garbage == Answer(0, Nobody, "garbage")

Idle == [pc |-> "idle", server |-> Nobody, id |-> 0, call |-> Nobody, starting |-> FALSE,
         got |-> Nothing, result |-> "none"]

Init ==
    /\ kind \in Kinds
    /\ client = IF kind = "lsp" THEN Nobody ELSE 1
    /\ server = [p \in Servers |-> IF p = 1 /\ kind # "lsp" THEN Born ELSE Unborn]
    /\ lock = <<>>
    /\ task = [c \in Callers |-> Idle]
    /\ calls = 0 /\ asks = 0 /\ left = {}

-------------------------------------------------------------------------------
\* Mutant: the manager's mutex lets everyone in.
NoLock(c) == TRUE
Holds(c)  == kind = "shared" \/ (lock # <<>> /\ Head(lock) = c)
\* the mutex's queue without c, who is in it once or not at all
Leave(c)  == IF \A k \in DOMAIN lock : lock[k] # c THEN lock
             ELSE [k \in 1..(Len(lock) - 1) |->
                     IF \E l \in 1..k : lock[l] = c THEN lock[k + 1] ELSE lock[k]]
Mine(c)   == server[task[c].server]
Request(c) == [id |-> task[c].id, call |-> task[c].call]

(* The call ends for the task, and the mutex with it. *)
End(c, result) ==
    /\ task' = [task EXCEPT ![c] =
                   IF result = "ok" THEN [@ EXCEPT !.pc = "done", !.result = "ok"]
                   ELSE [Idle EXCEPT !.pc = "done", !.result = result]]
    /\ lock' = Leave(c)

Leaves(c, how) == left' = IF task[c].id = 0 THEN left
                          ELSE left \cup {[server |-> task[c].server, id |-> task[c].id, how |-> how]}

(* A task calls a tool of the server. *)
Call(c) ==
    /\ task[c].pc \in {"idle", "done"} /\ calls < MaxCalls[kind]
    /\ calls' = calls + 1
    /\ task' = [task EXCEPT ![c] = [Idle EXCEPT !.pc = "lock"]]
    /\ lock' = IF kind = "shared" THEN lock ELSE Append(lock, c)
    /\ UNCHANGED <<kind, client, server, asks, left>>

(* A server the manager or a task still knows. Its process lives on after a
   start that failed, but no task can see what it does, and its record is reset. *)
Known(p) == p = client \/ \E c \in Callers : task[c].server = p /\ task[c].pc # "done"

(* ensure_started: the manager's client if there is one, dead or alive; else a new
   process, whose first request is initialize. *)
Unspawned == {p \in Servers : ~server[p].spawned}
Enter(c) ==
    /\ task[c].pc = "lock" /\ Holds(c)
    /\ \/ /\ client # Nobody
          /\ task' = [task EXCEPT ![c].pc = "ask", ![c].server = client]
          /\ UNCHANGED <<server, lock, left>>
       \/ /\ client = Nobody
          /\ \E p \in Unspawned :
               /\ \A q \in Unspawned : p <= q
               /\ server' = [q \in Servers |-> CASE q = p -> Born
                                               [] q # p /\ server[q].spawned /\ ~Known(q) -> Abandoned
                                               [] OTHER -> server[q]]
               /\ left' = {e \in left : Known(e.server)}
               /\ task' = [task EXCEPT ![c].pc = "ask", ![c].server = p, ![c].starting = TRUE]
          /\ UNCHANGED lock
       \/ /\ client = Nobody /\ End(c, "error")   \* SpawnFailed
          /\ UNCHANGED <<server, left>>
    /\ UNCHANGED <<kind, client, calls, asks>>

\* Mutant: the number is that of the next free place.
NextPlace(p)  == Cardinality(server[p].pending) + 1
\* fetch_add
NextNumber(p) == server[p].next

(* send_request parks the sender before it writes; MCP's request hands both to the
   writer task, waiting for room, and fails when that task has gone. *)
Ask(c) ==
    /\ task[c].pc = "ask"
    /\ LET p == task[c].server
           id == NextNumber(p)
           parked == [Mine(c) EXCEPT !.next = @ + 1] IN
       \/ /\ kind \in Lsp
          /\ server' = [server EXCEPT ![p] = [parked EXCEPT !.pending = @ \cup {id}]]
          /\ task' = [task EXCEPT ![c].pc = "write", ![c].id = id, ![c].call = asks + 1]
          /\ asks' = asks + 1 /\ UNCHANGED <<lock, left>>
       \/ /\ kind = "mcp" /\ Mine(c).writes /\ Len(Mine(c).queue) < Room
          /\ server' = [server EXCEPT ![p] =
                          [parked EXCEPT !.queue = Append(@, [id |-> id, call |-> asks + 1])]]
          /\ task' = [task EXCEPT ![c].pc = "wait", ![c].id = id, ![c].call = asks + 1]
          /\ asks' = asks + 1 /\ UNCHANGED <<lock, left>>
       \/ /\ kind = "mcp" /\ ~Mine(c).writes
          /\ End(c, "error") /\ UNCHANGED <<server, asks, left>>
    /\ UNCHANGED <<kind, client, calls>>

(* LSP: the task writes its own request; a dead server fails the write, and the
   parked sender stays where it is. *)
Write(c) ==
    /\ task[c].pc = "write"
    /\ \/ /\ Mine(c).alive /\ Len(Mine(c).pipe) < Room
          /\ server' = [server EXCEPT ![task[c].server].pipe = Append(@, Request(c))]
          /\ task' = [task EXCEPT ![c].pc = "wait"]
          /\ UNCHANGED <<lock, left>>
       \/ /\ ~Mine(c).alive
          /\ End(c, "error") /\ Leaves(c, "write failed") /\ UNCHANGED server
    /\ UNCHANGED <<kind, client, calls, asks>>

(* MCP's writer task parks the sender and writes. A failed write ends the task,
   and the requests still queued lose their senders. *)
Writer(p) ==
    /\ kind = "mcp" /\ server[p].writes /\ server[p].queue # <<>>
    /\ server[p].alive => Len(server[p].pipe) < Room
    /\ LET req == Head(server[p].queue)
           parked == [server[p] EXCEPT !.pending = @ \cup {req.id}] IN
       server' = [server EXCEPT ![p] =
           IF server[p].alive
           THEN [parked EXCEPT !.queue = Tail(@), !.pipe = Append(@, req)]
           ELSE [parked EXCEPT !.queue = <<>>, !.writes = FALSE]]
    /\ UNCHANGED <<kind, client, lock, task, calls, asks, left>>

-------------------------------------------------------------------------------
(* The server reads, answers what it has read in any order or never, and may die.
   It numbers requests of its own from 1, and may send what ends the reader: a message
   the LSP client cannot parse, or a line for the MCP one that is no text. *)
Reads(p) ==
    /\ Known(p) /\ server[p].alive /\ server[p].pipe # <<>>
    /\ server' = [server EXCEPT ![p].pipe = Tail(@), ![p].asked = @ \cup {Head(server[p].pipe)}]
    /\ UNCHANGED <<kind, client, lock, task, calls, asks, left>>

Bodies == {"value", "null", "error"}
Answers(p) ==
    /\ Known(p) /\ server[p].alive /\ Len(server[p].out) < Room
    /\ \E req \in server[p].asked, body \in Bodies :
         server' = [server EXCEPT ![p].asked = @ \ {req},
                                  ![p].out = Append(@, Answer(req.id, req.call, body))]
    /\ UNCHANGED <<kind, client, lock, task, calls, asks, left>>

Speaks(p) ==
    /\ Known(p) /\ server[p].alive /\ Len(server[p].out) < Room
    /\ \E m \in {Garbage} \cup {Answer(n, Nobody, "own") : n \in OwnNumbers} :
         server' = [server EXCEPT ![p].out = Append(@, m)]
    /\ UNCHANGED <<kind, client, lock, task, calls, asks, left>>

Dies(p) ==
    /\ Known(p) /\ server[p].alive
    /\ server' = [server EXCEPT ![p].alive = FALSE, ![p].pipe = <<>>, ![p].asked = {}]
    /\ UNCHANGED <<kind, client, lock, task, calls, asks, left>>

(* dispatch_incoming: any message with a parked number, a request of the server's
   own included, is the answer. MCP passes on a result or an error, and drops the
   sender when there is neither, as in a request of the server's own. *)
Waits(c, p, id) == /\ task[c].pc \in {"write", "wait"}
                   /\ task[c].server = p /\ task[c].id = id
Passed(m) == kind \in Lsp \/ m.body \notin {"null", "own"}

Pump(p) ==
    /\ Known(p) /\ server[p].reads /\ server[p].out # <<>>
    /\ LET m == Head(server[p].out)
           hit == m.to \in server[p].pending IN
       /\ server' = [server EXCEPT ![p].out = Tail(@), ![p].pending = @ \ {m.to},
                                   ![p].reads = m # Garbage]
       /\ task' = [c \in Callers |-> IF hit /\ Waits(c, p, m.to) /\ Passed(m)
                                     THEN [task[c] EXCEPT !.got = m] ELSE task[c]]
       /\ left' = {e \in left : ~hit \/ e.server # p \/ e.id # m.to}
    /\ UNCHANGED <<kind, client, lock, calls, asks>>

PumpEnds(p) ==
    /\ Known(p) /\ server[p].reads /\ ~server[p].alive /\ server[p].out = <<>>
    /\ server' = [server EXCEPT ![p].reads = FALSE]
    /\ UNCHANGED <<kind, client, lock, task, calls, asks, left>>

-------------------------------------------------------------------------------
(* The answer is there. A server that initialized becomes the manager's client,
   if the notification that follows can be written, and the call goes on. *)
Succeeded(m) == m.body # "error"
Wake(c) ==
    /\ task[c].pc = "wait" /\ task[c].got # Nothing
    /\ LET ok == Succeeded(task[c].got) IN
       IF ~task[c].starting
          THEN End(c, IF ok THEN "ok" ELSE "error") /\ UNCHANGED client
          ELSE \/ /\ ok /\ Mine(c).alive
                  /\ client' = task[c].server
                  /\ task' = [task EXCEPT ![c] = [Idle EXCEPT !.pc = "ask", !.server = task[c].server]]
                  /\ UNCHANGED lock
               \/ /\ ~ok \/ ~Mine(c).alive
                  /\ End(c, "error") /\ UNCHANGED client
    /\ UNCHANGED <<kind, server, calls, asks, left>>

\* Mutant: the sender of a request that timed out stays parked.
ForgetNothing(s, id) == s
\* self.pending.remove(&id), which only the LSP client does
Forget(s, id) == IF kind \in Lsp THEN [s EXCEPT !.pending = @ \ {id}] ELSE s

\* Mutant: no timeout while the server lives.
PatientTimeout(c) ==
    /\ task[c].pc = "wait" /\ task[c].got = Nothing /\ ~Mine(c).alive
    /\ server' = [server EXCEPT ![task[c].server] = Forget(@, task[c].id)]
    /\ End(c, "error") /\ Leaves(c, "timeout")
    /\ UNCHANGED <<kind, client, calls, asks>>

(* 30 seconds have passed. *)
Timeout(c) ==
    /\ task[c].pc = "wait" /\ task[c].got = Nothing
    /\ server' = [server EXCEPT ![task[c].server] = Forget(@, task[c].id)]
    /\ End(c, "error") /\ Leaves(c, "timeout")
    /\ UNCHANGED <<kind, client, calls, asks>>

(* MCP: the sender was dropped without a word, by a message that had neither
   result nor error, by the writer's end or with the map when both tasks ended. *)
SenderGone(c) ==
    LET s == Mine(c) IN
    \/ ~s.reads /\ ~s.writes
    \/ task[c].id \notin s.pending /\ \A k \in DOMAIN s.queue : s.queue[k].id # task[c].id
Closed(c) ==
    /\ kind = "mcp" /\ task[c].pc = "wait" /\ task[c].got = Nothing /\ SenderGone(c)
    /\ End(c, "error") /\ UNCHANGED left
    /\ UNCHANGED <<kind, client, server, calls, asks>>

(* The task's future is dropped, the mutex with it. *)
Cancel(c) ==
    /\ task[c].pc \in {"lock", "ask", "write", "wait"}
    /\ End(c, "cancelled") /\ Leaves(c, "cancelled")
    /\ UNCHANGED <<kind, client, server, calls, asks>>

Step(c)  == Enter(c) \/ Ask(c) \/ Write(c) \/ Wake(c) \/ Timeout(c) \/ Closed(c)
Reader(p) == Pump(p) \/ PumpEnds(p)
Quiet    == /\ calls = MaxCalls[kind] /\ \A c \in Callers : task[c].pc \in {"idle", "done"}
            /\ UNCHANGED vars
Next == \/ \E c \in Callers : Call(c) \/ Step(c) \/ Cancel(c)
        \/ \E p \in Servers : Writer(p) \/ Reader(p) \/ Reads(p) \/ Answers(p) \/ Speaks(p) \/ Dies(p)
        \/ Quiet

(* Tasks are scheduled and clocks run. A living server reads its input: one that does
   not, perhaps because nobody drains the errors it prints, blocks a write, which has
   no timeout, for ever; of LSP in the call itself, of MCP in the writer task, behind
   which the calls then wait for room. *)
Fairness == /\ \A c \in Callers : WF_vars(Step(c))
            /\ \A p \in Servers : WF_vars(Writer(p)) /\ WF_vars(Reader(p)) /\ WF_vars(Reads(p))
Spec == Init /\ [][Next]_vars /\ Fairness

-------------------------------------------------------------------------------
Messages == [to : Nat, call : Nat, body : Bodies \cup {"nothing", "garbage", "own"}]
Requests == [id : Nat \ {0}, call : Nat \ {0}]

TypeOK ==
    /\ kind \in Kinds /\ client \in Servers \cup {Nobody}
    /\ client # Nobody => server[client].spawned
    /\ \A p \in Servers :
         LET s == server[p] IN
         /\ s.pending \subseteq 1..(s.next - 1)
         /\ s.queue \in Seq(Requests) /\ s.pipe \in Seq(Requests) /\ s.asked \subseteq Requests
         /\ s.out \in Seq(Messages)
         /\ Len(s.queue) <= Room /\ Len(s.pipe) <= Room /\ Len(s.out) <= Room
         /\ ~s.spawned => s = Unborn
    /\ \A c \in Callers :
         /\ task[c].pc \in {"idle", "lock", "ask", "write", "wait", "done"}
         /\ task[c].got \in Messages
         /\ task[c].result \in {"none", "ok", "error", "cancelled"}
    \* the mutex's queue is the calls under way, each once
    /\ kind # "shared" => {lock[k] : k \in DOMAIN lock}
                            = {c \in Callers : task[c].pc \notin {"idle", "done"}}
    /\ \A k, l \in DOMAIN lock : lock[k] = lock[l] => k = l

(* A call that succeeds returns the server's answer to its own request, whatever
   timed out before it, was cancelled or is answered late and out of order. The
   exception is the LSP client's: a request of the server's own under the same
   number is taken for the answer. (To the MCP client such a call fails.) *)
OwnAnswer ==
    \A c \in Callers : task[c].result = "ok" =>
        /\ task[c].got.body # "error"
        /\ task[c].got.call = task[c].call \/ (kind \in Lsp /\ task[c].got.body = "own")

(* A parked sender has a task waiting for it, except where the code forgets to
   take it back: after a cancelled call, after an LSP write that failed and after
   an MCP timeout, while the server stays silent. *)
ParkedIsAwaited ==
    \A p \in Servers : \A id \in server[p].pending :
        \/ \E c \in Callers : Waits(c, p, id)
        \/ \E e \in left : /\ e.server = p /\ e.id = id
                            /\ e.how \in {"cancelled", IF kind = "mcp" THEN "timeout" ELSE "write failed"}
        \/ kind = "mcp" /\ ~server[p].reads /\ ~server[p].writes

(* The manager has one server: the one it holds, or one that is being started. *)
StartedOnce ==
    Cardinality({p \in Servers : \/ p = client
                                 \/ \E c \in Callers : /\ task[c].starting /\ task[c].server = p
                                                       /\ task[c].pc # "done"}) <= 1

(* Whatever happens to a call, it leaves neither a sender nobody waits for nor a
   second server behind. *)
NothingLeftBehind == ParkedIsAwaited /\ StartedOnce

(* Every call comes back: the server may be slow, silent, dead or talking
   nonsense, and other calls may hold the mutex before it. *)
EveryCallEnds == \A c \in Callers : (task[c].pc = "lock") ~> (task[c].pc = "done")
================================================================================
