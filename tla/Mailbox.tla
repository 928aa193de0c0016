------------------------------- MODULE Mailbox --------------------------------
(* A topic of the mailbox between sandboxes (cersei-vms/src/primitives/mailbox.rs)*)
(* with the tools that use it, SendVmMessage and RecvVmMessage                   *)
(* (cersei-tools/src/vm_tools.rs).                                               *)
(*                                                                               *)
(* Publishers and sandboxes are on threads of their own; the calls of one sandbox *)
(* are polled by one task, in turns. A topic's channel is tokio's broadcast: it   *)
(* keeps the newest Capacity messages, and a receiver that has fallen behind is   *)
(* told by how many.                                                             *)
EXTENDS Integers, Sequences, FiniteSets

CONSTANTS Publishers,   \* threads that publish
          Readers,      \* calls of RecvVmMessage that may run at once
          Boxes,        \* sandboxes, each with one subscription
          BoxOf,        \* [Readers -> Boxes]
          Capacity,     \* of a channel, 256
          MaxSeq,       \* bound: numbers given out
          MaxReads      \* bound: receive calls

VARIABLES
    topic,      \* MailboxInner.topics at the topic: a channel, or none
    log,        \* [channel -> messages sent into it, the oldest overwritten ones included]
    seq,        \* MailboxInner.seq
    pc,         \* [thread -> where it is in publish, or in a receive call]
    chan,       \* [thread -> the sender ensure_topic gave it]
    number,     \* [publisher -> the number of its message]
    sub,        \* SubscriptionRegistry: [box -> its receiver: a channel and a position]
    lock,       \* [box -> the call that holds the receiver's mutex]
    reads,      \* how many receive calls began
    sent,       \* ghost: all messages, in the order they were sent
    since,      \* ghost: [box -> how many of them before it subscribed]
    got         \* ghost: [box -> what its calls returned]

channels == <<topic, log>>
books    == <<sub, lock>>
ghosts   == <<sent, since, got>>
vars     == <<channels, seq, pc, chan, number, books, reads, ghosts>>

Threads == Publishers \cup Readers
None == "none"
\* a message the channel overwrote before it was received
Lost == [from |-> None, seq |-> 0]
\* a thread that makes a channel makes its own
Channels == Threads
Receivers(c) == {b \in Boxes : sub[b].chan = c}

Init ==
    /\ topic = None /\ log = [c \in Channels |-> <<>>] /\ seq = 0
    /\ pc = [t \in Threads |-> "idle"] /\ chan = [t \in Threads |-> None]
    /\ number = [p \in Publishers |-> 0]
    /\ sub = [b \in Boxes |-> [chan |-> None, next |-> 1]] /\ lock = [b \in Boxes |-> None]
    /\ reads = 0
    /\ sent = <<>> /\ since = [b \in Boxes |-> 0] /\ got = [b \in Boxes |-> <<>>]

Goes(t, from, to) == pc[t] = from /\ pc' = [pc EXCEPT ![t] = to]

-------------------------------------------------------------------------------
(* ensure_topic: a look, and, when it found nothing, a channel of its own that is  *)
(* kept unless somebody else's is there by then                                  *)

Look(t) ==
    /\ Goes(t, "look", IF topic = None THEN "make" ELSE "ready")
    /\ chan' = [chan EXCEPT ![t] = topic]
    /\ UNCHANGED <<channels, seq, number, books, reads, ghosts>>

\* Mutant: insert, whatever is there.
MakeAnyway(t) ==
    /\ Goes(t, "make", "ready")
    /\ topic' = t
    /\ chan' = [chan EXCEPT ![t] = topic']
    /\ UNCHANGED <<log, seq, number, books, reads, ghosts>>

Make(t) ==
    /\ Goes(t, "make", "ready")
    /\ topic' = IF topic = None THEN t ELSE topic
    /\ chan' = [chan EXCEPT ![t] = topic']
    /\ UNCHANGED <<log, seq, number, books, reads, ghosts>>

-------------------------------------------------------------------------------
(* publish *)

Publish(p) ==
    /\ seq < MaxSeq
    /\ Goes(p, "idle", "look")
    /\ UNCHANGED <<channels, seq, chan, number, books, reads, ghosts>>

\* Mutant: a load and a store where fetch_add is, so that a number may be given twice.
NumberRead(p) ==
    /\ Goes(p, "ready", "send") /\ seq < MaxSeq
    /\ number' = [number EXCEPT ![p] = seq]
    /\ seq' = IF \E q \in Publishers : pc[q] = "send" THEN seq ELSE seq + 1
    /\ UNCHANGED <<channels, chan, books, reads, ghosts>>

Number(p) ==
    /\ Goes(p, "ready", "send") /\ seq < MaxSeq
    /\ number' = [number EXCEPT ![p] = seq]
    /\ seq' = seq + 1
    /\ UNCHANGED <<channels, chan, books, reads, ghosts>>

\* a topic nobody listens to drops the message
Send(p) ==
    /\ Goes(p, "send", "idle")
    /\ LET msg == [from |-> p, seq |-> number[p]] IN
       /\ sent' = Append(sent, msg)
       /\ log' = IF Receivers(chan[p]) = {} THEN log ELSE [log EXCEPT ![chan[p]] = Append(@, msg)]
    /\ chan' = [chan EXCEPT ![p] = None] /\ number' = [number EXCEPT ![p] = 0]
    /\ UNCHANGED <<topic, seq, books, reads, since, got>>

-------------------------------------------------------------------------------
(* RecvVmMessage *)

\* The first call of a sandbox subscribes. Up to the receiver's mutex a call does not
\* await, so no other call of the sandbox comes between.
Receive(r) ==
    /\ reads < MaxReads /\ reads' = reads + 1
    /\ \A q \in Readers : BoxOf[q] = BoxOf[r] => pc[q] \notin {"look", "make", "ready"}
    /\ Goes(r, "idle", IF sub[BoxOf[r]].chan = None THEN "look" ELSE "wait")
    /\ UNCHANGED <<channels, seq, chan, number, books, ghosts>>

Subscribe(r) ==
    LET b == BoxOf[r] IN
    /\ Goes(r, "ready", "wait")
    /\ sub' = [sub EXCEPT ![b] = [chan |-> chan[r], next |-> Len(log[chan[r]]) + 1]]
    /\ since' = [since EXCEPT ![b] = Len(sent)]
    /\ chan' = [chan EXCEPT ![r] = None]
    /\ UNCHANGED <<channels, seq, number, lock, reads, sent, got>>

Lock(r) ==
    /\ lock[BoxOf[r]] = None
    /\ Goes(r, "wait", "recv")
    /\ lock' = [lock EXCEPT ![BoxOf[r]] = r]
    /\ UNCHANGED <<channels, seq, chan, number, sub, reads, ghosts>>

Pending(b) == Len(log[sub[b].chan]) - sub[b].next + 1

Returns(r, what) ==
    /\ Goes(r, "recv", "idle")
    /\ lock' = [lock EXCEPT ![BoxOf[r]] = None]
    /\ got' = [got EXCEPT ![BoxOf[r]] = @ \o what]
    /\ UNCHANGED <<channels, seq, chan, number, reads, sent, since>>

Recv(r) ==
    LET b == BoxOf[r] IN
    /\ pc[r] = "recv" /\ Pending(b) \in 1..Capacity
    /\ sub' = [sub EXCEPT ![b].next = @ + 1]
    /\ Returns(r, <<log[sub[b].chan][sub[b].next]>>)

\* Mutant: the call goes on to the next message and tells nobody.
LagsUntold(r) ==
    LET b == BoxOf[r]
        missed == Pending(b) - Capacity IN
    /\ pc[r] = "recv" /\ missed > 0
    /\ sub' = [sub EXCEPT ![b].next = @ + missed]
    /\ Returns(r, <<>>)

(* Lagged: the receiver goes on from the oldest message the channel still has. *)
Lags(r) ==
    LET b == BoxOf[r]
        missed == Pending(b) - Capacity IN
    /\ pc[r] = "recv" /\ missed > 0
    /\ sub' = [sub EXCEPT ![b].next = @ + missed]
    /\ Returns(r, [i \in 1..missed |-> Lost])

(* The timer fires while the call waits for the mutex or for a message. *)
TimesOut(r) ==
    /\ \/ Goes(r, "wait", "idle") /\ lock[BoxOf[r]] # None /\ UNCHANGED lock
       \/ Goes(r, "recv", "idle") /\ Pending(BoxOf[r]) = 0 /\ lock' = [lock EXCEPT ![BoxOf[r]] = None]
    /\ UNCHANGED <<channels, seq, chan, number, sub, reads, ghosts>>

Quiet == /\ reads = MaxReads /\ seq = MaxSeq
         /\ \A t \in Threads : pc[t] \in {"idle", "look", "make", "ready"}
         /\ UNCHANGED vars

Next ==
    \/ \E t \in Threads : Look(t) \/ Make(t)
    \/ \E p \in Publishers : Publish(p) \/ Number(p) \/ Send(p)
    \/ \E r \in Readers : Receive(r) \/ Subscribe(r) \/ Lock(r) \/ Recv(r) \/ Lags(r) \/ TimesOut(r)
    \/ Quiet

Spec == Init /\ [][Next]_vars

-------------------------------------------------------------------------------
Messages == [from : Publishers, seq : 0..MaxSeq]

TypeOK ==
    /\ topic \in Channels \cup {None} /\ log \in [Channels -> Seq(Messages)]
    /\ seq \in 0..MaxSeq /\ reads \in 0..MaxReads
    /\ pc \in [Threads -> {"idle", "look", "make", "ready", "send", "wait", "recv"}]
    /\ chan \in [Threads -> Channels \cup {None}] /\ number \in [Publishers -> 0..MaxSeq]
    /\ sub \in [Boxes -> [chan : Channels \cup {None}, next : Nat \ {0}]]
    /\ lock \in [Boxes -> Readers \cup {None}]
    /\ sent \in Seq(Messages) /\ since \in [Boxes -> Nat] /\ got \in [Boxes -> Seq(Messages \cup {Lost})]

\* no number is given twice, and those of one publisher arrive in the order it sent them
Numbered ==
    \A i, j \in DOMAIN sent : i < j =>
        /\ sent[i].seq # sent[j].seq
        /\ sent[i].from = sent[j].from => sent[i].seq < sent[j].seq

(* What a sandbox receives is what was sent since it subscribed, from the first message
   on and in the order of all other sandboxes; what it missed it was told of, which
   happens only to messages a full channel has overwritten; and the rest is waiting. *)
MailArrives ==
    /\ Numbered
    /\ \A b \in Boxes : sub[b].chan # None =>
         /\ Len(got[b]) + Pending(b) = Len(sent) - since[b]
         /\ \A k \in DOMAIN got[b] :
              /\ got[b][k] # Lost => got[b][k] = sent[since[b] + k]
              /\ got[b][k] = Lost => since[b] + k + Capacity <= Len(sent)
===============================================================================
