---------------------------- MODULE TerminalProof ----------------------------
(* Consent is real, for any number of tools, calls and runs. The argument: a      *)
(* sender is in one place only, in the channel or behind the overlay, and the     *)
(* overlay shows the call whose sender it holds. So an answer reaches the call it *)
(* is shown for; and a call that has asked does so once, so a key in the queue is *)
(* for the call shown, or for none that still asks. The answers on the screen are *)
(* whole, as long as nothing is cancelled: that argument is the second part.      *)
EXTENDS Terminal, TLAPS, SequenceTheorems

CallAt(id) == call[id[1]][id[2]]
Known(id)  == id \in Runs \X Nat /\ id[2] \in DOMAIN call[id[1]]

(* The sender of a call that has not been answered, or of one that died asking. *)
Waits(id) == Known(id) /\ (CallAt(id).at = "over" \/ (CallAt(id).at = "asked" /\ CallAt(id).reply = "none"))

CallType == call \in [Runs -> Seq(Calls)] /\ remembered \subseteq Tools

Senders ==
    /\ requests \in Seq(Runs \X Nat)
    /\ pending = Nobody \/ Waits(pending)
    /\ overlay = "permission" => shown = pending /\ pending # Nobody
    /\ \A k \in 1..Len(requests) :
         /\ Waits(requests[k]) /\ requests[k] # pending
         /\ \A l \in 1..Len(requests) : l # k => requests[l] # requests[k]

Sound(r, i, c) ==
    /\ c.at \in {"check", "send", "over"} => c.reply = "none"
    /\ c.at # "decided" => c.why = "none"
    /\ c.why = "user" => c.reply \in Replies
    /\ c.why = "remembered" => c.tool \in remembered
    /\ c.reply \in Replies => [call |-> <<r, i>>, reply |-> c.reply] \in said

Vouched(tool) ==
    \E s \in said : s.reply = "always" /\ Known(s.call) /\ CallAt(s.call).tool = tool

Answers ==
    /\ \A r \in Runs : \A i \in DOMAIN call[r] : Sound(r, i, call[r][i])
    /\ \A tool \in remembered : Vouched(tool)

IInv == CallType /\ mode \in Nat /\ Senders /\ Answers

-------------------------------------------------------------------------------
(* Replacing one call of one run. *)
LEMMA OneCall ==
    ASSUME CallType, NEW r \in Runs, NEW i \in DOMAIN call[r], NEW c \in Calls,
           call' = [call EXCEPT ![r] = [@ EXCEPT ![i] = c]]
    PROVE  /\ call' \in [Runs -> Seq(Calls)]
           /\ \A q \in Runs : DOMAIN call'[q] = DOMAIN call[q]
           /\ \A q \in Runs : \A j \in DOMAIN call[q] :
                call'[q][j] = IF q = r /\ j = i THEN c ELSE call[q][j]
<1>1. call[r] \in Seq(Calls) /\ call \in [Runs -> Seq(Calls)]
  BY DEF CallType
<1> DEFINE mine == [call[r] EXCEPT ![i] = c]
<1>2. mine \in Seq(Calls) /\ DOMAIN mine = DOMAIN call[r]
      /\ \A j \in DOMAIN call[r] : mine[j] = IF j = i THEN c ELSE call[r][j]
  BY <1>1
<1>3. call' = [call EXCEPT ![r] = mine]
  OBVIOUS
<1> HIDE DEF mine
<1> QED
  BY <1>1, <1>2, <1>3

(* What that does to the invariant: the new call has to be sound, and every sender
   but its own is where it was. *)
LEMMA OneAnswer ==
    ASSUME CallType, Answers, NEW r \in Runs, NEW i \in DOMAIN call[r], NEW c \in Calls,
           call' = [call EXCEPT ![r] = [@ EXCEPT ![i] = c]],
           c.tool = call[r][i].tool, said \subseteq said',
           remembered \subseteq remembered', remembered' \subseteq Tools,
           Sound(r, i, c)',
           \A tool \in remembered' \ remembered :
             \E s \in said : s.reply = "always" /\ Known(s.call) /\ CallAt(s.call).tool = tool
    PROVE  CallType' /\ Answers'
<1>1. /\ call' \in [Runs -> Seq(Calls)]
      /\ \A q \in Runs : DOMAIN call'[q] = DOMAIN call[q]
      /\ \A q \in Runs : \A j \in DOMAIN call[q] :
           call'[q][j] = IF q = r /\ j = i THEN c ELSE call[q][j]
  BY OneCall
<1>2. CallType'
  BY <1>1 DEF CallType
<1>3. ASSUME NEW q \in Runs, NEW j \in DOMAIN call'[q]
      PROVE  Sound(q, j, call[q][j])'
  <2>1. CASE q = r /\ j = i
    BY <1>1, <2>1
  <2>2. CASE ~(q = r /\ j = i)
    <3>1. Sound(q, j, call[q][j]) /\ call'[q][j] = call[q][j]
      BY <1>1, <2>2 DEF Answers
    <3> QED
      BY <3>1 DEF Sound
  <2> QED
    BY <2>1, <2>2
<1>4. ASSUME NEW tool \in remembered'
      PROVE  Vouched(tool)'
  <2>1. PICK s \in said : s.reply = "always" /\ Known(s.call) /\ CallAt(s.call).tool = tool
    BY DEF Answers, Vouched
  <2>2. s.call[1] \in Runs /\ s.call[2] \in DOMAIN call[s.call[1]] /\ s.call \in Runs \X Nat
    BY <2>1 DEF Known
  <2>3. call'[s.call[1]][s.call[2]].tool = tool /\ s.call[2] \in DOMAIN call'[s.call[1]]
    BY <1>1, <2>1, <2>2 DEF CallAt
  <2> QED
    BY <2>1, <2>2, <2>3 DEF Vouched, Known, CallAt
<1> QED
  BY <1>2, <1>3, <1>4 DEF Answers

LEMMA OneSender ==
    ASSUME CallType, NEW r \in Runs, NEW i \in DOMAIN call[r], NEW c \in Calls,
           call' = [call EXCEPT ![r] = [@ EXCEPT ![i] = c]],
           NEW id, Waits(id), id # <<r, i>>
    PROVE  Waits(id)'
<1>1. /\ \A q \in Runs : DOMAIN call'[q] = DOMAIN call[q]
      /\ \A q \in Runs : \A j \in DOMAIN call[q] :
           call'[q][j] = IF q = r /\ j = i THEN c ELSE call[q][j]
  BY OneCall
<1>2. id \in Runs \X Nat /\ id[2] \in DOMAIN call[id[1]] /\ id = <<id[1], id[2]>>
  BY DEF Waits, Known
<1>3. call'[id[1]][id[2]] = call[id[1]][id[2]]
  BY <1>1, <1>2
<1> QED
  BY <1>1, <1>2, <1>3 DEF Waits, Known, CallAt

(* A step that changes one call, none that waits, and no sender. *)
LEMMA OneQuiet ==
    ASSUME IInv, NEW r \in Runs, NEW i \in DOMAIN call[r], NEW c \in Calls,
           call' = [call EXCEPT ![r] = [@ EXCEPT ![i] = c]],
           c.tool = call[r][i].tool, UNCHANGED <<requests, dialog, mode>>,
           remembered \subseteq remembered', remembered' \subseteq Tools,
           Sound(r, i, c)', ~Waits(<<r, i>>),
           \A tool \in remembered' \ remembered :
             \E s \in said : s.reply = "always" /\ Known(s.call) /\ CallAt(s.call).tool = tool
    PROVE  IInv'
<1>1. CallType' /\ Answers'
  BY OneAnswer DEF IInv, dialog
<1>2. \A id : Waits(id) => Waits(id)'
  BY OneSender DEF IInv
<1>3. Senders'
  BY <1>2 DEF IInv, Senders, dialog
<1> QED
  BY <1>1, <1>3 DEF IInv

-------------------------------------------------------------------------------
LEMMA InitInv == Init => IInv
<1> SUFFICES ASSUME Init PROVE IInv
  OBVIOUS
<1>1. CallType
  BY EmptySeq DEF Init, CallType
<1>2. Len(requests) = 0 /\ requests \in Seq(Runs \X Nat)
  BY EmptySeq DEF Init
<1>3. Senders
  BY <1>2 DEF Init, Senders
<1>4. DOMAIN <<>> = {}
  OBVIOUS
<1>5. Answers
  BY <1>4 DEF Init, Answers
<1> QED
  BY <1>1, <1>3, <1>5 DEF IInv, Init

(* The calls of a batch *)

(* What the policy decides on the spot. *)
LEMMA VerdictSound ==
    ASSUME mode \in Nat, NEW c \in Calls, c.at = "check", c.reply = "none", c.why = "none"
    PROVE  /\ Verdict(c) \in Calls /\ Verdict(c).tool = c.tool /\ Verdict(c).reply = "none"
           /\ \/ Verdict(c).at = "send" /\ Verdict(c).why = "none"
              \/ Verdict(c).at = "decided" /\ Verdict(c).why \in {"mode", "level"}
              \/ Verdict(c).at = "decided" /\ Verdict(c).why = "remembered" /\ c.tool \in remembered
<1>1. Level[c.tool] \in {"safe", "write", "shell", "forbidden"}
  BY TerminalAssumption DEF Calls, Levels
<1>2. \/ Verdict(c) = [c EXCEPT !.at = "send"]
      \/ \E allowed \in BOOLEAN, why \in {"mode", "level"} : Verdict(c) = Decided(c, allowed, why)
      \/ Verdict(c) = Decided(c, TRUE, "remembered") /\ c.tool \in remembered
  <2>1. CASE Mode = "plan"
    BY <2>1 DEF Verdict
  <2>2. CASE Mode = "editor"
    BY <2>2 DEF Verdict
  <2>3. CASE Mode \in {"bypass", "bypassAlert"}
    BY <2>3 DEF Verdict
  <2>4. CASE Mode = "auto"
    BY <1>1, <2>4 DEF Verdict
  <2>5. Mode \in {"auto", "plan", "editor", "bypass", "bypassAlert"}
    <3>1. (mode % 5) + 1 \in 1..5
      OBVIOUS
    <3> QED
      BY <3>1 DEF Mode, Modes
  <2> QED
    BY <2>1, <2>2, <2>3, <2>4, <2>5
<1>3. ASSUME NEW allowed \in BOOLEAN, NEW why \in {"mode", "level", "remembered"}
      PROVE  /\ Decided(c, allowed, why) \in Calls /\ Decided(c, allowed, why).tool = c.tool
             /\ Decided(c, allowed, why).reply = "none" /\ Decided(c, allowed, why).at = "decided"
             /\ Decided(c, allowed, why).why = why
  BY DEF Decided, Calls
<1>4. LET d == [c EXCEPT !.at = "send"]
      IN  d \in Calls /\ d.tool = c.tool /\ d.reply = "none" /\ d.at = "send" /\ d.why = "none"
  BY DEF Calls
<1>5. CASE Verdict(c) = [c EXCEPT !.at = "send"]
  BY <1>4, <1>5
<1>6. CASE \E allowed \in BOOLEAN, why \in {"mode", "level"} : Verdict(c) = Decided(c, allowed, why)
  <2>1. PICK allowed \in BOOLEAN, why \in {"mode", "level"} : Verdict(c) = Decided(c, allowed, why)
    BY <1>6
  <2>2. why \in {"mode", "level", "remembered"}
    OBVIOUS
  <2> QED
    BY <1>3, <2>1, <2>2
<1>7. CASE Verdict(c) = Decided(c, TRUE, "remembered") /\ c.tool \in remembered
  BY <1>3, <1>7
<1> QED
  BY <1>2, <1>5, <1>6, <1>7

LEMMA CheckInv ==
    ASSUME IInv, NEW r \in Runs, NEW i \in DOMAIN call[r], Check(r, i)
    PROVE  IInv'
<1>1. PICK c : c = Verdict(call[r][i])
  OBVIOUS
<1>2. /\ call[r][i] \in Calls /\ call[r][i].at = "check"
      /\ call[r][i].reply = "none" /\ call[r][i].why = "none"
  <2>1. call[r][i] \in Calls /\ call[r][i].at = "check" /\ Sound(r, i, call[r][i])
    BY ElementOfSeq DEF IInv, CallType, Answers, Check
  <2> QED
    BY <2>1 DEF Sound
<1>3. /\ c \in Calls /\ c.tool = call[r][i].tool /\ c.reply = "none"
      /\ \/ c.at = "send" /\ c.why = "none"
         \/ c.at = "decided" /\ c.why \in {"mode", "level"}
         \/ c.at = "decided" /\ c.why = "remembered" /\ c.tool \in remembered
  BY <1>1, <1>2, VerdictSound DEF IInv
<1>4. UNCHANGED <<said, requests, dialog, mode, remembered>>
  BY DEF Check, dialog, asides
<1>7. Sound(r, i, c)'
  BY <1>3, <1>4 DEF Sound, Replies
<1>5. ~Waits(<<r, i>>)
  BY <1>2 DEF Waits, CallAt
<1>6. call' = [call EXCEPT ![r] = [@ EXCEPT ![i] = c]]
  BY <1>1 DEF Check
<1>8. remembered \subseteq remembered' /\ remembered' \subseteq Tools /\ remembered' \ remembered = {}
  BY <1>4 DEF IInv, CallType
<1> QED
  BY <1>3, <1>4, <1>5, <1>6, <1>7, <1>8, OneQuiet

LEMMA HearInv ==
    ASSUME IInv, NEW r \in Runs, NEW i \in DOMAIN call[r], Hear(r, i)
    PROVE  IInv'
<1>0. PICK c : c = Decided(call[r][i], call[r][i].reply \notin {"deny", "dropped"},
                           IF call[r][i].reply = "dropped" THEN "dropped" ELSE "user")
  OBVIOUS
<1>1. /\ call[r][i] \in Calls /\ call[r][i].at = "asked" /\ call[r][i].reply # "none"
      /\ Sound(r, i, call[r][i]) /\ call \in [Runs -> Seq(Calls)]
  BY ElementOfSeq DEF IInv, CallType, Answers, Hear
<1>2. /\ c \in Calls /\ c.tool = call[r][i].tool /\ c.tool \in Tools
      /\ c.reply = call[r][i].reply /\ c.at = "decided"
      /\ c.why = IF c.reply = "dropped" THEN "dropped" ELSE "user"
  BY <1>0, <1>1 DEF Decided, Calls
<1>3. /\ call' = [call EXCEPT ![r] = [@ EXCEPT ![i] = c]]
      /\ remembered' = IF c.reply = "always" THEN remembered \cup {c.tool} ELSE remembered
  BY <1>0, <1>2 DEF Hear
<1>4. c.reply \in Replies => [call |-> <<r, i>>, reply |-> c.reply] \in said
  BY <1>1, <1>2 DEF Sound
<1>5. Sound(r, i, c)'
  <2>1. c.reply \in Replies \cup {"dropped"}
    BY <1>1, <1>2 DEF Calls
  <2> QED
    BY <1>2, <1>4, <2>1 DEF Sound, Hear, dialog, Replies
<1>6. ~Waits(<<r, i>>)
  BY <1>1 DEF Waits, CallAt
<1>7. ASSUME NEW tool \in remembered' \ remembered
      PROVE  \E s \in said : s.reply = "always" /\ Known(s.call) /\ CallAt(s.call).tool = tool
  <2>1. c.reply = "always" /\ tool = c.tool /\ i \in Nat
    BY <1>1, <1>3, LenProperties
  <2> DEFINE s == [call |-> <<r, i>>, reply |-> "always"]
  <2>2. s \in said
    BY <1>4, <2>1 DEF Replies
  <2>3. Known(s.call) /\ CallAt(s.call).tool = tool
    BY <1>2, <2>1 DEF Known, CallAt
  <2> QED
    BY <2>2, <2>3
<1>8. remembered \subseteq remembered' /\ remembered' \subseteq Tools
  BY <1>2, <1>3 DEF IInv, CallType
<1> QED
  BY <1>2, <1>3, <1>5, <1>6, <1>7, <1>8, OneQuiet DEF Hear, dialog, asides, IInv

LEMMA AskInv ==
    ASSUME IInv, NEW r \in Runs, NEW i \in DOMAIN call[r], Ask(r, i)
    PROVE  IInv'
<1>1. PICK c : c = [call[r][i] EXCEPT !.at = "asked"]
  OBVIOUS
<1>2. /\ call[r][i] \in Calls /\ call[r][i].at = "send" /\ Sound(r, i, call[r][i])
      /\ call \in [Runs -> Seq(Calls)] /\ i \in Nat
  BY ElementOfSeq, LenProperties DEF IInv, CallType, Answers, Ask
<1>3. /\ c \in Calls /\ c.tool = call[r][i].tool /\ c.at = "asked"
      /\ c.reply = "none" /\ c.why = "none"
  BY <1>1, <1>2 DEF Calls, Sound
<1>4. /\ call' = [call EXCEPT ![r] = [@ EXCEPT ![i] = c]]
      /\ requests' = Append(requests, <<r, i>>)
      /\ UNCHANGED <<said, pending, shown, overlay, remembered, mode>>
  BY <1>1 DEF Ask, dialog, asides
<1>5. Sound(r, i, c)'
  BY <1>3, <1>4 DEF Sound, Replies
<1>6. remembered \subseteq remembered' /\ remembered' \subseteq Tools /\ remembered' \ remembered = {}
  BY <1>4 DEF IInv, CallType
<1>7. CallType' /\ Answers'
  BY <1>3, <1>4, <1>5, <1>6, OneAnswer DEF IInv
<1>8. ~Waits(<<r, i>>)
  BY <1>2 DEF Waits, CallAt
<1>9. Waits(<<r, i>>)'
  BY <1>2, <1>3, <1>4, OneCall DEF Waits, Known, CallAt, IInv
<1>10. \A id : Waits(id) => Waits(id)'
  BY <1>3, <1>4, <1>8, OneSender DEF IInv
<1>11. Senders'
  <2>1. <<r, i>> \in Runs \X Nat /\ requests \in Seq(Runs \X Nat)
    BY <1>2 DEF IInv, Senders
  <2>2. /\ requests' \in Seq(Runs \X Nat) /\ Len(requests') = Len(requests) + 1
        /\ requests'[Len(requests) + 1] = <<r, i>> /\ Len(requests) \in Nat
        /\ \A k \in 1..Len(requests) : requests'[k] = requests[k]
    BY <1>4, <2>1, AppendProperties, LenProperties
  <2>3. \A k \in 1..Len(requests) : Waits(requests[k])' /\ requests'[k] # <<r, i>>
    <3> TAKE k \in 1..Len(requests)
    <3>1. Waits(requests[k]) /\ requests'[k] = requests[k]
      BY <2>2 DEF IInv, Senders
    <3>2. requests[k] # <<r, i>>
      BY <1>8, <3>1
    <3>3. PICK id : id = requests[k]
      OBVIOUS
    <3>4. Waits(id)'
      BY <1>10, <3>1, <3>3
    <3> QED
      BY <3>1, <3>2, <3>3, <3>4
  <2>4. pending # <<r, i>> /\ (pending = Nobody \/ Waits(pending))'
    <3>1. Nobody # <<r, i>>
      BY DEF Nobody, NoRun, Runs
    <3>2. PICK id : id = pending
      OBVIOUS
    <3>3. id = Nobody \/ (Waits(id) /\ Waits(id)')
      BY <1>10, <3>2 DEF IInv, Senders
    <3> QED
      BY <1>4, <1>8, <3>1, <3>2, <3>3
  <2>5. ASSUME NEW k \in 1..Len(requests')
        PROVE  /\ Waits(requests[k])' /\ requests'[k] # pending'
               /\ \A l \in 1..Len(requests') : l # k => requests'[l] # requests'[k]
    <3>1. 1..Len(requests') = 1..Len(requests) \cup {Len(requests) + 1}
      BY <2>2
    <3>2. CASE k = Len(requests) + 1
      <4>1. requests'[k] = <<r, i>>
        BY <2>2, <3>2
      <4> QED
        BY <1>4, <1>9, <2>3, <2>4, <3>1, <3>2, <4>1
    <3>3. CASE k \in 1..Len(requests)
      <4>1. requests[k] # pending /\ \A l \in 1..Len(requests) : l # k => requests[l] # requests[k]
        BY <3>3 DEF IInv, Senders
      <4> QED
        BY <1>4, <2>2, <2>3, <3>1, <3>3, <4>1
    <3> QED
      BY <3>1, <3>2, <3>3
  <2>6. (overlay = "permission" => shown = pending /\ pending # Nobody)'
    BY <1>4 DEF IInv, Senders
  <2> QED
    BY <2>2, <2>4, <2>5, <2>6 DEF Senders
<1> QED
  BY <1>4, <1>7, <1>11 DEF IInv

-------------------------------------------------------------------------------
(* Calls that come and go with their batch *)

(* The calls of a run end: those that asked are over, and their senders stay. *)
LEMMA GoneInv ==
    ASSUME IInv, NEW r \in Runs, Dropped(r), UNCHANGED <<requests, remembered, overlay, shown, pending, mode>>
    PROVE  IInv'
<1>1. call \in [Runs -> Seq(Calls)] /\ call[r] \in Seq(Calls)
  BY DEF IInv, CallType
<1> DEFINE gone == [i \in DOMAIN call[r] |-> Over(call[r][i])]
<1>2. \A i \in DOMAIN call[r] :
        /\ Over(call[r][i]) \in Calls /\ Over(call[r][i]).tool = call[r][i].tool
        /\ Over(call[r][i]).at = "over" /\ Over(call[r][i]).reply = "none"
        /\ Over(call[r][i]).why = "none"
  <2> TAKE i \in DOMAIN call[r]
  <2>1. call[r][i] \in Calls
    BY <1>1, ElementOfSeq, LenProperties
  <2> QED
    BY <2>1 DEF Over, Asking, Calls
<1>3. gone \in Seq(Calls) /\ DOMAIN gone = DOMAIN call[r]
  BY <1>1, <1>2, LenProperties, IsASeq
<1>4. /\ call' \in [Runs -> Seq(Calls)]
      /\ \A q \in Runs : DOMAIN call'[q] = DOMAIN call[q]
      /\ \A q \in Runs : \A i \in DOMAIN call[q] :
           call'[q][i] = IF q = r THEN Over(call[r][i]) ELSE call[q][i]
  <2>1. call' = [call EXCEPT ![r] = gone] /\ \A i \in DOMAIN call[r] : gone[i] = Over(call[r][i])
    BY DEF Dropped
  <2> HIDE DEF gone
  <2>2. call' \in [Runs -> Seq(Calls)] /\ call'[r] = gone /\ \A q \in Runs : q # r => call'[q] = call[q]
    BY <1>1, <1>3, <2>1
  <2>3. \A q \in Runs : DOMAIN call'[q] = DOMAIN call[q]
    BY <1>3, <2>2
  <2>4. ASSUME NEW q \in Runs, NEW i \in DOMAIN call[q]
        PROVE  call'[q][i] = IF q = r THEN Over(call[r][i]) ELSE call[q][i]
    <3>1. CASE q = r
      BY <2>1, <2>2, <3>1
    <3>2. CASE q # r
      BY <2>2, <3>2
    <3> QED
      BY <3>1, <3>2
  <2> QED
    BY <2>2, <2>3, <2>4
<1> HIDE DEF gone
<1>5. ASSUME NEW id, Waits(id) PROVE Waits(id)'
  <2>1. PICK q \in Runs, i \in Nat : id = <<q, i>> /\ i \in DOMAIN call[q] /\ CallAt(id) = call[q][i]
    BY <1>5 DEF Waits, Known, CallAt
  <2>2. i \in DOMAIN call'[q] /\ CallAt(id)' = call'[q][i]
    BY <1>4, <2>1 DEF CallAt
  <2>3. CASE q = r
    BY <1>2, <1>4, <2>1, <2>2, <2>3 DEF Waits, Known
  <2>4. CASE q # r
    BY <1>4, <1>5, <2>1, <2>2, <2>4 DEF Waits, Known
  <2> QED
    BY <2>3, <2>4
<1>6. Senders'
  BY <1>5 DEF IInv, Senders
<1>7. ASSUME NEW q \in Runs, NEW i \in DOMAIN call'[q]
      PROVE  Sound(q, i, call[q][i])'
  <2>1. CASE q = r
    BY <1>2, <1>4, <2>1 DEF Sound, Replies
  <2>2. CASE q # r
    <3>1. Sound(q, i, call[q][i]) /\ call'[q][i] = call[q][i]
      BY <1>4, <2>2 DEF IInv, Answers
    <3>2. \A reply : [call |-> <<q, i>>, reply |-> reply] \in said
                     => [call |-> <<q, i>>, reply |-> reply] \in said'
      BY <2>2 DEF Dropped
    <3> QED
      BY <3>1, <3>2 DEF Sound
  <2> QED
    BY <2>1, <2>2
<1>8. ASSUME NEW tool \in remembered'
      PROVE  Vouched(tool)'
  <2>1. PICK s \in said : s.reply = "always" /\ Known(s.call) /\ CallAt(s.call).tool = tool
    BY DEF IInv, Answers, Vouched
  <2>2. s \in said' /\ (Known(s.call))' /\ (CallAt(s.call).tool = tool)'
    BY <1>2, <1>4, <2>1 DEF Dropped, Known, CallAt
  <2> QED
    BY <2>1, <2>2 DEF Vouched
<1> QED
  BY <1>4, <1>6, <1>7, <1>8 DEF IInv, CallType, Answers

LEMMA BatchInv ==
    ASSUME IInv, NEW r \in Runs, Batch(r)
    PROVE  IInv'
<1>1. PICK batch \in Batches : call' = [call EXCEPT ![r] = [i \in DOMAIN batch |-> Asking(batch[i])]]
  BY DEF Batch
<1> DEFINE new == [i \in DOMAIN batch |-> Asking(batch[i])]
<1>2. batch \in Seq(Tools)
  BY TerminalAssumption
<1>3. \A i \in DOMAIN batch :
        /\ Asking(batch[i]) \in Calls /\ Asking(batch[i]).at = "check"
        /\ Asking(batch[i]).reply = "none" /\ Asking(batch[i]).why = "none"
  <2> TAKE i \in DOMAIN batch
  <2>1. batch[i] \in Tools
    BY <1>2, ElementOfSeq, LenProperties
  <2> QED
    BY <2>1 DEF Asking, Calls
<1>4. new \in Seq(Calls) /\ DOMAIN new = DOMAIN batch
  BY <1>2, <1>3, LenProperties, IsASeq
<1>5. /\ call \in [Runs -> Seq(Calls)] /\ call' \in [Runs -> Seq(Calls)]
      /\ call'[r] = new /\ \A q \in Runs \ {r} : call'[q] = call[q]
  BY <1>1, <1>4 DEF IInv, CallType
<1>6. DOMAIN call[r] = {}
  BY DEF Batch
<1>7. UNCHANGED <<said, requests, pending, shown, overlay, remembered, mode>>
  BY DEF Batch, dialog, asides
<1>8. \A id : Waits(id) => Waits(id)'
  BY <1>5, <1>6 DEF Waits, Known, CallAt
<1>9. Senders'
  BY <1>7, <1>8 DEF IInv, Senders
<1>10. ASSUME NEW q \in Runs, NEW i \in DOMAIN call'[q]
       PROVE  Sound(q, i, call[q][i])'
  <2>1. CASE q = r
    <3>1. call'[q][i] = Asking(batch[i]) /\ i \in DOMAIN batch
      BY <1>4, <1>5, <2>1
    <3> QED
      BY <1>3, <3>1 DEF Sound, Replies
  <2>2. CASE q # r
    <3>1. call'[q] = call[q]
      BY <1>5, <2>2
    <3>2. Sound(q, i, call[q][i])
      BY <3>1 DEF IInv, Answers
    <3> QED
      BY <1>7, <3>1, <3>2 DEF Sound
  <2> QED
    BY <2>1, <2>2
<1>11. ASSUME NEW tool \in remembered'
       PROVE  Vouched(tool)'
  <2>1. PICK s \in said : s.reply = "always" /\ Known(s.call) /\ CallAt(s.call).tool = tool
    BY <1>7 DEF IInv, Answers, Vouched
  <2>2. (Known(s.call))' /\ (CallAt(s.call).tool = tool)'
    BY <1>5, <1>6, <2>1 DEF Known, CallAt
  <2> QED
    BY <1>7, <2>1, <2>2 DEF Vouched
<1> QED
  BY <1>5, <1>7, <1>9, <1>10, <1>11 DEF IInv, CallType, Answers

-------------------------------------------------------------------------------
(* What the event loop sends back *)

(* A reply reaches the call whose sender it is, and no other sender changes. *)
LEMMA ReplySound ==
    ASSUME IInv, NEW reply \in Replies \cup {"dropped"},
           call' = Replied(call, pending, reply), said \subseteq said',
           call[pending[1]][pending[2]].at = "asked" /\ reply \in Replies
             => [call |-> pending, reply |-> reply] \in said',
           UNCHANGED remembered
    PROVE  /\ CallType' /\ Answers'
           /\ \A id : Waits(id) /\ id # pending => Waits(id)'
<1>1. remembered \subseteq remembered' /\ remembered' \subseteq Tools /\ remembered' \ remembered = {}
  BY DEF IInv, CallType
<1>2. CASE pending # Nobody /\ call[pending[1]][pending[2]].at = "asked"
  <2>1. PICK r \in Runs, i \in Nat : pending = <<r, i>> /\ i \in DOMAIN call[r]
    BY <1>2 DEF IInv, Senders, Waits, Known
  <2>2. PICK c : c = [call[r][i] EXCEPT !.reply = reply]
    OBVIOUS
  <2>3. call[r][i] \in Calls /\ call[r][i].at = "asked" /\ Sound(r, i, call[r][i])
    BY <1>2, <2>1, ElementOfSeq DEF IInv, CallType, Answers
  <2>4. /\ c \in Calls /\ c.tool = call[r][i].tool /\ c.at = "asked"
        /\ c.reply = reply /\ c.why = "none"
    BY <2>2, <2>3 DEF Calls, Sound
  <2>5. call' = [call EXCEPT ![r] = [@ EXCEPT ![i] = c]]
    BY <1>2, <2>1, <2>2 DEF Replied
  <2>6. Sound(r, i, c)'
    BY <1>2, <2>1, <2>4 DEF Sound
  <2>7. CallType' /\ Answers'
    BY <1>1, <2>1, <2>4, <2>5, <2>6, OneAnswer DEF IInv
  <2>8. \A id : Waits(id) /\ id # pending => Waits(id)'
    BY <2>1, <2>4, <2>5, OneSender DEF IInv
  <2> QED
    BY <2>7, <2>8
<1>3. CASE ~(pending # Nobody /\ call[pending[1]][pending[2]].at = "asked")
  <2>1. call' = call
    BY <1>3 DEF Replied
  <2>2. CallType' /\ \A id : Waits(id) => Waits(id)'
    BY <1>1, <2>1 DEF IInv, CallType, Waits, Known, CallAt
  <2>3. ASSUME NEW q \in Runs, NEW j \in DOMAIN call'[q]
        PROVE  Sound(q, j, call[q][j])'
    <3>1. Sound(q, j, call[q][j])
      BY <2>1 DEF IInv, Answers
    <3> QED
      BY <2>1, <3>1 DEF Sound
  <2>4. ASSUME NEW tool \in remembered'
        PROVE  Vouched(tool)'
    <3>1. PICK s \in said : s.reply = "always" /\ Known(s.call) /\ CallAt(s.call).tool = tool
      BY DEF IInv, Answers, Vouched
    <3>2. (Known(s.call))' /\ (CallAt(s.call).tool = tool)'
      BY <2>1, <3>1 DEF Known, CallAt
    <3> QED
      BY <3>1, <3>2 DEF Vouched
  <2> QED
    BY <2>2, <2>3, <2>4 DEF Answers
<1> QED
  BY <1>2, <1>3

LEMMA TakeRequestInv == IInv /\ TakeRequest => IInv'
<1> SUFFICES ASSUME IInv, TakeRequest PROVE IInv'
  OBVIOUS
<1>1. /\ requests \in Seq(Runs \X Nat) /\ requests # <<>> /\ requests' = Tail(requests)
      /\ pending' = Head(requests) /\ shown' = Head(requests) /\ overlay' = "permission"
      /\ call' = Replied(call, pending, "dropped")
      /\ UNCHANGED <<said, remembered, mode>>
  BY DEF IInv, Senders, TakeRequest, asides
<1>2. /\ requests' \in Seq(Runs \X Nat) /\ Len(requests) \in Nat \ {0}
      /\ Len(requests') = Len(requests) - 1 /\ Head(requests) = requests[1]
      /\ \A k \in 1..Len(requests') : requests'[k] = requests[k + 1] /\ k + 1 \in 1..Len(requests)
  BY <1>1, HeadTailProperties, LenProperties, EmptySeq
<1>3. CallType' /\ Answers' /\ \A id : Waits(id) /\ id # pending => Waits(id)'
  BY <1>1, ReplySound DEF Replies
<1>4. \A k \in 1..Len(requests) : \A id : id = requests[k] => Waits(id)'
  BY <1>3 DEF IInv, Senders
<1>5. 1 \in 1..Len(requests)
  BY <1>2
<1>6. (pending = Nobody \/ Waits(pending))' /\ pending' # Nobody
  <2>1. PICK id : id = requests[1]
    OBVIOUS
  <2>2. Waits(id)' /\ Waits(id)
    BY <1>4, <1>5, <2>1 DEF IInv, Senders
  <2>3. id # Nobody
    BY <2>2 DEF Waits, Known, Nobody, NoRun, Runs
  <2> QED
    BY <1>1, <1>2, <2>1, <2>2, <2>3
<1>7. ASSUME NEW k \in 1..Len(requests')
      PROVE  /\ Waits(requests[k])' /\ requests'[k] # pending'
             /\ \A l \in 1..Len(requests') : l # k => requests'[l] # requests'[k]
  <2>1. PICK id : id = requests'[k]
    OBVIOUS
  <2>2. id = requests[k + 1] /\ k + 1 \in 1..Len(requests) /\ k + 1 # 1
    BY <1>2, <2>1
  <2>3. Waits(id)'
    BY <1>4, <2>2
  <2>4. id # requests[1]
    BY <1>5, <2>2 DEF IInv, Senders
  <2>5. ASSUME NEW l \in 1..Len(requests'), l # k
        PROVE  requests'[l] # id
    <3>1. requests'[l] = requests[l + 1] /\ l + 1 \in 1..Len(requests) /\ l + 1 # k + 1
      BY <1>2, <2>5
    <3> QED
      BY <2>2, <3>1 DEF IInv, Senders
  <2> QED
    BY <1>1, <1>2, <2>1, <2>3, <2>4, <2>5
<1>8. Senders'
  BY <1>1, <1>2, <1>6, <1>7 DEF Senders
<1> QED
  BY <1>1, <1>3, <1>8 DEF IInv

LEMMA AnswerInv == IInv /\ Answer => IInv'
<1> SUFFICES ASSUME IInv, Answer PROVE IInv'
  OBVIOUS
<1>1. PICK reply \in Replies : /\ call' = Replied(call, pending, reply)
                               /\ said' = said \cup Heard(reply)
  BY DEF Answer
<1>2. /\ shown = pending /\ pending' = Nobody /\ overlay' = "none"
      /\ UNCHANGED <<requests, remembered, mode>>
  BY DEF IInv, Senders, Answer, asides
<1>3. CallType' /\ Answers' /\ \A id : Waits(id) /\ id # pending => Waits(id)'
  BY <1>1, <1>2, ReplySound DEF Heard
<1>4. ASSUME NEW k \in 1..Len(requests)
      PROVE  Waits(requests[k])' /\ requests[k] # Nobody
  <2>1. PICK id : id = requests[k]
    OBVIOUS
  <2>2. Waits(id) /\ id # pending
    BY <2>1 DEF IInv, Senders
  <2>3. Waits(id)' /\ id # Nobody
    BY <1>3, <2>2 DEF Waits, Known, Nobody, NoRun, Runs
  <2> QED
    BY <1>2, <2>1, <2>3
<1>5. Senders'
  BY <1>2, <1>4 DEF IInv, Senders
<1> QED
  BY <1>2, <1>3, <1>5 DEF IInv

-------------------------------------------------------------------------------
(* All other steps leave the calls and the senders alone. *)
LEMMA FrameInv ==
    ASSUME IInv, UNCHANGED <<call, remembered, requests, shown, pending, said>>,
           mode' \in Nat, overlay' = "permission" => overlay = "permission"
    PROVE  IInv'
<1>1. CallType' /\ \A id : Waits(id) => Waits(id)'
  BY DEF IInv, CallType, Waits, Known, CallAt
<1>2. Senders'
  BY <1>1 DEF IInv, Senders
<1>3. ASSUME NEW q \in Runs, NEW j \in DOMAIN call'[q]
      PROVE  Sound(q, j, call[q][j])'
  <2>1. Sound(q, j, call[q][j])
    BY DEF IInv, Answers
  <2> QED
    BY <2>1 DEF Sound
<1>4. ASSUME NEW tool \in remembered'
      PROVE  Vouched(tool)'
  <2>1. Vouched(tool)
    BY DEF IInv, Answers
  <2> QED
    BY <2>1 DEF Vouched, Known, CallAt
<1> QED
  BY <1>1, <1>2, <1>3, <1>4 DEF IInv, Answers

LEMMA NextInv == IInv /\ [Next]_vars => IInv'
<1> SUFFICES ASSUME IInv, [Next]_vars PROVE IInv'
  OBVIOUS
<1> USE DEF runs, dialog, asides, output, screen
<1>1. mode \in Nat
  BY DEF IInv
<1>2. CASE TakeRequest
  BY <1>2, TakeRequestInv
<1>3. CASE TakeEvent \/ StreamCloses \/ Dismiss \/ Press \/ Cancel \/ Quit \/ Submit \/ Command
  <2>1. CASE TakeEvent
    BY <1>1, <2>1, FrameInv DEF TakeEvent
  <2>2. CASE StreamCloses
    BY <1>1, <2>2, FrameInv DEF StreamCloses
  <2>3. CASE Dismiss \/ Press
    BY <1>1, <2>3, FrameInv DEF Dismiss, Press
  <2>4. CASE Cancel
    BY <1>1, <2>4, FrameInv DEF Cancel
  <2>5. CASE Quit
    BY <1>1, <2>5, FrameInv DEF Quit, vars
  <2>6. CASE Submit
    BY <1>1, <2>6, FrameInv DEF Submit, Start
  <2>7. CASE Command
    BY <1>1, <2>7, FrameInv DEF Command
  <2> QED
    BY <1>3, <2>1, <2>2, <2>3, <2>4, <2>5, <2>6, <2>7
<1>4. CASE Answer
  BY <1>4, AnswerInv
<1>5. CASE SwitchMode
  BY <1>1, <1>5, FrameInv DEF SwitchMode
<1>6. ASSUME NEW r \in Runs, OfRun(r)
      PROVE  IInv'
  <2>1. CASE BeginTurn(r)
    BY <1>1, <2>1, FrameInv DEF BeginTurn
  <2>2. CASE StopOnToken(r)
    BY <1>1, <2>2, FrameInv DEF StopOnToken, Fail
  <2>3. CASE Announce(r)
    BY <1>1, <2>3, FrameInv DEF Announce
  <2>4. CASE EndBatch(r)
    BY <2>4, GoneInv DEF EndBatch
  <2> QED
    BY <1>6, <2>1, <2>2, <2>3, <2>4 DEF OfRun
<1>7. ASSUME NEW r \in Runs, Provider(r)
      PROVE  IInv'
  <2>1. CASE Text(r)
    BY <1>1, <2>1, FrameInv DEF Text
  <2>2. CASE Batch(r)
    BY <2>2, BatchInv
  <2>3. CASE Complete(r)
    BY <1>1, <2>3, FrameInv DEF Complete
  <2>4. CASE Fail(r)
    BY <1>1, <2>4, FrameInv DEF Fail
  <2>5. CASE Panic(r)
    BY <2>5, GoneInv DEF Panic
  <2> QED
    BY <1>7, <2>1, <2>2, <2>3, <2>4, <2>5 DEF Provider
<1>8. ASSUME NEW r \in Runs, NEW i \in Positions, OfCall(r, i)
      PROVE  IInv'
  BY <1>8, CheckInv, AskInv, HearInv DEF OfCall
<1>9. CASE UNCHANGED vars
  BY <1>1, <1>9, FrameInv DEF vars
<1> QED
  BY <1>2, <1>3, <1>4, <1>5, <1>6, <1>7, <1>8, <1>9 DEF Next, Loop, Key

-------------------------------------------------------------------------------
(* Keys in the queue *)

\* a call that has asked, or is past asking
Begun(id) == Known(id) /\ CallAt(id).at \notin {"check", "send"}

\* no call that has asked asks again
NoneAsksAgain == \A id : Begun(id) => Begun(id)' /\ (StillAsks(id)' => StillAsks(id))

Pressed(id) == id = Nobody \/ (Begun(id) /\ (id = pending \/ ~StillAsks(id)))

KInv ==
    /\ shown = pending
    /\ keys \in Seq((Runs \X Nat) \cup {Nobody})
    /\ \A k \in 1..Len(keys) : Pressed(keys[k])

LEMMA OneAsksNoMore ==
    ASSUME CallType, NEW r \in Runs, NEW i \in DOMAIN call[r], NEW c,
           call' = [call EXCEPT ![r] = [@ EXCEPT ![i] = c]],
           Begun(<<r, i>>) => /\ c.at \notin {"check", "send"}
                              /\ c.at = "asked" => c.reply # "none"
    PROVE  NoneAsksAgain
<1>1. call \in [Runs -> Seq(Calls)] /\ call[r] \in Seq(Calls)
  BY DEF CallType
<1>2. /\ \A q \in Runs : DOMAIN call'[q] = DOMAIN call[q]
      /\ \A q \in Runs : \A j \in DOMAIN call[q] :
           call'[q][j] = IF q = r /\ j = i THEN c ELSE call[q][j]
  BY <1>1
<1> SUFFICES ASSUME NEW id, Begun(id)
             PROVE  Begun(id)' /\ (StillAsks(id)' => StillAsks(id))
  BY DEF NoneAsksAgain
<1>3. id \in Runs \X Nat /\ id[2] \in DOMAIN call[id[1]] /\ id = <<id[1], id[2]>>
  BY DEF Begun, Known
<1>4. CASE id = <<r, i>>
  BY <1>2, <1>3, <1>4 DEF Begun, Known, CallAt, StillAsks
<1>5. CASE id # <<r, i>>
  <2>1. call'[id[1]][id[2]] = call[id[1]][id[2]]
    BY <1>2, <1>3, <1>5
  <2> QED
    BY <1>2, <1>3, <2>1 DEF Begun, Known, CallAt, StillAsks
<1> QED
  BY <1>4, <1>5

LEMMA RepliedOnce ==
    ASSUME IInv, NEW reply \in Replies \cup {"dropped"}, call' = Replied(call, pending, reply)
    PROVE  NoneAsksAgain /\ \A id : id = pending => id = Nobody \/ ~StillAsks(id)'
<1>1. CASE pending # Nobody /\ call[pending[1]][pending[2]].at = "asked"
  <2>1. PICK r \in Runs, i \in Nat : pending = <<r, i>> /\ i \in DOMAIN call[r]
    BY <1>1 DEF IInv, Senders, Waits, Known
  <2>2. PICK c : c = [call[r][i] EXCEPT !.reply = reply]
    OBVIOUS
  <2>3. call[r][i] \in Calls /\ call[r][i].at = "asked" /\ call \in [Runs -> Seq(Calls)]
    BY <1>1, <2>1, ElementOfSeq DEF IInv, CallType
  <2>4. c.at = "asked" /\ c.reply = reply /\ reply # "none"
    BY <2>2, <2>3 DEF Calls, Replies
  <2>5. call' = [call EXCEPT ![r] = [@ EXCEPT ![i] = c]]
    BY <1>1, <2>1, <2>2 DEF Replied
  <2>6. NoneAsksAgain
    BY <2>1, <2>4, <2>5, OneAsksNoMore DEF IInv
  <2>7. call'[r][i] = c
    BY <2>1, <2>3, <2>5
  <2> QED
    BY <2>1, <2>4, <2>6, <2>7 DEF StillAsks
<1>2. CASE ~(pending # Nobody /\ call[pending[1]][pending[2]].at = "asked")
  <2>1. call' = call
    BY <1>2 DEF Replied
  <2> QED
    BY <1>2, <2>1 DEF NoneAsksAgain, Begun, Known, CallAt, StillAsks
<1> QED
  BY <1>1, <1>2

(* The keys of the queue stay pressed over calls that are answered first, or no more. *)
LEMMA KeysKept ==
    ASSUME IInv, KInv, NoneAsksAgain, shown' = pending',
           pending' = pending \/ \A id : id = pending => id = Nobody \/ ~StillAsks(id)',
           \/ keys' = keys
           \/ keys # <<>> /\ keys' = Tail(keys)
           \/ keys' = Append(keys, shown) /\ pending' = pending
    PROVE  KInv'
<1> DEFINE Kind == (Runs \X Nat) \cup {Nobody}
<1>1. keys \in Seq(Kind) /\ Len(keys) \in Nat /\ shown = pending
  BY LenProperties DEF KInv
<1>2. ASSUME NEW id, Pressed(id) PROVE Pressed(id)'
  BY <1>2 DEF Pressed, NoneAsksAgain
<1>3. pending \in Kind /\ Pressed(pending)
  BY DEF IInv, Senders, Waits, Known, Pressed, Begun
<1>4. \A k \in 1..Len(keys) : \A id : id = keys[k] => Pressed(id)'
  BY <1>2 DEF KInv
<1>5. CASE keys' = keys
  BY <1>1, <1>4, <1>5 DEF KInv
<1>6. CASE keys # <<>> /\ keys' = Tail(keys)
  <2>1. /\ keys' \in Seq(Kind) /\ Len(keys') = Len(keys) - 1
        /\ \A k \in 1..Len(keys') : keys'[k] = keys[k + 1] /\ k + 1 \in 1..Len(keys)
    BY <1>1, <1>6, HeadTailProperties, LenProperties, EmptySeq
  <2>2. ASSUME NEW k \in 1..Len(keys') PROVE Pressed(keys[k])'
    <3>1. PICK id : id = keys'[k]
      OBVIOUS
    <3>2. Pressed(id)'
      BY <1>4, <2>1, <3>1
    <3> QED
      BY <3>1, <3>2
  <2> QED
    BY <2>1, <2>2 DEF KInv
<1>7. CASE keys' = Append(keys, shown) /\ pending' = pending
  <2>1. /\ keys' \in Seq(Kind) /\ Len(keys') = Len(keys) + 1 /\ keys'[Len(keys) + 1] = pending
        /\ \A k \in 1..Len(keys) : keys'[k] = keys[k]
    BY <1>1, <1>3, <1>7, AppendProperties
  <2>2. ASSUME NEW k \in 1..Len(keys') PROVE Pressed(keys[k])'
    <3>1. PICK id : id = keys'[k]
      OBVIOUS
    <3>2. k \in 1..Len(keys) \/ k = Len(keys) + 1
      BY <1>1, <2>1
    <3>3. Pressed(id)'
      BY <1>2, <1>3, <1>4, <2>1, <3>1, <3>2
    <3> QED
      BY <3>1, <3>3
  <2> QED
    BY <2>1, <2>2 DEF KInv
<1> QED
  BY <1>5, <1>6, <1>7

(* A step that leaves the calls alone, and the dialog but for keys. *)
LEMMA QuietKeys ==
    ASSUME IInv, KInv, UNCHANGED <<call, shown, pending>>,
           \/ keys' = keys
           \/ keys # <<>> /\ keys' = Tail(keys)
           \/ keys' = Append(keys, shown)
    PROVE  KInv'
<1>1. NoneAsksAgain
  BY DEF NoneAsksAgain, Begun, Known, CallAt, StillAsks
<1> QED
  BY <1>1, KeysKept DEF KInv

LEMMA CallKeys ==
    ASSUME IInv, KInv, NEW r \in Runs, NEW i \in DOMAIN call[r], Check(r, i) \/ Ask(r, i) \/ Hear(r, i)
    PROVE  KInv'
<1>1. UNCHANGED <<keys, shown, pending>> /\ CallType /\ call[r][i] \in Calls
  BY ElementOfSeq DEF Check, Ask, Hear, dialog, IInv, CallType
<1>2. CASE Check(r, i) \/ Ask(r, i)
  <2>1. ~Begun(<<r, i>>)
    BY <1>2 DEF Check, Ask, Begun, CallAt
  <2>2. \E c : call' = [call EXCEPT ![r] = [@ EXCEPT ![i] = c]]
    BY <1>2 DEF Check, Ask
  <2>3. NoneAsksAgain
    BY <1>1, <2>1, <2>2, OneAsksNoMore
  <2> QED
    BY <1>1, <2>3, KeysKept DEF KInv
<1>3. CASE Hear(r, i)
  <2>1. PICK allowed, why : call' = [call EXCEPT ![r] = [@ EXCEPT ![i] = Decided(call[r][i], allowed, why)]]
    BY <1>3 DEF Hear
  <2>2. Decided(call[r][i], allowed, why).at = "decided"
    BY <1>1 DEF Decided, Calls
  <2>3. NoneAsksAgain
    BY <1>1, <2>1, <2>2, OneAsksNoMore
  <2> QED
    BY <1>1, <2>3, KeysKept DEF KInv
<1> QED
  BY <1>2, <1>3

LEMMA BatchKeys ==
    ASSUME IInv, KInv, NEW r \in Runs, Batch(r) \/ EndBatch(r) \/ Panic(r)
    PROVE  KInv'
<1>1. UNCHANGED <<keys, shown, pending>> /\ call \in [Runs -> Seq(Calls)]
  BY DEF Batch, EndBatch, Panic, dialog, IInv, CallType
<1>2. CASE Batch(r)
  <2>1. DOMAIN call[r] = {} /\ \A q \in Runs : q # r => call'[q] = call[q]
    BY <1>1, <1>2 DEF Batch
  <2>2. NoneAsksAgain
    BY <2>1 DEF NoneAsksAgain, Begun, Known, CallAt, StillAsks
  <2> QED
    BY <1>1, <2>2, KeysKept DEF KInv
<1>3. CASE Dropped(r)
  <2>1. /\ call'[r] = [i \in DOMAIN call[r] |-> Over(call[r][i])]
        /\ \A q \in Runs : q # r => call'[q] = call[q]
    BY <1>1, <1>3 DEF Dropped
  <2>2. \A i \in DOMAIN call[r] : call'[r][i].at = "over"
    BY <2>1 DEF Over, Asking
  <2>3. DOMAIN call'[r] = DOMAIN call[r]
    BY <2>1
  <2>4. NoneAsksAgain
    <3> SUFFICES ASSUME NEW id, Begun(id)
                 PROVE  Begun(id)' /\ (StillAsks(id)' => StillAsks(id))
      BY DEF NoneAsksAgain
    <3>1. CASE id[1] = r
      BY <2>2, <2>3, <3>1 DEF Begun, Known, CallAt, StillAsks
    <3>2. CASE id[1] # r
      BY <2>1, <3>2 DEF Begun, Known, CallAt, StillAsks
    <3> QED
      BY <3>1, <3>2
  <2> QED
    BY <1>1, <2>4, KeysKept DEF KInv
<1> QED
  BY <1>2, <1>3 DEF EndBatch, Panic

LEMMA OverlayKeys == ASSUME IInv, KInv, TakeRequest \/ Answer PROVE KInv'
<1>1. CASE TakeRequest
  <2>1. call' = Replied(call, pending, "dropped") /\ shown' = pending' /\ keys' = keys
    BY <1>1 DEF TakeRequest
  <2> QED
    BY <2>1, RepliedOnce, KeysKept
<1>2. CASE Answer
  <2>1. /\ \E reply \in Replies : call' = Replied(call, pending, reply)
        /\ shown' = pending' /\ keys # <<>> /\ keys' = Tail(keys)
    BY <1>2 DEF Answer
  <2> QED
    BY <2>1, RepliedOnce, KeysKept
<1> QED
  BY <1>1, <1>2

LEMMA NextKInv == IInv /\ KInv /\ [Next]_vars => KInv'
<1> SUFFICES ASSUME IInv, KInv, [Next]_vars PROVE KInv'
  OBVIOUS
<1> USE DEF runs, dialog, output, screen
<1>1. CASE TakeRequest \/ Answer
  BY <1>1, OverlayKeys
<1>2. CASE TakeEvent \/ StreamCloses \/ Dismiss \/ Press \/ Cancel \/ Quit \/ SwitchMode \/ Submit \/ Command
  BY <1>2, QuietKeys
  DEF TakeEvent, StreamCloses, Dismiss, Press, Cancel, Quit, vars, SwitchMode, Submit, Start, Command
<1>3. ASSUME NEW r \in Runs, OfRun(r) \/ Provider(r)
      PROVE  KInv'
  <2>1. CASE Batch(r) \/ EndBatch(r) \/ Panic(r)
    BY <2>1, BatchKeys
  <2>2. CASE BeginTurn(r) \/ StopOnToken(r) \/ Announce(r) \/ Text(r) \/ Complete(r) \/ Fail(r)
    BY <2>2, QuietKeys DEF BeginTurn, StopOnToken, Announce, Text, Complete, Fail
  <2> QED
    BY <1>3, <2>1, <2>2 DEF OfRun, Provider
<1>4. ASSUME NEW r \in Runs, NEW i \in Positions, OfCall(r, i)
      PROVE  KInv'
  BY <1>4, CallKeys DEF OfCall
<1>5. CASE UNCHANGED vars
  BY <1>5, QuietKeys DEF vars
<1> QED
  BY <1>1, <1>2, <1>3, <1>4, <1>5 DEF Next, Loop, Key

(* What the user allowed was this very call; what is allowed without asking, a tool the
   user said so for; and no key that was pressed over a call that still asks comes to
   another. For all sets of tools, sizes of batches and numbers of runs and keys. *)
THEOREM Consent == Spec => []ConsentIsReal
<1>1. IInv /\ KInv => ConsentIsReal
  <2> SUFFICES ASSUME IInv, KInv PROVE ConsentIsReal
    OBVIOUS
  <2>1. ASSUME NEW r \in Runs, NEW i \in DOMAIN call[r]
        PROVE  /\ call[r][i].why = "user" =>
                    [call |-> <<r, i>>, reply |-> call[r][i].reply] \in said
               /\ call[r][i].why = "remembered" =>
                    \E s \in said : /\ s.reply = "always"
                                    /\ call[s.call[1]][s.call[2]].tool = call[r][i].tool
    <3>1. Sound(r, i, call[r][i])
      BY DEF IInv, Answers
    <3>2. call[r][i].tool \in remembered => Vouched(call[r][i].tool)
      BY DEF IInv, Answers
    <3> QED
      BY <3>1, <3>2 DEF Sound, Vouched, CallAt
  <2>2. ASSUME NEW k \in DOMAIN keys PROVE keys[k] \in {pending, Nobody} \/ ~StillAsks(keys[k])
    <3>1. k \in 1..Len(keys)
      BY LenProperties DEF KInv
    <3> QED
      BY <3>1 DEF KInv, Pressed
  <2> QED
    BY <2>1, <2>2 DEF ConsentIsReal
<1>2. Init => KInv
  BY EmptySeq DEF Init, KInv
<1> QED
  BY <1>1, <1>2, InitInv, NextInv, NextKInv, PTL DEF Spec

-------------------------------------------------------------------------------
(* What the screen shows of an answer. Until something is cancelled one run at a  *)
(* time is on, the one whose stream the terminal reads. The text taken from the   *)
(* channel and the one still in it are what the run has sent: the former a prefix, *)
(* the latter the numbers behind it, in order and with no gap. An ending is the    *)
(* last event of all, so when it is taken, the text is whole.                     *)

States == {"none", "top", "wait", "tools", "completing", "failing", "ended"}
Endings == {"complete", "error"}
Piece(r, n) == [kind |-> "text", run |-> r, n |-> n]
Whole(r) == [n \in 1..produced[r] |-> Piece(r, n)]

ScreenType ==
    /\ run \in [Runs -> States] /\ produced \in [Runs -> Nat]
    /\ \A r \in Runs : run[r] = "none" => produced[r] = 0
    /\ stream \in Runs \cup {NoRun} /\ events \in Seq(Events) /\ text \in Seq(Events)
    /\ streaming \in BOOLEAN /\ working \in BOOLEAN /\ token \in BOOLEAN
    /\ turns \in Seq([role : {"user", "assistant"}, text : Seq(Events)])

OneRun == \A r \in Runs : r # stream => run[r] \in {"none", "ended"}

AtRest ==
    /\ text = <<>> /\ ~working /\ events = <<>>
    /\ stream # NoRun => run[stream] = "ended"

InFlight ==
    /\ stream \in Runs /\ run[stream] # "none"
    /\ Len(text) <= produced[stream]
    /\ text = [n \in 1..Len(text) |-> Piece(stream, n)]
    /\ \A i \in 1..Len(events) :
         /\ events[i].kind = "text" => /\ events[i] = Piece(stream, events[i].n)
                                       /\ events[i].n > Len(text) /\ events[i].n <= produced[stream]
                                       /\ \A j \in 1..Len(events) : 
                                            i < j /\ events[j].kind = "text" => events[i].n < events[j].n
         /\ events[i].kind \in Endings => i = Len(events) /\ run[stream] = "ended"
    /\ \A n \in Len(text) + 1 .. produced[stream] :
         \E i \in 1..Len(events) : events[i] = Piece(stream, n)

Shown(turn) == turn.role = "assistant" => \E r \in Runs : run[r] = "ended" /\ turn.text = Whole(r)

Screen == 
    /\ OneRun
    /\ IF streaming THEN InFlight ELSE AtRest
    /\ \A k \in 1..Len(turns) : Shown(turns[k])

SInv == ScreenType /\ (~token => Screen)

(* A run goes on, the screen does not change. *)
Moves == \A r \in Runs : run'[r] = run[r] \/ (run[r] \notin {"none", "ended"} /\ run'[r] # "none")

LEMMA ShownStays ==
    ASSUME ScreenType, Moves, \A r \in Runs : run[r] = "ended" => produced'[r] = produced[r],
           NEW turn, Shown(turn)
    PROVE  Shown(turn)'
BY DEF ScreenType, Moves, Shown, Whole, Piece

LEMMA ScreenStays ==
    ASSUME SInv, UNCHANGED <<produced, screen, events>>, token' \in BOOLEAN, token => token',
           run' \in [Runs -> States], Moves
    PROVE  SInv'
<1> USE DEF screen
<1>1. ScreenType'
  BY DEF SInv, ScreenType, Moves
<1>2. ASSUME ~token' PROVE Screen'
  <2>1. Screen /\ ScreenType
    BY <1>2 DEF SInv
  <2>2. OneRun'
    BY <2>1 DEF Screen, OneRun, Moves
  <2>3. CASE streaming
    <3>1. InFlight
      BY <2>1, <2>3 DEF Screen
    <3>2. run'[stream] # "none" /\ (run[stream] = "ended" => run'[stream] = "ended")
      BY <3>1 DEF InFlight, Moves
    <3>3. InFlight'
      BY <3>1, <3>2 DEF InFlight, Piece
    <3>4. \A k \in 1..Len(turns) : Shown(turns[k])'
      BY <2>1, ShownStays DEF Screen
    <3> QED
      BY <2>2, <2>3, <3>3, <3>4 DEF Screen
  <2>4. CASE ~streaming
    <3>1. AtRest
      BY <2>1, <2>4 DEF Screen
    <3>2. AtRest'
      BY <3>1, <2>1 DEF AtRest, Moves, ScreenType, NoRun
    <3>3. \A k \in 1..Len(turns) : Shown(turns[k])'
      BY <2>1, ShownStays DEF Screen
    <3> QED
      BY <2>2, <2>4, <3>2, <3>3 DEF Screen
  <2> QED
    BY <2>3, <2>4
<1> QED
  BY <1>1, <1>2 DEF SInv

(* A send: what it puts into the channel continues what is there. *)
LEMMA ScreenSends ==
    ASSUME SInv, NEW r \in Runs, run[r] \notin {"none", "ended"},
           NEW kind \in {"text", "tools", "complete", "error"}, NEW n \in Nat, Emit(r, kind, n),
           UNCHANGED <<screen, token>>, run' \in [Runs -> States], Moves,
           kind = "text" => n = produced[r] + 1,
           produced' = IF kind = "text" THEN [produced EXCEPT ![r] = n] ELSE produced,
           kind \in Endings => run'[r] = "ended"
    PROVE  SInv'
<1> DEFINE e == [kind |-> kind, run |-> r, n |-> n]
<1> USE DEF screen
<1>1. e \in Events
  BY DEF Events
<1>2. ScreenType /\ events \in Seq(Events)
  BY DEF SInv, ScreenType
<1>3. /\ Append(events, e) \in Seq(Events) /\ Len(Append(events, e)) = Len(events) + 1
      /\ Append(events, e)[Len(events) + 1] = e
      /\ \A i \in 1..Len(events) : Append(events, e)[i] = events[i]
  BY <1>1, <1>2, AppendProperties
<1>4. events' = IF stream = r THEN Append(events, e) ELSE events
  BY DEF Emit
<1> HIDE DEF e
<1>5. events' \in Seq(Events)
  BY <1>2, <1>3, <1>4
<1>6. produced' \in [Runs -> Nat] /\ \A q \in Runs : run'[q] = "none" => produced'[q] = 0
  BY <1>2 DEF ScreenType, Moves
<1>7. ScreenType'
  BY <1>2, <1>5, <1>6 DEF ScreenType
<1>8. ASSUME ~token' PROVE Screen'
  <2>1. Screen /\ ScreenType
    BY <1>8 DEF SInv
  <2>2. stream = r
    BY <2>1 DEF Screen, OneRun
  <2>3. streaming /\ InFlight
    BY <2>1, <2>2 DEF Screen, AtRest, NoRun, Runs
  <2>4. OneRun'
    BY <2>1 DEF Screen, OneRun, Moves
  <2>5. /\ events' = Append(events, e) /\ Len(events') = Len(events) + 1
        /\ events'[Len(events) + 1] = e /\ \A i \in 1..Len(events) : events'[i] = events[i]
        /\ Len(events) \in Nat
    BY <1>2, <1>3, <1>4, <2>2, LenProperties
  <2>6. /\ produced[r] \in Nat /\ produced'[r] \in Nat /\ produced[r] <= produced'[r]
        /\ kind = "text" => n = produced[r] + 1 /\ produced'[r] = n
        /\ kind # "text" => produced'[r] = produced[r]
    BY <2>1 DEF ScreenType
  <2>7. /\ Len(text) \in Nat /\ Len(text) <= produced[r]
        /\ text = [m \in 1..Len(text) |-> Piece(r, m)]
    BY <2>1, <2>2, <2>3, LenProperties DEF InFlight, ScreenType
  <2>8. ASSUME NEW i \in 1..Len(events')
        PROVE  /\ events'[i].kind = "text" =>
                     /\ events'[i] = Piece(r, events'[i].n)
                     /\ events'[i].n > Len(text) /\ events'[i].n <= produced'[r]
                     /\ \A j \in 1..Len(events') :
                          i < j /\ events'[j].kind = "text" => events'[i].n < events'[j].n
               /\ events'[i].kind \in Endings => i = Len(events') /\ run'[r] = "ended"
    <3>1. CASE i = Len(events) + 1
      <4>1. events'[i] = e
        BY <2>5, <3>1
      <4>2. \A j \in 1..Len(events') : ~(i < j)
        BY <2>5, <3>1
      <4> QED
        BY <4>1, <4>2, <2>5, <2>6, <2>7, <3>1 DEF Piece, e
    <3>2. CASE i \in 1..Len(events)
      <4>1. events'[i] = events[i] /\ events[i] \in Events
        BY <2>1, <2>5, <3>2 DEF ScreenType
      <4>2. events[i].kind \notin Endings
        BY <2>2, <2>3, <3>2 DEF InFlight
      <4>3. events[i].kind = "text" =>
              /\ events[i] = Piece(r, events[i].n)
              /\ events[i].n > Len(text) /\ events[i].n <= produced[r]
              /\ \A j \in 1..Len(events) :
                   i < j /\ events[j].kind = "text" => events[i].n < events[j].n
        BY <2>2, <2>3, <3>2 DEF InFlight
      <4>4. events[i].n \in Nat
        BY <4>1 DEF Events
      <4>5. ASSUME events[i].kind = "text",
                   NEW j \in 1..Len(events'), i < j, events'[j].kind = "text"
            PROVE  events[i].n < events'[j].n
        <5>1. CASE j \in 1..Len(events)
          BY <2>5, <4>3, <4>5, <5>1
        <5>2. CASE j = Len(events) + 1
          <6>1. kind = "text" /\ events'[j].n = produced[r] + 1
            BY <2>5, <2>6, <4>5, <5>2 DEF e
          <6> QED
            BY <6>1, <4>3, <4>4, <4>5, <2>6
        <5> QED
          BY <2>5, <5>1, <5>2
      <4>6. events[i].kind = "text" => events[i].n <= produced'[r]
        BY <2>6, <4>3, <4>4
      <4> QED
        BY <4>1, <4>2, <4>3, <4>5, <4>6
    <3> QED
      BY <2>5, <3>1, <3>2
  <2>9. ASSUME NEW m \in Len(text) + 1 .. produced'[r]
        PROVE  \E i \in 1..Len(events') : events'[i] = Piece(r, m)
    <3>1. CASE m <= produced[r]
      <4>1. PICK i \in 1..Len(events) : events[i] = Piece(r, m)
        BY <2>2, <2>3, <2>6, <2>7, <3>1 DEF InFlight
      <4> QED
        BY <4>1, <2>5
    <3>2. CASE m > produced[r]
      <4>1. kind = "text" /\ m = n
        BY <2>6, <2>7, <3>2
      <4> QED
        BY <4>1, <2>5 DEF Piece, e
    <3> QED
      BY <2>6, <2>7, <3>1, <3>2
  <2>10. InFlight'
    BY <2>2, <2>3, <2>6, <2>7, <2>8, <2>9 DEF InFlight, Moves
  <2>11. \A k \in 1..Len(turns) : Shown(turns[k])'
    <3>1. \A q \in Runs : run[q] = "ended" => produced'[q] = produced[q]
      BY <2>1 DEF ScreenType
    <3> QED
      BY <2>1, <3>1, ShownStays DEF Screen
  <2> QED
    BY <2>3, <2>4, <2>10, <2>11 DEF Screen
<1> QED
  BY <1>7, <1>8 DEF SInv

LEMMA CommitType ==
    ASSUME ScreenType, Commit
    PROVE  /\ turns' \in Seq([role : {"user", "assistant"}, text : Seq(Events)])
           /\ text' \in Seq(Events) /\ streaming' = FALSE /\ working' = FALSE
<1>1. [role |-> "assistant", text |-> text] \in [role : {"user", "assistant"}, text : Seq(Events)]
  BY DEF ScreenType
<1>2. Append(turns, [role |-> "assistant", text |-> text])
        \in Seq([role : {"user", "assistant"}, text : Seq(Events)])
  BY <1>1, AppendProperties DEF ScreenType
<1>3. text' \in Seq(Events)
  BY EmptySeq DEF Commit
<1> QED
  BY <1>2, <1>3 DEF Commit, ScreenType

(* A text that is whole when its run is over is shown as that run's answer. *)
LEMMA CommitShows ==
    ASSUME ScreenType, Screen, InFlight, Commit, run[stream] = "ended",
           Len(text) = produced[stream], UNCHANGED <<run, produced>>, events' = <<>>,
           stream' \in {stream, NoRun}
    PROVE  Screen'
<1>1. text = Whole(stream) /\ stream \in Runs
  BY DEF InFlight, Whole
<1>2. OneRun'
  BY DEF Screen, OneRun
<1>3. AtRest'
  BY DEF Commit, AtRest
<1>4. ASSUME NEW k \in 1..Len(turns') PROVE Shown(turns[k])'
  <2> DEFINE turn == [role |-> "assistant", text |-> text]
  <2>1. turn \in [role : {"user", "assistant"}, text : Seq(Events)]
    BY DEF ScreenType
  <2>2. /\ Len(turns) \in Nat /\ Len(Append(turns, turn)) = Len(turns) + 1
        /\ Append(turns, turn)[Len(turns) + 1] = turn
        /\ \A j \in 1..Len(turns) : Append(turns, turn)[j] = turns[j]
    BY <2>1, AppendProperties, LenProperties DEF ScreenType
  <2>3. turns' \in {turns, Append(turns, turn)}
    BY DEF Commit
  <2>4. Shown(turn)
    BY <1>1 DEF Shown
  <2> HIDE DEF turn
  <2>5. turns'[k] = turn \/ \E j \in 1..Len(turns) : turns'[k] = turns[j]
    BY <1>4, <2>2, <2>3
  <2>6. Shown(turns'[k])
    BY <2>4, <2>5 DEF Screen
  <2> QED
    BY <2>6, ShownStays DEF Moves
<1> QED
  BY <1>2, <1>3, <1>4 DEF Commit, Screen

LEMMA ClosesInv == SInv /\ StreamCloses => SInv'
<1> SUFFICES ASSUME SInv, StreamCloses PROVE SInv'
  OBVIOUS
<1> USE DEF runs
<1>1. ScreenType'
  <2>1. ScreenType
    BY DEF SInv
  <2> QED
    BY <2>1, CommitType DEF StreamCloses, ScreenType
<1>2. ASSUME ~token' PROVE Screen'
  <2>1. Screen /\ ScreenType
    BY <1>2 DEF SInv, StreamCloses
  <2>2. CASE streaming
    <3>1. InFlight /\ Commit /\ events' = <<>> /\ stream' = NoRun /\ run[stream] = "ended"
      BY <2>1, <2>2 DEF Screen, StreamCloses
    <3>2. Len(events) = 0
      BY DEF StreamCloses
    <3>3. Len(text) = produced[stream]
      <4>1. Len(text) \in Nat /\ produced[stream] \in Nat /\ Len(text) <= produced[stream]
        BY <2>1, <3>1, LenProperties DEF ScreenType, InFlight
      <4>2. ~(produced[stream] \in Len(text) + 1 .. produced[stream])
        BY <3>1, <3>2 DEF InFlight
      <4> QED
        BY <4>1, <4>2
    <3> QED
      BY <2>1, <3>1, <3>3, CommitShows DEF StreamCloses
  <2>3. CASE ~streaming
    <3>1. AtRest /\ UNCHANGED <<turns, text, working, streaming, events, run, produced>> /\ stream' = NoRun
      BY <2>1, <2>3 DEF Screen, StreamCloses
    <3>2. AtRest'
      BY <3>1 DEF AtRest
    <3>3. OneRun'
      BY <2>1, <3>1 DEF Screen, OneRun, StreamCloses
    <3>4. \A k \in 1..Len(turns) : Shown(turns[k])'
      BY <2>1, <3>1, ShownStays DEF Screen, Moves
    <3> QED
      BY <2>3, <3>1, <3>2, <3>3, <3>4 DEF Screen
  <2> QED
    BY <2>2, <2>3
<1> QED
  BY <1>1, <1>2 DEF SInv

(* The first event is the next number, as none is missing; or it is an ending, and
   nothing is behind it. *)
LEMMA TakeEventInv == SInv /\ TakeEvent => SInv'
<1> SUFFICES ASSUME SInv, TakeEvent PROVE SInv'
  OBVIOUS
<1> USE DEF runs
<1> DEFINE e == Head(events)
<1>1. ScreenType /\ events \in Seq(Events) /\ events # <<>> /\ events' = Tail(events)
  BY DEF SInv, ScreenType, TakeEvent
<1>2. /\ Len(events) \in Nat /\ Len(events) >= 1 /\ e = events[1] /\ e \in Events
      /\ events' \in Seq(Events) /\ Len(events') = Len(events) - 1
      /\ \A i \in 1..Len(events') : events'[i] = events[i + 1]
  BY <1>1, HeadTailProperties, LenProperties, EmptySeq
<1>3. /\ UNCHANGED <<run, produced, token, stream>>
      /\ \/ e.kind = "text" /\ text' = Append(text, e) /\ UNCHANGED <<turns, working, streaming>>
         \/ e.kind = "tools" /\ working' = TRUE /\ UNCHANGED <<turns, text, streaming>>
         \/ e.kind \in Endings /\ Commit
  BY DEF TakeEvent, Endings
<1>4. /\ Append(text, e) \in Seq(Events) /\ Len(Append(text, e)) = Len(text) + 1
      /\ Append(text, e)[Len(text) + 1] = e
      /\ \A i \in 1..Len(text) : Append(text, e)[i] = text[i]
      /\ Len(text) \in Nat
  BY <1>1, <1>2, AppendProperties, LenProperties DEF ScreenType
<1> HIDE DEF e
<1>5. ScreenType'
  BY <1>1, <1>2, <1>3, <1>4, CommitType DEF ScreenType
<1>6. ASSUME ~token' PROVE Screen'
  <2>1. Screen
    BY <1>3, <1>6 DEF SInv
  <2>2. streaming /\ InFlight
    BY <1>1, <2>1 DEF Screen, AtRest
  <2>3. OneRun'
    BY <1>3, <2>1 DEF Screen, OneRun
  <2>4. ASSUME NEW i \in 1..Len(events')
        PROVE  /\ i + 1 \in 1..Len(events) /\ events'[i] = events[i + 1]
               /\ events'[i].kind = "text" =>
                    /\ events'[i] = Piece(stream, events'[i].n)
                    /\ events'[i].n > Len(text) /\ events'[i].n <= produced[stream]
                    /\ e.kind = "text" => e.n < events'[i].n
                    /\ \A j \in 1..Len(events') :
                         i < j /\ events'[j].kind = "text" => events'[i].n < events'[j].n
               /\ events'[i].kind \in Endings => i = Len(events') /\ run[stream] = "ended"
    <3>1. i + 1 \in 1..Len(events) /\ events'[i] = events[i + 1] /\ 1 \in 1..Len(events)
      BY <1>2
    <3>2. \A j \in 1..Len(events') :
            j + 1 \in 1..Len(events) /\ events'[j] = events[j + 1] /\ (i < j => i + 1 < j + 1)
      BY <1>2
    <3>3. e.kind = "text" /\ events[i + 1].kind = "text" => e.n < events[i + 1].n
      <4>1. \A k \in 1..Len(events) :
              1 < k /\ events[1].kind = "text" /\ events[k].kind = "text" => events[1].n < events[k].n
        BY <2>2, <3>1 DEF InFlight
      <4>2. e = events[1] /\ 1 < i + 1
        BY <1>2
      <4> QED
        BY <3>1, <4>1, <4>2
    <3>4. events[i + 1].kind \in Endings => i + 1 = Len(events) /\ run[stream] = "ended"
      BY <2>2, <3>1 DEF InFlight
    <3>5. events[i + 1].kind = "text" =>
            /\ events[i + 1] = Piece(stream, events[i + 1].n)
            /\ events[i + 1].n > Len(text) /\ events[i + 1].n <= produced[stream]
            /\ \A j \in 1..Len(events) :
                 i + 1 < j /\ events[j].kind = "text" => events[i + 1].n < events[j].n
      BY <2>2, <3>1 DEF InFlight
    <3> QED
      BY <1>2, <3>1, <3>2, <3>3, <3>4, <3>5
  <2>5. \A k \in 1..Len(turns) : Shown(turns[k])
    BY <2>1 DEF Screen
  <2>6. produced[stream] \in Nat /\ Len(text) <= produced[stream]
        /\ text = [n \in 1..Len(text) |-> Piece(stream, n)] /\ stream \in Runs
    BY <1>1, <2>2 DEF InFlight, ScreenType
  <2>7. CASE e.kind = "text" /\ text' = Append(text, e) /\ UNCHANGED <<turns, working, streaming>>
    <3>1. e = Piece(stream, e.n) /\ e.n > Len(text) /\ e.n <= produced[stream] /\ e.n \in Nat
      <4>1. 1 \in 1..Len(events) /\ e.n \in Nat
        BY <1>2 DEF Events
      <4> QED
        BY <1>2, <2>2, <2>7, <4>1 DEF InFlight
    <3>2. e.n = Len(text) + 1
      <4>1. PICK i \in 1..Len(events) : events[i] = Piece(stream, Len(text) + 1)
        BY <1>4, <2>2, <2>6, <3>1 DEF InFlight
      <4>2. CASE i = 1
        BY <1>2, <4>1, <4>2 DEF Piece
      <4>3. CASE i # 1
        <5>1. i - 1 \in 1..Len(events') /\ events'[i - 1] = events[i]
          BY <1>2, <4>3
        <5>2. e.n < Len(text) + 1
          BY <2>4, <2>7, <4>1, <5>1 DEF Piece
        <5> QED
          BY <1>4, <3>1, <5>2
      <4> QED
        BY <4>2, <4>3
    <3>3. text' = [n \in 1..Len(text') |-> Piece(stream, n)]
      <4>1. Len(text') = Len(text) + 1 /\ text' \in Seq(Events)
        BY <1>4, <2>7
      <4>2. \A n \in 1..Len(text') : text'[n] = Piece(stream, n)
        BY <1>4, <2>6, <2>7, <3>1, <3>2, <4>1
      <4> QED
        BY <4>1, <4>2
    <3>4. ASSUME NEW n \in Len(text') + 1 .. produced[stream]
          PROVE  \E i \in 1..Len(events') : events'[i] = Piece(stream, n)
      <4>1. n \in Len(text) + 1 .. produced[stream] /\ n # e.n
        BY <1>4, <2>7, <3>2, <2>6
      <4>2. PICK i \in 1..Len(events) : events[i] = Piece(stream, n)
        BY <2>2, <4>1 DEF InFlight
      <4>3. i # 1
        BY <1>2, <4>1, <4>2 DEF Piece
      <4>4. i - 1 \in 1..Len(events') /\ events'[i - 1] = events[i]
        BY <1>2, <4>3
      <4> QED
        BY <4>2, <4>4
    <3>5. InFlight'
      <4>1. Len(text') = Len(text) + 1 /\ Len(text') <= produced[stream]
        BY <1>4, <2>7, <3>1, <3>2
      <4>2. \A i \in 1..Len(events') : events'[i].kind = "text" => events'[i].n > Len(text')
        BY <1>2, <1>4, <2>4, <2>7, <3>2, <4>1 DEF Events
      <4> QED
        BY <1>3, <2>2, <2>4, <3>3, <3>4, <4>1, <4>2 DEF InFlight, Piece
    <3> QED
      BY <1>3, <2>2, <2>3, <2>5, <2>7, <3>5, <1>1, ShownStays DEF Screen, Moves
  <2>8. CASE e.kind = "tools" /\ working' = TRUE /\ UNCHANGED <<turns, text, streaming>>
    <3>1. ASSUME NEW n \in Len(text) + 1 .. produced[stream]
          PROVE  \E i \in 1..Len(events') : events'[i] = Piece(stream, n)
      <4>1. PICK i \in 1..Len(events) : events[i] = Piece(stream, n)
        BY <2>2, <3>1 DEF InFlight
      <4>2. i # 1
        BY <1>2, <2>8, <4>1 DEF Piece
      <4>3. i - 1 \in 1..Len(events') /\ events'[i - 1] = events[i]
        BY <1>2, <4>2
      <4> QED
        BY <4>1, <4>3
    <3>2. InFlight'
      BY <1>3, <2>2, <2>4, <2>8, <3>1 DEF InFlight, Piece
    <3> QED
      BY <1>3, <2>2, <2>3, <2>5, <2>8, <3>2, <1>1, ShownStays DEF Screen, Moves
  <2>9. CASE e.kind \in Endings /\ Commit
    <3>1. Len(events) = 1 /\ run[stream] = "ended"
      BY <1>2, <2>2, <2>9 DEF InFlight
    <3>2. events' = <<>>
      BY <1>2, <3>1, EmptySeq
    <3>3. ASSUME NEW n \in Len(text) + 1 .. produced[stream] PROVE FALSE
      <4>1. PICK i \in 1..Len(events) : events[i] = Piece(stream, n)
        BY <2>2, <3>3 DEF InFlight
      <4> QED
        BY <1>2, <2>9, <3>1, <4>1 DEF Piece, Endings
    <3>4. Len(text) = produced[stream]
      BY <1>4, <2>6, <3>3
    <3> QED
      BY <1>1, <1>3, <2>1, <2>2, <2>9, <3>1, <3>2, <3>4, CommitShows
  <2> QED
    BY <1>3, <2>7, <2>8, <2>9
<1> QED
  BY <1>5, <1>6 DEF SInv

(* A prompt is taken when nothing streams: what the screen collects begins empty. *)
LEMMA SubmitInv == SInv /\ Submit => SInv'
<1> SUFFICES ASSUME SInv, Submit PROVE SInv'
  OBVIOUS
<1> DEFINE turn == [role |-> "user", text |-> <<>>]
<1>1. PICK r \in Runs : Start(r)
  BY DEF Submit
<1>2. /\ ~streaming /\ run[r] = "none" /\ run' = [run EXCEPT ![r] = "top"] /\ stream' = r
      /\ events' = <<>> /\ turns' = Append(turns, turn) /\ streaming' = TRUE
      /\ UNCHANGED <<produced, token, text, working>>
  BY <1>1 DEF Submit, Start, Becomes
<1>3. turn \in [role : {"user", "assistant"}, text : Seq(Events)]
  BY EmptySeq
<1>4. turn.role # "assistant"
  OBVIOUS
<1> HIDE DEF turn
<1>5. ScreenType
  BY DEF SInv
<1>6. /\ turns' \in Seq([role : {"user", "assistant"}, text : Seq(Events)])
      /\ Len(turns) \in Nat /\ Len(turns') = Len(turns) + 1 /\ turns'[Len(turns) + 1] = turn
      /\ \A j \in 1..Len(turns) : turns'[j] = turns[j]
  BY <1>2, <1>3, <1>5, AppendProperties, LenProperties DEF ScreenType
<1>7. events' \in Seq(Events) /\ Len(events') = 0
  BY <1>2, EmptySeq
<1>8. ScreenType'
  BY <1>2, <1>5, <1>6, <1>7 DEF ScreenType, States
<1>9. ASSUME ~token' PROVE Screen'
  <2>1. Screen /\ AtRest
    BY <1>2, <1>9 DEF SInv, Screen
  <2>2. \A q \in Runs : run[q] \in {"none", "ended"}
    BY <2>1 DEF Screen, OneRun, AtRest, NoRun, Runs
  <2>3. OneRun'
    BY <1>2, <1>5, <2>2 DEF OneRun, ScreenType
  <2>4. InFlight'
    <3>1. text' = <<>> /\ Len(text') = 0 /\ produced'[r] = 0 /\ run'[r] = "top"
      BY <1>2, <1>5, <2>1, EmptySeq DEF AtRest, ScreenType
    <3>2. text' = [n \in 1..Len(text') |-> Piece(r, n)]
      BY <3>1
    <3>3. \A n \in Len(text') + 1 .. produced'[r] : FALSE
      BY <3>1
    <3> QED
      BY <1>2, <1>7, <3>1, <3>2, <3>3 DEF InFlight, Piece
  <2>5. ASSUME NEW k \in 1..Len(turns') PROVE Shown(turns[k])'
    <3>1. turns'[k] = turn \/ \E j \in 1..Len(turns) : turns'[k] = turns[j]
      <4>1. k = Len(turns) + 1 \/ k \in 1..Len(turns)
        BY <1>6
      <4> QED
        BY <1>6, <4>1
    <3>2. Shown(turns'[k])
      BY <1>4, <2>1, <3>1 DEF Screen, Shown
    <3>3. \A q \in Runs : run[q] = "ended" => run'[q] = "ended"
      BY <1>2, <1>5 DEF ScreenType
    <3> QED
      BY <1>2, <3>2, <3>3 DEF Shown, Whole, Piece
  <2> QED
    BY <1>2, <2>3, <2>4, <2>5 DEF Screen
<1> QED
  BY <1>8, <1>9 DEF SInv

(* /clear and /rewind take turns away, and leave nothing of an answer behind. *)
LEMMA CommandInv == SInv /\ Command => SInv'
<1> SUFFICES ASSUME SInv, Command PROVE SInv'
  OBVIOUS
<1> USE DEF runs
<1>1. /\ ~streaming /\ UNCHANGED <<run, produced, token, stream, events, streaming>>
      /\ \/ turns' = <<>> /\ text' = <<>> /\ working' = FALSE
         \/ /\ \E i \in LastOfAssistant : turns' = SubSeq(turns, 1, i - 1)
            /\ UNCHANGED <<text, working>>
         \/ UNCHANGED <<turns, text, working>>
  BY DEF Command
<1>2. ScreenType
  BY DEF SInv
<1>3. /\ turns' \in Seq([role : {"user", "assistant"}, text : Seq(Events)])
      /\ \A k \in 1..Len(turns') : \E j \in 1..Len(turns) : turns'[k] = turns[j]
  <2>1. CASE turns' = <<>>
    BY <2>1, EmptySeq
  <2>2. CASE \E i \in LastOfAssistant : turns' = SubSeq(turns, 1, i - 1)
    <3>1. PICK i \in DOMAIN turns : turns' = SubSeq(turns, 1, i - 1)
      BY <2>2 DEF LastOfAssistant
    <3>2. i \in 1..Len(turns) /\ Len(turns) \in Nat
      BY <1>2, <3>1, LenProperties DEF ScreenType
    <3> DEFINE S == [role : {"user", "assistant"}, text : Seq(Events)]
               s == turns
    <3> HIDE DEF S, s
    <3>3. /\ i - 1 \in Int /\ i - 1 >= 0 /\ i - 1 - 1 + 1 = i - 1
          /\ \A k \in 1..i - 1 : 1 + k - 1 = k /\ k \in 1..Len(turns)
      BY <3>2
    <3>4. turns \in Seq(S)
      BY <1>2 DEF ScreenType, S
    <3>5. \A k \in 1..i - 1 : s[k] \in S
      BY <3>3, <3>4, ElementOfSeq DEF s
    <3>6. /\ SubSeq(s, 1, i - 1) \in Seq(S)
          /\ Len(SubSeq(s, 1, i - 1)) = IF 1 <= i - 1 THEN i - 1 - 1 + 1 ELSE 0
          /\ \A k \in 1..i - 1 - 1 + 1 : SubSeq(s, 1, i - 1)[k] = s[1 + k - 1]
      BY <3>3, <3>5, SubSeqProperties
    <3>7. /\ turns' \in Seq([role : {"user", "assistant"}, text : Seq(Events)])
          /\ Len(turns') = i - 1 /\ \A k \in 1..i - 1 : turns'[k] = turns[k]
      BY <3>1, <3>2, <3>3, <3>6 DEF S, s
    <3>8. \A k \in 1..Len(turns') : k \in 1..Len(turns) /\ turns'[k] = turns[k]
      BY <3>2, <3>7
    <3> QED
      BY <3>7, <3>8
  <2>3. CASE UNCHANGED turns
    BY <1>2, <2>3 DEF ScreenType
  <2> QED
    BY <1>1, <2>1, <2>2, <2>3
<1>4. text' \in Seq(Events)
  BY <1>1, <1>2, EmptySeq DEF ScreenType
<1>5. ScreenType'
  BY <1>1, <1>2, <1>3, <1>4 DEF ScreenType
<1>6. ASSUME ~token' PROVE Screen'
  <2>1. Screen /\ AtRest
    BY <1>1, <1>6 DEF SInv, Screen
  <2>2. OneRun' /\ AtRest'
    BY <1>1, <2>1 DEF Screen, OneRun, AtRest
  <2>3. ASSUME NEW k \in 1..Len(turns') PROVE Shown(turns[k])'
    <3>1. Shown(turns'[k])
      BY <1>3, <2>1 DEF Screen
    <3> QED
      BY <1>1, <3>1 DEF Shown, Whole, Piece
  <2> QED
    BY <1>1, <2>2, <2>3 DEF Screen
<1> QED
  BY <1>5, <1>6 DEF SInv

LEMMA InitSInv == Init => SInv
<1> SUFFICES ASSUME Init PROVE SInv
  OBVIOUS
<1>1. events \in Seq(Events) /\ text \in Seq(Events) /\ turns = <<>> /\ Len(turns) = 0
      /\ turns \in Seq([role : {"user", "assistant"}, text : Seq(Events)])
  BY EmptySeq DEF Init
<1>2. ScreenType
  BY <1>1 DEF Init, ScreenType, States, NoRun
<1>3. OneRun /\ AtRest
  BY DEF Init, OneRun, AtRest
<1> QED
  BY <1>1, <1>2, <1>3 DEF Init, SInv, Screen

(* What only moves a run on, or the dialog. *)
LEMMA MovesInv ==
    ASSUME SInv, NEW r \in Runs, NEW from \in States \ {"none", "ended"},
           NEW to \in States \ {"none"}, Becomes(r, from, to),
           UNCHANGED <<produced, screen, events, token>>
    PROVE  SInv'
<1>1. ScreenType
  BY DEF SInv
<1>2. run' \in [Runs -> States] /\ Moves /\ token' \in BOOLEAN
  BY <1>1 DEF ScreenType, Becomes, Moves
<1> QED
  BY <1>2, ScreenStays

LEMMA StillInv == SInv /\ UNCHANGED <<run, produced, token, output>> => SInv'
<1> SUFFICES ASSUME SInv, UNCHANGED <<run, produced, token, output>> PROVE SInv'
  OBVIOUS
<1>1. run' \in [Runs -> States] /\ Moves /\ token' \in BOOLEAN
  BY DEF SInv, ScreenType, Moves, output
<1> QED
  BY <1>1, ScreenStays DEF output, screen

LEMMA AnnounceInv == \A r \in Runs : SInv /\ Announce(r) => SInv'
<1> SUFFICES ASSUME NEW r \in Runs, SInv, Announce(r) PROVE SInv'
  OBVIOUS
<1>1. run \in [Runs -> States]
  BY DEF SInv, ScreenType
<1>2. PICK kind \in {"complete", "error"} : Emit(r, kind, 0)
  BY DEF Announce
<1>3. /\ run[r] \notin {"none", "ended"} /\ run'[r] = "ended" /\ run' \in [Runs -> States] /\ Moves
      /\ UNCHANGED <<screen, token, produced>>
  BY <1>1 DEF Announce, Becomes, Moves, States
<1> QED
  BY <1>2, <1>3, ScreenSends

LEMMA BatchSends == \A r \in Runs : SInv /\ Batch(r) => SInv'
<1> SUFFICES ASSUME NEW r \in Runs, SInv, Batch(r) PROVE SInv'
  OBVIOUS
<1>1. run \in [Runs -> States]
  BY DEF SInv, ScreenType
<1>2. /\ run[r] \notin {"none", "ended"} /\ run' \in [Runs -> States] /\ Moves
      /\ UNCHANGED <<screen, token, produced>> /\ Emit(r, "tools", 0)
  BY <1>1 DEF Batch, Becomes, Moves, States
<1>3. "tools" \notin Endings
  BY DEF Endings
<1> QED
  BY <1>2, <1>3, ScreenSends

LEMMA TextSends == \A r \in Runs : SInv /\ Text(r) => SInv'
<1> SUFFICES ASSUME NEW r \in Runs, SInv, Text(r) PROVE SInv'
  OBVIOUS
<1>1. run \in [Runs -> States] /\ produced \in [Runs -> Nat]
  BY DEF SInv, ScreenType
<1>2. produced[r] + 1 \in Nat /\ produced' = [produced EXCEPT ![r] = produced[r] + 1]
  BY <1>1 DEF Text
<1>3. /\ run[r] \notin {"none", "ended"} /\ run' \in [Runs -> States] /\ Moves
      /\ UNCHANGED <<screen, token>> /\ Emit(r, "text", produced[r] + 1)
  BY <1>1 DEF Text, Moves, States
<1>4. "text" \notin Endings
  BY DEF Endings
<1> QED
  BY <1>2, <1>3, <1>4, ScreenSends

LEMMA NextSInv == SInv /\ [Next]_vars => SInv'
<1> SUFFICES ASSUME SInv, [Next]_vars PROVE SInv'
  OBVIOUS
<1> USE DEF runs, output
<1>1. CASE TakeEvent \/ StreamCloses \/ Submit \/ Command
  BY <1>1, TakeEventInv, ClosesInv, SubmitInv, CommandInv
<1>2. CASE TakeRequest \/ Press \/ Answer \/ Dismiss \/ SwitchMode
  BY <1>2, StillInv DEF TakeRequest, Press, Answer, Dismiss, SwitchMode
<1>3. CASE Quit \/ UNCHANGED vars
  BY <1>3, StillInv DEF Quit, vars
<1>4. CASE Cancel
  <2>1. token' = TRUE /\ Commit /\ UNCHANGED <<run, produced, stream, events>>
    BY <1>4 DEF Cancel
  <2> QED
    BY <2>1, CommitType DEF SInv, ScreenType
<1>5. ASSUME NEW r \in Runs, OfRun(r)
      PROVE  SInv'
  <2>1. CASE BeginTurn(r)
    BY <2>1, MovesInv DEF BeginTurn, States, screen
  <2>2. CASE StopOnToken(r)
    BY <2>2, MovesInv DEF StopOnToken, Fail, States, screen
  <2>3. CASE Announce(r)
    BY <2>3, AnnounceInv
  <2>4. CASE EndBatch(r)
    BY <2>4, MovesInv DEF EndBatch, States, screen
  <2> QED
    BY <1>5, <2>1, <2>2, <2>3, <2>4 DEF OfRun
<1>6. ASSUME NEW r \in Runs, Provider(r)
      PROVE  SInv'
  <2>1. CASE Text(r)
    BY <2>1, TextSends
  <2>2. CASE Batch(r)
    BY <2>2, BatchSends
  <2>3. CASE Complete(r) \/ Fail(r)
    BY <2>3, MovesInv DEF Complete, Fail, States, screen
  <2>4. CASE Panic(r)
    BY <2>4, MovesInv DEF Panic, States, screen
  <2> QED
    BY <1>6, <2>1, <2>2, <2>3, <2>4 DEF Provider
<1>7. ASSUME NEW r \in Runs, NEW i \in Positions, OfCall(r, i)
      PROVE  SInv'
  BY <1>7, StillInv DEF OfCall, Check, Ask, Hear
<1> QED
  BY <1>1, <1>2, <1>3, <1>4, <1>5, <1>6, <1>7 DEF Next, Loop, Key

(* As long as nothing was cancelled, an answer the terminal shows is all that one run
   sent, in its order, and that run is over: whatever the user types, clears or rewinds,
   whatever the mode and the calls, with any room in the channel and however runs end. *)
THEOREM AnswersAreWhole == Spec => []TurnsAreWhole
<1>1. SInv => TurnsAreWhole
  <2> SUFFICES ASSUME SInv, ~token, NEW k \in DOMAIN turns, turns[k].role = "assistant"
               PROVE  \E r \in Runs : /\ run[r] = "ended"
                                      /\ turns[k].text = [n \in 1..produced[r] |->
                                                            [kind |-> "text", run |-> r, n |-> n]]
    BY DEF TurnsAreWhole
  <2>1. k \in 1..Len(turns)
    BY LenProperties DEF SInv, ScreenType
  <2> QED
    BY <2>1 DEF SInv, Screen, Shown, Whole, Piece
<1> QED
  BY <1>1, InitSInv, NextSInv, PTL DEF Spec
===============================================================================
