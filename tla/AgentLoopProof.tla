--------------------------- MODULE AgentLoopProof ---------------------------
(***************************************************************************)
(* First, what the compaction functions of History preserve, for every     *)
(* history and every number of messages to keep; and what becomes of a     *)
(* request's settings, for every budget, limit and family of models.       *)
(*                                                                         *)
(* Then, for every value of the constants of AgentLoop: its type           *)
(* invariant; that every message of tool results directly follows the      *)
(* calls it answers, in memory and in the stored session, so that no       *)
(* history ever holds an orphaned tool_result; that requests open with a   *)
(* user message, calls are answered once, compaction keeps the recent      *)
(* turns and a save extends the session; and that forced choices and       *)
(* budgets keep to their run.                                              *)
(*                                                                         *)
(* The pairing is not inductive alone: a batch is answered two steps after *)
(* its calls entered the history, so the invariant remembers that while a  *)
(* response is being handled the history still ends with its calls.        *)
(***************************************************************************)
EXTENDS AgentLoop, Settings, SequenceTheorems, WellFoundedInduction, TLAPS

\* A non-empty set of natural numbers has a least element (the back-off loop
\* counts down to it).
LEMMA LeastNat ==
    ASSUME NEW T, T \subseteq Nat, T # {}
    PROVE  \E x \in T : \A y \in T : x <= y
<1> DEFINE R == OpToRel(<, Nat)
<1>1. IsWellFoundedOn(R, Nat)
  BY NatLessThanWellFounded
<1>2. \A x, y \in Nat : (<<y, x>> \in R) <=> y < x
  BY SMT DEF R, OpToRel
<1> HIDE DEF R
<1>3. PICK x \in T : \A y \in T : ~ (<<y, x>> \in R)
  BY <1>1, WFMin
<1>4. \A y \in T : x <= y
  <2> TAKE y \in T
  <2>1. ~ (<<y, x>> \in R)
    BY <1>3
  <2>2. x \in Nat /\ y \in Nat
    OBVIOUS
  <2>3. ~ (y < x)
    BY <2>1, <2>2, <1>2
  <2> QED
    BY <2>2, <2>3
<1> QED
  BY <1>4

\* The back-off loop of pair_aware_split ends, and where it ends the first
\* kept message is not a tool_result unless the whole history is kept.
LEMMA SplitProperties ==
    ASSUME NEW msgs \in Seq(Message), NEW keep \in Nat \ {0}
    PROVE  /\ PairAwareSplit(msgs, keep) \in 0..NaiveSplit(msgs, keep)
           /\ \/ PairAwareSplit(msgs, keep) = 0
              \/ ~CarriesToolResult(msgs[PairAwareSplit(msgs, keep) + 1])
           /\ \A t \in (PairAwareSplit(msgs, keep) + 1)..NaiveSplit(msgs, keep) :
                CarriesToolResult(msgs[t + 1])
<1> DEFINE top == NaiveSplit(msgs, keep)
           Halts(s) == s = 0 \/ ~CarriesToolResult(msgs[s + 1])
           T == {n \in Nat : n <= top /\ Halts(top - n)}
           Good(s) == /\ Halts(s)
                      /\ \A t \in (s + 1)..top : CarriesToolResult(msgs[t + 1])
<1>1. top \in Nat
  BY LenProperties, SMT DEF NaiveSplit
<1>2. T # {}
  BY <1>1, top \in T, SMT
<1>3. PICK n \in T : \A m \in T : n <= m
  BY <1>2, LeastNat
<1>4. top - n \in 0..top /\ Halts(top - n)
  BY <1>1, <1>3
<1>5. ASSUME NEW t \in (top - n + 1)..top
      PROVE  CarriesToolResult(msgs[t + 1])
  <2>1. top - t \in Nat /\ top - t < n /\ top - (top - t) = t /\ top - t <= top
    BY <1>1, <1>3, <1>5
  <2>2. top - t \notin T
    BY <2>1, <1>3
  <2> QED
    BY <2>1, <2>2
<1>6. \E s \in 0..top : Good(s)
  BY <1>4, <1>5
<1>7. PairAwareSplit(msgs, keep) = CHOOSE s \in 0..top : Good(s)
  BY DEF PairAwareSplit
<1> HIDE DEF top, Good
<1>8. PairAwareSplit(msgs, keep) \in 0..top /\ Good(PairAwareSplit(msgs, keep))
  BY <1>6, <1>7
<1> QED
  BY <1>8 DEF top, Good

\* What a cut keeps is the end of the history, from the split on.
LEMMA KeptIsSuffix ==
    ASSUME NEW msgs \in Seq(Message), NEW keep \in Nat \ {0}
    PROVE  LET split == PairAwareSplit(msgs, keep) IN
           /\ split \in 0..NaiveSplit(msgs, keep)
           /\ Kept(msgs, keep) \in Seq(Message)
           /\ Len(Kept(msgs, keep)) = Len(msgs) - split
           /\ \A i \in 1..(Len(msgs) - split) : Kept(msgs, keep)[i] = msgs[split + i]
<1> DEFINE split == PairAwareSplit(msgs, keep)
           kept == Kept(msgs, keep)
<1>1. split \in 0..NaiveSplit(msgs, keep) /\ split \in Nat /\ split <= Len(msgs)
  BY SplitProperties, LenProperties DEF NaiveSplit
<1>2. kept = SubSeq(msgs, split + 1, Len(msgs))
  BY DEF Kept
<1> HIDE DEF split
<1>3. \A i \in (split + 1)..Len(msgs) : msgs[i] \in Message
  BY <1>1, ElementOfSeq, LenProperties
<1>4. split + 1 \in Int /\ Len(msgs) \in Int
  BY <1>1, LenProperties
<1>5. /\ SubSeq(msgs, split + 1, Len(msgs)) \in Seq(Message)
      /\ Len(SubSeq(msgs, split + 1, Len(msgs))) =
           IF split + 1 <= Len(msgs) THEN Len(msgs) - (split + 1) + 1 ELSE 0
      /\ \A i \in 1..(Len(msgs) - (split + 1) + 1) :
           SubSeq(msgs, split + 1, Len(msgs))[i] = msgs[split + 1 + i - 1]
  BY <1>3, <1>4, SubSeqProperties
<1> HIDE DEF kept
<1>6. /\ kept \in Seq(Message)
      /\ Len(kept) = Len(msgs) - split
      /\ \A i \in 1..(Len(msgs) - split) : kept[i] = msgs[split + i]
  BY <1>1, <1>2, <1>4, <1>5
<1> QED
  BY <1>1, <1>6 DEF split, kept

\* What a cut keeps of a paired history is a paired history.
LEMMA KeptProperties ==
    ASSUME NEW msgs \in Seq(Message), NEW keep \in Nat \ {0}, Paired(msgs)
    PROVE  /\ Kept(msgs, keep) \in Seq(Message)
           /\ Paired(Kept(msgs, keep))
<1> DEFINE split == PairAwareSplit(msgs, keep)
           kept == Kept(msgs, keep)
<1>1. split \in Nat /\ split <= Len(msgs)
  BY SplitProperties, LenProperties DEF NaiveSplit
<1>2. split = 0 \/ ~CarriesToolResult(msgs[split + 1])
  BY SplitProperties
<1>4. /\ kept \in Seq(Message)
      /\ Len(kept) = Len(msgs) - split
      /\ \A i \in 1..(Len(msgs) - split) : kept[i] = msgs[split + i]
  BY KeptIsSuffix
<1> HIDE DEF split
<1>5. Paired(kept)
  <2> SUFFICES ASSUME NEW i \in DOMAIN kept, CarriesToolResult(kept[i])
               PROVE  i > 1 /\ kept[i - 1].uses = kept[i].results
    BY DEF Paired
  <2> HIDE DEF kept
  <2>1. i \in 1..(Len(msgs) - split) /\ kept[i] = msgs[split + i]
    BY <1>4, LenProperties
  <2>2. split + i \in DOMAIN msgs
    BY <1>1, <2>1, LenProperties
  <2> DEFINE j == split + i
  <2> HIDE DEF j
  <2>3. j > 1 /\ msgs[j - 1].uses = msgs[j].results
    <3>1. CarriesToolResult(msgs[j]) /\ j \in DOMAIN msgs
      BY <2>1, <2>2 DEF j
    <3> QED
      BY <3>1 DEF Paired
  <2>4. i > 1
    BY <1>1, <1>2, <2>1, <2>3 DEF j
  <2>5. kept[i - 1] = msgs[j - 1]
    <3>1. Len(msgs) \in Nat
      BY LenProperties
    <3>2. i - 1 \in 1..(Len(msgs) - split) /\ split + (i - 1) = j - 1
      BY <1>1, <2>1, <2>4, <3>1 DEF j
    <3> QED
      BY <1>4, <3>2
  <2> QED
    BY <2>1, <2>3, <2>4, <2>5 DEF j
<1> QED
  BY <1>4, <1>5

\* The messages the runner builds are messages.
LEMMA ConstructorTypes ==
    /\ User \in Message
    /\ \A ids \in SUBSET Nat : Assistant(ids) \in Message /\ ToolResults(ids) \in Message
BY DEF Message, User, Assistant, ToolResults

\* A message that answers nothing, put in front, never breaks the pairing.
LEMMA PairedPrepend ==
    ASSUME NEW msgs \in Seq(Message), Paired(msgs)
    PROVE  <<User>> \o msgs \in Seq(Message) /\ Paired(<<User>> \o msgs)
<1> DEFINE all == <<User>> \o msgs
<1>1. <<User>> \in Seq(Message) /\ Len(<<User>>) = 1 /\ <<User>>[1] = User
  BY ConstructorTypes
<1>2. /\ all \in Seq(Message) /\ Len(all) = 1 + Len(msgs)
      /\ \A i \in 1..(1 + Len(msgs)) : all[i] = IF i <= 1 THEN User ELSE msgs[i - 1]
  BY <1>1, ConcatProperties
<1> HIDE DEF all
<1>3. ASSUME NEW i \in DOMAIN all, CarriesToolResult(all[i])
      PROVE  i > 1 /\ all[i - 1].uses = all[i].results
  <2>1. i \in 1..(1 + Len(msgs)) /\ Len(msgs) \in Nat
    BY <1>2, LenProperties
  <2>2. i > 1
    BY <1>2, <1>3, <2>1 DEF CarriesToolResult, User
  <2>3. all[i] = msgs[i - 1] /\ i - 1 \in DOMAIN msgs
    BY <1>2, <2>1, <2>2, LenProperties
  <2>4. i - 1 > 1 /\ msgs[i - 2].uses = msgs[i - 1].results
    BY <1>3, <2>1, <2>3 DEF Paired
  <2>5. all[i - 1] = msgs[i - 2]
    BY <1>2, <2>1, <2>4
  <2> QED
    BY <2>2, <2>3, <2>4, <2>5
<1> QED
  BY <1>2, <1>3 DEF Paired, all

\* Nor does a message at the end that answers nothing or the newest message.
LEMMA PairedAppend ==
    ASSUME NEW msgs \in Seq(Message), Paired(msgs), NEW m \in Message,
           \/ m.results = {}
           \/ msgs # << >> /\ msgs[Len(msgs)].uses = m.results
    PROVE  Append(msgs, m) \in Seq(Message) /\ Paired(Append(msgs, m))
<1> DEFINE all == Append(msgs, m)
<1>1. /\ all \in Seq(Message) /\ Len(all) = Len(msgs) + 1
      /\ \A i \in 1..Len(msgs) : all[i] = msgs[i]
      /\ all[Len(msgs) + 1] = m
  BY AppendProperties
<1>2. Len(msgs) \in Nat /\ DOMAIN msgs = 1..Len(msgs) /\ (msgs # << >> => Len(msgs) > 0)
  BY LenProperties, EmptySeq
<1>3. DOMAIN all = 1..(Len(msgs) + 1)
  BY <1>1, LenProperties
<1> HIDE DEF all
<1>4. ASSUME NEW i \in DOMAIN all, CarriesToolResult(all[i])
      PROVE  i > 1 /\ all[i - 1].uses = all[i].results
  <2>1. CASE i = Len(msgs) + 1
    BY <1>1, <1>2, <1>4, <2>1 DEF CarriesToolResult
  <2>2. CASE i \in 1..Len(msgs)
    <3>1. CarriesToolResult(msgs[i]) /\ all[i] = msgs[i]
      BY <1>1, <1>4, <2>2
    <3>2. i > 1 /\ msgs[i - 1].uses = msgs[i].results
      BY <1>2, <2>2, <3>1 DEF Paired
    <3> QED
      BY <1>1, <1>2, <2>2, <3>1, <3>2
  <2> QED
    BY <1>2, <1>3, <2>1, <2>2
<1> QED
  BY <1>1, <1>4 DEF Paired, all

\* Both ways of compacting keep a well-formed, paired history.
THEOREM CompactionKeepsPairs ==
    ASSUME NEW msgs \in Seq(Message), NEW keep \in Nat \ {0}, Paired(msgs)
    PROVE  /\ SnipCompact(msgs, keep) \in Seq(Message) /\ Paired(SnipCompact(msgs, keep))
           /\ SummaryCompact(msgs, keep) \in Seq(Message) /\ Paired(SummaryCompact(msgs, keep))
<1>1. Kept(msgs, keep) \in Seq(Message) /\ Paired(Kept(msgs, keep))
  BY KeptProperties
<1>2. <<User>> \o Kept(msgs, keep) \in Seq(Message) /\ Paired(<<User>> \o Kept(msgs, keep))
  BY <1>1, PairedPrepend
<1> QED
  BY <1>1, <1>2 DEF SnipCompact, SummaryCompact

\* In a paired history the check of find_orphaned_tool_results reports nothing.
THEOREM PairedHasNoOrphans ==
    ASSUME NEW msgs \in Seq(Message), Paired(msgs)
    PROVE  Orphaned(msgs) = {}
<1> SUFFICES ASSUME NEW id, NEW i \in DOMAIN msgs, id \in msgs[i].results,
                    \A j \in 1..i : id \notin msgs[j].uses
             PROVE  FALSE
  BY DEF Orphaned
<1>1. i \in 1..Len(msgs) /\ Len(msgs) \in Nat
  BY LenProperties
<1>2. i > 1 /\ msgs[i - 1].uses = msgs[i].results
  BY DEF Paired, CarriesToolResult
<1>3. i - 1 \in 1..i
  BY <1>1, <1>2
<1> QED
  BY <1>2, <1>3

-----------------------------------------------------------------------------
(* What the runner's steps keep of a history, besides its pairs. *)

\* the shape a provider asks for: the first message is the user's
Opening(msgs) == msgs # << >> => msgs[1].role = "user"

\* calls have numbers below n, and no number is used by two messages
Fresh(msgs, n) ==
    /\ \A i \in DOMAIN msgs : \A u \in msgs[i].uses : u < n
    /\ \A i, j \in DOMAIN msgs : i # j => msgs[i].uses \cap msgs[j].uses = {}

StartsWith(msgs, old) ==
    Len(old) <= Len(msgs) /\ \A i \in 1..Len(old) : msgs[i] = old[i]

\* A message with calls that are newer than all others keeps the shape.
LEMMA AppendKeeps ==
    ASSUME NEW msgs \in Seq(Message), NEW m \in Message, NEW n \in Nat, NEW k \in Nat,
           n <= k, Opening(msgs), Fresh(msgs, n),
           msgs = << >> => m.role = "user", \A u \in m.uses : n <= u /\ u < k
    PROVE  /\ Append(msgs, m) \in Seq(Message) /\ Append(msgs, m) # << >>
           /\ Len(Append(msgs, m)) = Len(msgs) + 1
           /\ \A i \in 1..Len(msgs) : Append(msgs, m)[i] = msgs[i]
           /\ Append(msgs, m)[Len(msgs) + 1] = m
           /\ Opening(Append(msgs, m)) /\ Fresh(Append(msgs, m), k)
<1> DEFINE all == Append(msgs, m)
<1>1. /\ all \in Seq(Message) /\ Len(all) = Len(msgs) + 1 /\ all # << >>
      /\ \A i \in 1..Len(msgs) : all[i] = msgs[i]
      /\ all[Len(msgs) + 1] = m
  BY AppendProperties
<1>2. Len(msgs) \in Nat /\ DOMAIN msgs = 1..Len(msgs) /\ (msgs # << >> => Len(msgs) > 0)
      /\ (Len(msgs) = 0 <=> msgs = << >>)
  BY LenProperties, EmptySeq
<1>3. DOMAIN all = 1..(Len(msgs) + 1)
  BY <1>1, LenProperties
<1> HIDE DEF all
<1>4. Opening(all)
  BY <1>1, <1>2 DEF Opening
<1>5. ASSUME NEW i \in DOMAIN msgs, NEW u \in msgs[i].uses
      PROVE  u \in Nat /\ u < n /\ u \notin m.uses
  <2>1. msgs[i] \in Message
    BY <1>2, ElementOfSeq
  <2>2. u \in Nat /\ u < n
    BY <2>1, <1>5 DEF Message, Fresh
  <2> QED
    BY <2>2
<1>6. \A i \in DOMAIN all : \A u \in all[i].uses : u < k
  <2> TAKE i \in DOMAIN all
  <2> TAKE u \in all[i].uses
  <2>1. CASE i = Len(msgs) + 1
    BY <1>1, <2>1
  <2>2. CASE i \in 1..Len(msgs)
    <3>1. u \in Nat /\ u < n
      BY <1>1, <1>2, <1>5, <2>2
    <3> QED
      BY <3>1
  <2> QED
    BY <1>2, <1>3, <2>1, <2>2
<1>7. \A i, j \in DOMAIN all : i # j => all[i].uses \cap all[j].uses = {}
  <2> SUFFICES ASSUME NEW i \in DOMAIN all, NEW j \in DOMAIN all, i # j,
                      NEW u \in all[i].uses \cap all[j].uses
               PROVE  FALSE
    OBVIOUS
  <2>1. CASE i \in DOMAIN msgs /\ j \in DOMAIN msgs
    <3>1. msgs[i].uses \cap msgs[j].uses = {}
      BY <2>1 DEF Fresh
    <3> QED
      BY <1>1, <1>2, <2>1, <3>1
  <2>2. CASE i = Len(msgs) + 1
    <3>1. j \in DOMAIN msgs
      BY <1>2, <1>3, <2>2
    <3> QED
      BY <1>1, <1>2, <1>5, <2>2, <3>1
  <2>3. CASE j = Len(msgs) + 1
    <3>1. i \in DOMAIN msgs
      BY <1>2, <1>3, <2>3
    <3> QED
      BY <1>1, <1>2, <1>5, <2>3, <3>1
  <2> QED
    BY <1>2, <1>3, <2>1, <2>2, <2>3
<1> QED
  BY <1>1, <1>4, <1>6, <1>7 DEF Fresh, all

\* Both ways of compacting keep the end of the history, with at most one user
\* message in front of it.
LEMMA CompactedIsSuffix ==
    ASSUME NEW msgs \in Seq(Message), NEW keep \in Nat \ {0}, Len(msgs) > keep,
           NEW new \in {SnipCompact(msgs, keep), SummaryCompact(msgs, keep)}
    PROVE  \E s \in 0..(Len(msgs) - keep), p \in {0, 1} :
              /\ new \in Seq(Message) /\ Len(new) = p + (Len(msgs) - s)
              /\ new[1].role = "user" /\ (p = 1 => new[1] = User)
              /\ \A i \in 1..(Len(msgs) - s) : new[p + i] = msgs[s + i]
<1> DEFINE s == PairAwareSplit(msgs, keep)
           kept == Kept(msgs, keep)
<1>1. /\ s \in 0..NaiveSplit(msgs, keep)
      /\ kept \in Seq(Message)
      /\ Len(kept) = Len(msgs) - s
      /\ \A i \in 1..(Len(msgs) - s) : kept[i] = msgs[s + i]
  BY KeptIsSuffix
<1>2. Len(msgs) \in Nat /\ NaiveSplit(msgs, keep) = Len(msgs) - keep
  BY LenProperties DEF NaiveSplit
<1>3. new \in {kept, <<User>> \o kept} /\ (new = kept => Head(kept).role = "user" \/ kept = << >>)
  <2>1. SummaryCompact(msgs, keep) = <<User>> \o kept
    BY DEF SummaryCompact
  <2>2. ~(Len(msgs) <= keep)
    BY <1>2
  <2>3. SnipCompact(msgs, keep) =
          IF kept # << >> /\ Head(kept).role # "user" THEN <<User>> \o kept ELSE kept
    BY <2>2 DEF SnipCompact
  <2>4. <<User>> \o kept # kept
    <3> HIDE DEF kept
    <3>1. <<User>> \in Seq(Message) /\ Len(<<User>>) = 1
      BY ConstructorTypes
    <3>2. Len(<<User>> \o kept) = 1 + Len(kept) /\ Len(kept) \in Nat
      BY <1>1, <3>1, ConcatProperties, LenProperties
    <3> QED
      BY <3>2
  <2> HIDE DEF kept
  <2> QED
    BY <2>1, <2>3, <2>4
<1> HIDE DEF s, kept
<1>4. s \in 0..(Len(msgs) - keep) /\ Len(kept) > 0 /\ kept # << >>
  BY <1>1, <1>2, EmptySeq
<1>5. CASE new = kept
  <2>1. Head(kept) = kept[1]
    BY <1>1, <1>4, HeadTailProperties
  <2>2. kept[1].role = "user"
    BY <1>3, <1>4, <1>5, <2>1
  <2>3. /\ new \in Seq(Message) /\ Len(new) = 0 + (Len(msgs) - s)
        /\ new[1].role = "user" /\ (0 = 1 => new[1] = User)
        /\ \A i \in 1..(Len(msgs) - s) : new[0 + i] = msgs[s + i]
    BY <1>1, <1>2, <1>5, <2>2
  <2> QED
    BY <1>4, <2>3
<1>6. CASE new = <<User>> \o kept
  <2> DEFINE u == <<User>>
  <2>1. u \in Seq(Message) /\ Len(u) = 1 /\ u[1] = User
    BY ConstructorTypes
  <2> HIDE DEF u
  <2>5. /\ u \o kept \in Seq(Message) /\ Len(u \o kept) = 1 + Len(kept)
        /\ \A i \in 1..(1 + Len(kept)) : (u \o kept)[i] = IF i <= 1 THEN u[i] ELSE kept[i - 1]
    <3>1. kept \in Seq(Message) /\ Len(kept) \in Nat
      BY <1>1, LenProperties
    <3>2. /\ u \o kept \in Seq(Message) /\ Len(u \o kept) = Len(u) + Len(kept)
          /\ \A i \in 1..(Len(u) + Len(kept)) :
               (u \o kept)[i] = IF i <= Len(u) THEN u[i] ELSE kept[i - Len(u)]
      BY <2>1, <3>1, ConcatProperties
    <3> QED
      BY <2>1, <3>1, <3>2
  <2>2. /\ new \in Seq(Message) /\ Len(new) = 1 + Len(kept)
        /\ \A i \in 1..(1 + Len(kept)) : new[i] = IF i <= 1 THEN User ELSE kept[i - 1]
    <3>1. new = u \o kept /\ Len(kept) \in Nat
      BY <1>1, <1>6, LenProperties DEF u
    <3> QED
      BY <2>1, <2>5, <3>1
  <2>3. new[1] = User /\ \A i \in 1..Len(kept) : new[1 + i] = kept[i]
    BY <1>4, <2>2
  <2>4. /\ Len(new) = 1 + (Len(msgs) - s) /\ new[1].role = "user"
        /\ \A i \in 1..(Len(msgs) - s) : new[1 + i] = msgs[s + i]
    BY <1>1, <2>2, <2>3 DEF User
  <2> QED
    BY <1>4, <2>2, <2>3, <2>4
<1> QED
  BY <1>3, <1>5, <1>6

\* Compacting keeps the shape, and the newest message stays the newest.
LEMMA CompactedKeeps ==
    ASSUME NEW msgs \in Seq(Message), NEW keep \in Nat \ {0}, Len(msgs) > keep,
           NEW new \in {SnipCompact(msgs, keep), SummaryCompact(msgs, keep)},
           NEW n \in Nat, Fresh(msgs, n)
    PROVE  /\ new \in Seq(Message) /\ new # << >>
           /\ Opening(new) /\ Fresh(new, n)
           /\ new[Len(new)] = msgs[Len(msgs)]
<1>1. PICK s \in 0..(Len(msgs) - keep), p \in {0, 1} :
         /\ new \in Seq(Message) /\ Len(new) = p + (Len(msgs) - s)
         /\ new[1].role = "user" /\ (p = 1 => new[1] = User)
         /\ \A i \in 1..(Len(msgs) - s) : new[p + i] = msgs[s + i]
  BY CompactedIsSuffix
<1>2. Len(msgs) \in Nat /\ DOMAIN msgs = 1..Len(msgs) /\ DOMAIN new = 1..Len(new)
  BY <1>1, LenProperties
<1>3. Len(new) > 0 /\ new # << >>
  BY <1>1, <1>2, EmptySeq
<1>4. new[Len(new)] = msgs[Len(msgs)]
  <2>1. Len(msgs) - s \in 1..(Len(msgs) - s) /\ s + (Len(msgs) - s) = Len(msgs)
    BY <1>1, <1>2
  <2> QED
    BY <1>1, <2>1
\* a call kept is a call of the history, at a place that tells them apart
<1>5. ASSUME NEW i \in DOMAIN new, NEW u \in new[i].uses
      PROVE  i - p + s \in DOMAIN msgs /\ u \in msgs[i - p + s].uses
  <2>1. i \in 1..(p + (Len(msgs) - s))
    BY <1>1, <1>2
  <2>2. ~(p = 1 /\ i = 1)
    BY <1>1, <1>5 DEF User
  <2>3. i - p \in 1..(Len(msgs) - s) /\ p + (i - p) = i /\ s + (i - p) = i - p + s
    BY <1>1, <2>1, <2>2
  <2>4. new[i] = msgs[i - p + s]
    BY <1>1, <2>3
  <2> QED
    BY <1>2, <1>5, <2>3, <2>4
<1>6. Fresh(new, n)
  <2>1. ASSUME NEW i \in DOMAIN new, NEW u \in new[i].uses
        PROVE  u < n
    BY <1>5, <2>1 DEF Fresh
  <2>2. ASSUME NEW i \in DOMAIN new, NEW j \in DOMAIN new, i # j,
               NEW u \in new[i].uses \cap new[j].uses
        PROVE  FALSE
    <3>1. /\ i - p + s \in DOMAIN msgs /\ u \in msgs[i - p + s].uses
          /\ j - p + s \in DOMAIN msgs /\ u \in msgs[j - p + s].uses
      BY <1>5, <2>2
    <3>2. i - p + s # j - p + s
      BY <1>1, <1>2, <2>2
    <3> QED
      BY <3>1, <3>2 DEF Fresh
  <2> QED
    BY <2>1, <2>2 DEF Fresh
<1> QED
  BY <1>1, <1>3, <1>4, <1>6 DEF Opening

\* Compacting leaves the newest messages alone, and a call that was answered and
\* is kept is kept with its answer.
LEMMA CompactedKeepsRecent ==
    ASSUME NEW msgs \in Seq(Message), NEW keep \in Nat \ {0}, Len(msgs) > keep,
           NEW new \in {SnipCompact(msgs, keep), SummaryCompact(msgs, keep)},
           NEW n \in Nat, Fresh(msgs, n), Paired(msgs)
    PROVE  /\ Len(new) - keep >= 0
           /\ \A k \in 1..keep : new[Len(new) - keep + k] = msgs[Len(msgs) - keep + k]
           /\ Unanswered(new) \subseteq Unanswered(msgs)
<1>1. PICK s \in 0..(Len(msgs) - keep), p \in {0, 1} :
         /\ new \in Seq(Message) /\ Len(new) = p + (Len(msgs) - s)
         /\ new[1].role = "user" /\ (p = 1 => new[1] = User)
         /\ \A i \in 1..(Len(msgs) - s) : new[p + i] = msgs[s + i]
  BY CompactedIsSuffix
<1>2. Len(msgs) \in Nat /\ DOMAIN msgs = 1..Len(msgs) /\ DOMAIN new = 1..Len(new)
  BY <1>1, LenProperties
<1>3. Len(new) - keep >= 0
  BY <1>1, <1>2
<1>4. ASSUME NEW k \in 1..keep
      PROVE  new[Len(new) - keep + k] = msgs[Len(msgs) - keep + k]
  <2>1. /\ Len(msgs) - s - keep + k \in 1..(Len(msgs) - s)
        /\ p + (Len(msgs) - s - keep + k) = Len(new) - keep + k
        /\ s + (Len(msgs) - s - keep + k) = Len(msgs) - keep + k
    BY <1>1, <1>2
  <2> QED
    BY <1>1, <2>1
<1>5. ASSUME NEW u \in Unanswered(new) PROVE u \in Unanswered(msgs)
  <2>1. PICK i \in DOMAIN new : u \in new[i].uses
    BY DEF Unanswered
  <2>2. \A k \in DOMAIN new : u \notin new[k].results
    BY DEF Unanswered
  <2>3. PICK q \in 1..(Len(msgs) - s) : p + q = i
    <3>1. i \in 1..(p + (Len(msgs) - s)) /\ ~(p = 1 /\ i = 1)
      BY <1>1, <1>2, <2>1 DEF User
    <3>2. i - p \in 1..(Len(msgs) - s) /\ p + (i - p) = i
      BY <1>1, <1>2, <3>1
    <3> QED
      BY <3>2
  <2> DEFINE j == s + q
  <2>4. j \in 1..Len(msgs) /\ j > s /\ j \in Nat
    BY <1>2, <2>3
  <2>5. new[i] = msgs[j]
    BY <1>1, <2>3
  <2> HIDE DEF j
  <2>6. j \in DOMAIN msgs /\ u \in msgs[j].uses
    BY <1>2, <2>1, <2>4, <2>5
  <2>7. ASSUME NEW k \in DOMAIN msgs, u \in msgs[k].results PROVE FALSE
    <3>1. k > 1 /\ msgs[k - 1].uses = msgs[k].results /\ k - 1 \in DOMAIN msgs
      BY <1>2, <2>7 DEF Paired, CarriesToolResult
    <3>2. k - 1 = j
      BY <2>7, <2>6, <3>1 DEF Fresh
    <3>3. k \in 1..Len(msgs) /\ k > s
      BY <1>2, <2>4, <3>2
    <3>4. PICK r \in 1..(Len(msgs) - s) : s + r = k
      <4>1. k - s \in 1..(Len(msgs) - s) /\ s + (k - s) = k
        BY <1>2, <3>3
      <4> QED
        BY <4>1
    <3>5. new[p + r] = msgs[k] /\ p + r \in DOMAIN new
      BY <1>1, <1>2, <3>4
    <3> QED
      BY <2>2, <2>7, <3>5
  <2> QED
    BY <2>7, <2>6 DEF Unanswered
<1> QED
  BY <1>3, <1>4, <1>5

-----------------------------------------------------------------------------
(* The settings that go with a history.                                    *)

\* A manual budget is at least the minimum and leaves a quarter of max_tokens for the answer; and
\* there is one whenever max_tokens is twice the minimum.
LEMMA ClampProperties ==
    ASSUME NEW budget \in Nat \ {0}, NEW max \in Nat
    PROVE  LET b == clamp_thinking_budget(budget, max) IN
           /\ b \in Nat
           /\ b # 0 => b >= 1024 /\ b < max /\ 4 * (max - b) >= max - 3
           /\ max >= 2048 => b # 0
<1> DEFINE quarter == max \div 4
           b == clamp_thinking_budget(budget, max)
<1>1. quarter \in Nat /\ 4 * quarter <= max /\ max <= 4 * quarter + 3
  OBVIOUS
<1> HIDE DEF quarter
<1>2. b = IF max - quarter < 1024 THEN 0
          ELSE IF budget < 1024 THEN 1024
          ELSE IF budget > max - quarter THEN max - quarter ELSE budget
  BY DEF clamp_thinking_budget, MinBudget, quarter
<1> HIDE DEF b
<1>3. b \in Nat
  BY <1>1, <1>2
<1>4. b # 0 => b >= 1024 /\ b <= max - quarter
  BY <1>1, <1>2
<1>5. b # 0 => b < max /\ 4 * (max - b) >= max - 3
  BY <1>1, <1>3, <1>4
<1>6. max >= 2048 => b # 0
  BY <1>1, <1>2
<1> QED
  BY <1>3, <1>4, <1>5, <1>6 DEF b

\* Whatever a caller asks for, what build_anthropic_body posts of it is legal (anthropic.rs:225-313):
\* no combination of budget, temperature and choice on any family of models is one the API refuses.
THEOREM SettingsAreTaken ==
    ASSUME NEW s \in AllSettings, NEW tools
    PROVE  LegalOptions(s, tools, AnthropicOptions(s, tools))
<1>1. PICK mode \in {"always_on", "adaptive", "manual", "gateway"}, budget \in Int, max \in Nat :
          /\ s.mode = mode /\ s.budget = budget /\ s.max = max /\ budget >= -1
          /\ s.temperature \in BOOLEAN /\ s.forced \in BOOLEAN
  BY DEF AllSettings, Modes, NoBudget
<1> DEFINE o == AnthropicOptions(s, tools)
           b == clamp_thinking_budget(budget, max)
           thinks == Thinks(s)
<1>2. budget > 0 => /\ b \in Nat
                    /\ b # 0 => b >= 1024 /\ b < max /\ 4 * (max - b) >= max - 3
                    /\ max >= 2048 => b # 0
  BY ClampProperties
<1>3. /\ o.thinking = thinks
      /\ o.budget = IF thinks = "enabled" THEN b ELSE -1
      /\ o.effort = IF budget > 0 /\ mode \in {"adaptive", "always_on"}
                    THEN effort_for_budget(budget) ELSE "none"
      /\ o.temperature = SendsTemperature(s) /\ o.choice = SendsChoice(s, tools)
  BY <1>1 DEF AnthropicOptions, NoBudget, None
<1>4. /\ SendsTemperature(s) => mode \in {"manual", "gateway"} /\ ~(thinks # "none" /\ mode = "manual")
      /\ SendsChoice(s, tools) => tools # <<>> /\ thinks # "enabled"
  BY <1>1 DEF SendsTemperature, SendsChoice, None
<1>5. budget > 0 => effort_for_budget(budget) # "none"
  <2>1. budget > 0 => \/ budget <= 2559 \/ budget \in 2560..6143
                      \/ budget \in 6144..20479 \/ budget >= 20480
    OBVIOUS
  <2> QED
    BY <2>1 DEF effort_for_budget
<1>6. /\ budget <= 0 => thinks = "none"
      /\ budget > 0 /\ mode = "always_on" => thinks = "none"
      /\ budget > 0 /\ mode = "adaptive" => thinks = "adaptive"
      /\ budget > 0 /\ mode \in {"manual", "gateway"} => thinks = IF b = 0 THEN "none" ELSE "enabled"
  <2>1. thinks = CASE budget \in {0, -1} \/ mode = "always_on" -> "none"
                   [] budget > 0 /\ mode = "adaptive" -> "adaptive"
                   [] budget > 0 /\ mode \in {"manual", "gateway"} -> IF b = 0 THEN "none" ELSE "enabled"
    BY <1>1 DEF Thinks, None, NoBudget
  <2> HIDE DEF thinks, b
  <2>2. CASE budget <= 0
    <3>1. budget \in {0, -1} /\ ~(budget > 0)
      BY <1>1, <2>2
    <3> QED
      BY <2>1, <3>1
  <2>3. CASE budget > 0
    <3>1. budget \notin {0, -1} /\ ~(budget <= 0)
      BY <2>3
    <3> QED
      BY <2>1, <2>3, <3>1
  <2> QED
    BY <1>1, <2>2, <2>3
<1> HIDE DEF o, b, thinks
<1>7. thinks = "enabled" => budget > 0 /\ mode \in {"manual", "gateway"} /\ b # 0
  BY <1>1, <1>6
<1>8. o.thinking = "enabled" =>
          /\ mode \in {"manual", "gateway"} /\ o.budget >= 1024 /\ o.budget < max
          /\ 4 * (max - o.budget) >= max - 3 /\ ~o.choice
  BY <1>2, <1>3, <1>4, <1>7
<1>9. budget > 0 /\ max >= 2048 => o.thinking # "none" \/ o.effort # "none"
  BY <1>1, <1>2, <1>3, <1>5, <1>6
<1> QED
  BY <1>1, <1>3, <1>4, <1>8, <1>9 DEF LegalOptions, MinBudget, None, o

-----------------------------------------------------------------------------
(* The loop.                                                               *)


\* while a response is handled, its calls are the newest message
ResponseIsNewest ==
    pc \in {"postturn", "handle"} =>
        messages # << >> /\ messages[Len(messages)].uses = Calls(response)

Inv == TypeOK /\ ResultsFollowTheirCalls /\ ResponseIsNewest

\* the ids of a response are numbers
LEMMA CallsAreNat == \A r \in [stop : Stops, first : Nat, size : Nat] : Calls(r) \in SUBSET Nat
BY DEF Calls

\* a run starts with well-typed locals
LEMMA FreshLocalType == FreshLocal \in Locals
BY DEF FreshLocal, Locals

\* the types of what the steps assign to a run's locals
LEMMA LocalSteps ==
    ASSUME local \in Locals
    PROVE  /\ [local EXCEPT !.turn = @ + 1] \in Locals
           /\ [local EXCEPT !.turn = @ + 1, !.retries = 0, !.force_tool_choice = FALSE] \in Locals
           /\ [local EXCEPT !.retries = @ + 1] \in Locals
           /\ [local EXCEPT !.max_tokens_retries = @ + 1] \in Locals
           /\ [local EXCEPT !.completion_verified = TRUE] \in Locals
           /\ [local EXCEPT !.benchmark_retries = 1] \in Locals
           /\ [local EXCEPT !.benchmark_retries = @ + 1] \in Locals
           /\ [local EXCEPT !.no_tool_nudge_sent = TRUE, !.force_tool_choice = TRUE] \in Locals
           /\ [local EXCEPT !.depth_nudge_sent = TRUE] \in Locals
<1>1. [local EXCEPT !.turn = @ + 1, !.retries = 0, !.force_tool_choice = FALSE] \in Locals
  <2> DEFINE turned == [local EXCEPT !.turn = @ + 1]
             reset == [turned EXCEPT !.retries = 0]
  <2>1. turned \in Locals
    BY DEF Locals
  <2> HIDE DEF turned
  <2>2. reset \in Locals
    BY <2>1 DEF Locals
  <2> HIDE DEF reset
  <2>3. [reset EXCEPT !.force_tool_choice = FALSE] \in Locals
    BY <2>2 DEF Locals
  <2> QED
    BY <2>3 DEF turned, reset
<1>2. [local EXCEPT !.no_tool_nudge_sent = TRUE, !.force_tool_choice = TRUE] \in Locals
  BY DEF Locals
<1>3. [local EXCEPT !.turn = @ + 1] \in Locals /\ [local EXCEPT !.retries = @ + 1] \in Locals
  BY DEF Locals
<1>4. /\ [local EXCEPT !.max_tokens_retries = @ + 1] \in Locals
      /\ [local EXCEPT !.benchmark_retries = 1] \in Locals
      /\ [local EXCEPT !.benchmark_retries = @ + 1] \in Locals
  BY DEF Locals
<1>5. /\ [local EXCEPT !.completion_verified = TRUE] \in Locals
      /\ [local EXCEPT !.depth_nudge_sent = TRUE] \in Locals
  BY DEF Locals
<1> QED
  BY <1>1, <1>2, <1>3, <1>4, <1>5, Zenon

\* the initial state satisfies the inductive invariant
LEMMA InitInv == Init => Inv
<1> SUFFICES ASSUME Init PROVE Inv
  OBVIOUS
<1> USE DEF Init
<1>1. TypeOK
  BY FreshLocalType, EmptySeq, LoopAssumption DEF LoopAssumption, TypeOK, Stages, Awaits, NoResponse, Stops
<1>2. ResultsFollowTheirCalls
  BY DEF ResultsFollowTheirCalls, Paired
<1>3. ResponseIsNewest
  BY DEF ResponseIsNewest
<1> QED
  BY <1>1, <1>2, <1>3 DEF Inv

\* a step that changes neither history nor the response being handled, and
\* that starts no handling
LEMMA QuietStep ==
    ASSUME Inv, TypeOK',
           UNCHANGED <<messages, stored>>,
           pc' \in {"postturn", "handle"} => pc = "postturn" /\ response' = response
    PROVE  Inv'
<1>1. ResultsFollowTheirCalls'
  BY DEF Inv, ResultsFollowTheirCalls
<1>2. ResponseIsNewest'
  BY DEF Inv, ResponseIsNewest
<1> QED
  BY <1>1, <1>2 DEF Inv

\* a `return Err` of the loop
LEMMA FailStep ==
    ASSUME Inv, NEW why \in {"error", "cancelled"}, Fail(why)
    PROVE  Inv'
<1>1. TypeOK'
  BY FreshLocalType DEF Inv, TypeOK, Fail, Stages, NoResponse, Stops
<1> QED
  BY <1>1, QuietStep DEF Fail

\* ending the handling of a response with a history that is still paired
LEMMA PushStep ==
    ASSUME Inv, NEW msgs \in Seq(Message), Paired(msgs),
           NEW next \in {"top", "save", "compact"}, NEW newLocal \in Locals,
           Push(msgs, next, newLocal)
    PROVE  Inv'
<1>1. TypeOK'
  BY DEF Inv, TypeOK, Push, Stages, NoResponse, Stops
<1>2. ResultsFollowTheirCalls'
  BY DEF Inv, Push, ResultsFollowTheirCalls
<1>3. ResponseIsNewest'
  BY DEF Push, ResponseIsNewest
<1> QED
  BY <1>1, <1>2, <1>3 DEF Inv

\* a nudge puts a plain user message behind a history that is still paired
LEMMA NudgeStep ==
    ASSUME Inv, NEW next \in {"top", "compact"}, NEW newLocal \in Locals,
           Push(Append(messages, User), next, newLocal)
    PROVE  Inv'
<1>1. messages \in Seq(Message) /\ Paired(messages)
  BY DEF Inv, TypeOK, ResultsFollowTheirCalls
<1>2. User \in Message /\ User.results = {}
  BY ConstructorTypes DEF User
<1>3. Append(messages, User) \in Seq(Message) /\ Paired(Append(messages, User))
  BY <1>1, <1>2, PairedAppend
<1> QED
  BY <1>3, PushStep

\* an answered batch, with or without the doom-loop warning behind it
LEMMA BatchStep ==
    ASSUME Inv, LoopAssumption, NEW doom \in BOOLEAN, ToolBatch(doom)
    PROVE  Inv'
<1> DEFINE answered == Append(messages, ToolResults(Calls(response)))
           newLocal == [local EXCEPT !.calls = local.calls + response.size,
                                     !.had_tool_use = TRUE, !.max_tokens_retries = 0,
                                     !.doom_loop_warned = @ \/ doom]
<1>1. messages \in Seq(Message) /\ Paired(messages) /\ local \in Locals
      /\ response \in [stop : Stops, first : Nat, size : Nat]
  BY DEF Inv, TypeOK, ResultsFollowTheirCalls
<1>2. messages # << >> /\ messages[Len(messages)].uses = Calls(response)
  BY DEF Inv, ResponseIsNewest, ToolBatch
<1>3. answered \in Seq(Message) /\ Paired(answered)
  <2>1. Calls(response) \in SUBSET Nat
    BY <1>1, CallsAreNat
  <2>2. ToolResults(Calls(response)) \in Message
        /\ ToolResults(Calls(response)).results = Calls(response)
    BY <2>1, ConstructorTypes DEF ToolResults
  <2> QED
    BY <1>1, <1>2, <2>2, PairedAppend
<1>4. User \in Message /\ User.results = {}
  BY ConstructorTypes DEF User
<1>5. Append(answered, User) \in Seq(Message) /\ Paired(Append(answered, User))
  <2> HIDE DEF answered
  <2> QED
    BY <1>3, <1>4, PairedAppend
<1>6. newLocal \in Locals
  <2>1. local.calls + response.size \in Nat
    BY <1>1 DEF Locals
  <2>2. (local.doom_loop_warned \/ doom) \in BOOLEAN
    OBVIOUS
  <2> QED
    BY <1>1, <2>1, <2>2 DEF Locals
<1>7. Push(IF doom THEN Append(answered, User) ELSE answered, "compact", newLocal)
  BY DEF ToolBatch
<1> HIDE DEF answered, newLocal
<1> QED
  BY <1>3, <1>5, <1>6, <1>7, PushStep

\* every step, and every stutter, preserves the inductive invariant
LEMMA NextInv == ASSUME LoopAssumption, Inv, [Next]_vars PROVE Inv'
<1>0. local \in Locals /\ messages \in Seq(Message) /\ Paired(messages)
      /\ stored \in Seq(Message) /\ Paired(stored)
  BY DEF Inv, TypeOK, ResultsFollowTheirCalls
<1> USE DEF LoopAssumption
<1>1. CASE StartRun
  <2> DEFINE old == IF messages = << >> THEN stored ELSE messages
  <2>1. old \in Seq(Message) /\ Paired(old)
    BY <1>0
  <2>2. User \in Message /\ User.results = {}
    BY ConstructorTypes DEF User
  <2>3. messages' = Append(old, User)
    BY <1>1 DEF StartRun
  <2> HIDE DEF old
  <2>4. messages' \in Seq(Message) /\ Paired(messages')
    BY <2>1, <2>2, <2>3, PairedAppend
  <2>5. TypeOK'
    BY <1>1, <2>4, FreshLocalType DEF Inv, TypeOK, StartRun, Stages
  <2>6. ResultsFollowTheirCalls'
    BY <1>1, <2>4 DEF Inv, ResultsFollowTheirCalls, StartRun
  <2>7. ResponseIsNewest'
    BY <1>1 DEF StartRun, ResponseIsNewest
  <2> QED
    BY <2>5, <2>6, <2>7 DEF Inv
<1>2. CASE LoadFails
  BY <1>2, QuietStep DEF LoadFails, Inv, TypeOK
<1>3. CASE Cancel
  <2>1. TypeOK'
    BY <1>3 DEF Cancel, Inv, TypeOK
  <2> QED
    BY <1>3, <2>1 DEF Cancel, Inv, ResultsFollowTheirCalls, ResponseIsNewest, Calls
<1>4. CASE Crash
  <2>1. TypeOK'
    <3>1. messages' \in Seq(Message) /\ local' \in Locals
      BY <1>4, FreshLocalType, EmptySeq DEF Crash
    <3>2. response' \in [stop : Stops, first : Nat, size : Nat]
      BY <1>4 DEF Crash, NoResponse, Stops
    <3>3. pc' \in Stages /\ cancelled' \in BOOLEAN /\ forced' \in BOOLEAN
      BY <1>4 DEF Crash, Stages
    <3>4. outcome' \in {"none", "ok", "error", "cancelled"} /\ crashes' \in Nat
      BY <1>4 DEF Crash, Inv, TypeOK
    <3>5. /\ stored' \in Seq(Message) /\ nextId' \in Nat
          /\ setup' \subseteq Features /\ runs' \in Nat
      BY <1>4 DEF Crash, Inv, TypeOK
    <3> QED
      BY <3>1, <3>2, <3>3, <3>4, <3>5 DEF TypeOK
  <2>2. ResultsFollowTheirCalls'
    BY <1>0, <1>4 DEF Crash, ResultsFollowTheirCalls, Paired
  <2> QED
    BY <1>4, <2>1, <2>2 DEF Crash, Inv, ResponseIsNewest
<1>5. CASE TurnLimit
  <2>1. TypeOK'
    BY <1>5, LocalSteps DEF TurnLimit, Inv, TypeOK, Stages
  <2> QED
    BY <1>5, <2>1, QuietStep DEF TurnLimit
<1>6. CASE TurnCancelled
  BY <1>6, FailStep DEF TurnCancelled
<1>7. CASE BeginTurn
  <2>1. TypeOK'
    <3>1. forced' \in BOOLEAN
      <4>1. local.force_tool_choice \in BOOLEAN
        BY <1>0, Zenon DEF Locals
      <4>2. forced' = local.force_tool_choice
        BY <1>7 DEF BeginTurn
      <4> QED
        BY <4>1, <4>2, Zenon
    <3>2. local' \in Locals
      BY <1>0, <1>7, LocalSteps DEF BeginTurn
    <3> QED
      BY <1>7, <3>1, <3>2 DEF BeginTurn, Inv, TypeOK, Stages, Awaits
  <2> QED
    BY <1>7, <2>1, QuietStep DEF BeginTurn
<1>8. CASE Accepted \/ BackoffElapsed \/ HookPasses \/ CompactNotDue \/ CompactDue \/ SummarySkipped
  <2>1. TypeOK'
    BY <1>8 DEF Accepted, BackoffElapsed, HookPasses, CompactNotDue, CompactDue,
                SummarySkipped, Goto, Inv, TypeOK, Stages, Awaits
  <2> QED
    BY <1>8, <2>1, QuietStep DEF Accepted, BackoffElapsed, HookPasses, CompactNotDue,
                                 CompactDue, SummarySkipped, Goto
<1>9. CASE Retryable
  <2>1. TypeOK'
    BY <1>9, LocalSteps DEF Retryable, Inv, TypeOK, Stages, Awaits
  <2> QED
    BY <1>9, <2>1, QuietStep DEF Retryable
<1>10. CASE Rejected \/ CancelAwait \/ StreamFails \/ HookBlocks \/ SaveFails
  BY <1>10, FailStep DEF Rejected, CancelAwait, StreamFails, HookBlocks, SaveFails
<1>11. ASSUME NEW stop \in Stops \ {"none"}, NEW n \in BatchSizes, StreamEnds(stop, n)
       PROVE  Inv'
  <2>1. /\ response' = [stop |-> stop, first |-> nextId, size |-> n]
        /\ messages' = Append(messages, Assistant(Calls(response')))
        /\ nextId' = nextId + n /\ n \in Nat /\ nextId \in Nat
    BY <1>11 DEF StreamEnds, Inv, TypeOK
  <2>2. response' \in [stop : Stops, first : Nat, size : Nat] /\ nextId' \in Nat
    BY <2>1
  <2>3. Calls(response') \in SUBSET Nat
    BY <2>2, CallsAreNat
  <2>4. Assistant(Calls(response')) \in Message
        /\ Assistant(Calls(response')).results = {}
        /\ Assistant(Calls(response')).uses = Calls(response')
    BY <2>3, ConstructorTypes DEF Assistant
  <2>5. messages' \in Seq(Message) /\ Paired(messages')
    BY <1>0, <2>1, <2>4, PairedAppend
  <2>6. messages' # << >> /\ messages'[Len(messages')] = Assistant(Calls(response'))
    BY <1>0, <2>1, <2>4, AppendProperties
  <2>7. TypeOK'
    BY <1>11, <2>2, <2>5 DEF StreamEnds, Inv, TypeOK, Stages
  <2>8. ResultsFollowTheirCalls'
    BY <1>0, <1>11, <2>5 DEF StreamEnds, ResultsFollowTheirCalls
  <2>9. ResponseIsNewest'
    BY <2>4, <2>6 DEF ResponseIsNewest, Calls
  <2> QED
    BY <2>7, <2>8, <2>9 DEF Inv
<1>12. CASE VerifyNudge \/ RunTestsNudge \/ TestsFailedNudge \/ NoToolNudge \/ DepthNudge
  <2>1. PICK l \in Locals : Push(Append(messages, User), "top", l)
    BY <1>0, <1>12, LocalSteps DEF VerifyNudge, RunTestsNudge, TestsFailedNudge, NoToolNudge,
                       DepthNudge, Nudge
  <2> QED
    BY <2>1, NudgeStep
<1>13. CASE TestsSettled \/ Finish \/ StopOther
  BY <1>0, <1>13, PushStep DEF TestsSettled, Finish, StopOther, Break
<1>14. CASE ContinueTruncated \/ GiveUpTruncated
  <2> DEFINE newLocal == [local EXCEPT !.max_tokens_retries = @ + 1]
  <2>1. newLocal \in Locals
    BY <1>0, LocalSteps
  <2>2. \/ Push(Append(messages, User), "compact", newLocal)
        \/ Push(messages, "save", newLocal)
    BY <1>14 DEF ContinueTruncated, GiveUpTruncated
  <2> HIDE DEF newLocal
  <2> QED
    BY <1>0, <2>1, <2>2, NudgeStep, PushStep
<1>15. ASSUME NEW doom \in BOOLEAN, ToolBatch(doom)
       PROVE  Inv'
  BY <1>15, BatchStep
<1>16. CASE Summarized \/ SummaryFails
  <2>1. PICK msgs \in Seq(Message) : Paired(msgs) /\ Compacted(msgs)
    BY <1>0, <1>16, CompactionKeepsPairs DEF Summarized, SummaryFails
  <2>2. TypeOK'
    BY <2>1 DEF Compacted, Inv, TypeOK, Stages
  <2>3. ResultsFollowTheirCalls'
    BY <1>0, <2>1 DEF Compacted, ResultsFollowTheirCalls
  <2> QED
    BY <2>1, <2>2, <2>3 DEF Inv, Compacted, ResponseIsNewest
<1>17. CASE Saved
  <2>1. TypeOK'
    BY <1>17, FreshLocalType DEF Saved, Inv, TypeOK, Stages
  <2>2. ResultsFollowTheirCalls'
    BY <1>0, <1>17 DEF Saved, ResultsFollowTheirCalls
  <2> QED
    BY <1>17, <2>1, <2>2 DEF Inv, Saved, ResponseIsNewest
<1>18. CASE UNCHANGED vars
  BY <1>18 DEF vars, Inv, TypeOK, ResultsFollowTheirCalls, ResponseIsNewest, Calls
<1> QED
  BY <1>1, <1>2, <1>3, <1>4, <1>5, <1>6, <1>7, <1>8, <1>9, <1>10, <1>11, <1>12, <1>13,
     <1>14, <1>15, <1>16, <1>17, <1>18
  DEF Next, Runner, Provider, Rest

\* The inductive invariant holds in every reachable state.
THEOREM Invariance == Spec => []Inv
BY InitInv, NextInv, LoopAssumption, PTL DEF Spec

\* Every variable keeps its type, whatever the limits are set to.
THEOREM TypeCorrect == Spec => []TypeOK
BY Invariance, PTL DEF Inv

\* Results follow their calls in every history the agent or its session store
\* ever holds: across retries, cancellations, hook blocks, compactions with any
\* KeepRecent, crashes and reloads.
THEOREM Pairing == Spec => []ResultsFollowTheirCalls
BY Invariance, PTL DEF Inv

\* No request ever carries an orphaned tool_result (F-04).
THEOREM NoOrphans == Spec => []NoOrphanedToolResults
<1>1. Inv => NoOrphanedToolResults
  BY PairedHasNoOrphans DEF Inv, TypeOK, ResultsFollowTheirCalls, NoOrphanedToolResults
<1> QED
  BY <1>1, Invariance, PTL

-----------------------------------------------------------------------------
(* The shape of histories: what requests look like, that calls have numbers of
   their own, and that the agent has seen what the session holds. *)

\* the stages in which the model is the next to speak
Asking == Awaits \union {"top", "compact", "summarize"}

HistoryInv ==
    /\ Opening(messages) /\ Opening(stored)
    /\ Fresh(messages, nextId) /\ Fresh(stored, nextId)
    /\ pc # "idle" => messages # << >>
    /\ pc \in Asking => messages[Len(messages)].role = "user"
    /\ pc \in {"postturn", "handle"} => messages[Len(messages)].role = "assistant"
    /\ pc = "summarize" => "auto_compact" \in setup
    /\ "auto_compact" \notin setup /\ messages # << >> => StartsWith(messages, stored)

\* a step that leaves the histories alone
LEMMA HistoryQuiet ==
    ASSUME HistoryInv, UNCHANGED <<messages, stored, nextId, setup>>,
           pc' # "idle" => pc # "idle",
           pc' \in Asking => pc \in Asking,
           pc' \in {"postturn", "handle"} => pc \in {"postturn", "handle"},
           pc' = "summarize" => pc = "summarize" \/ "auto_compact" \in setup
    PROVE  HistoryInv'
BY DEF HistoryInv, Asking, Awaits

\* what a user message without calls does to a history
LEMMA UserBehind ==
    ASSUME NEW msgs \in Seq(Message), NEW m \in Message, m.role = "user", m.uses = {},
           NEW n \in Nat, Opening(msgs), Fresh(msgs, n), NEW old \in Seq(Message)
    PROVE  /\ Append(msgs, m) \in Seq(Message) /\ Append(msgs, m) # << >>
           /\ Opening(Append(msgs, m)) /\ Fresh(Append(msgs, m), n)
           /\ Append(msgs, m)[Len(Append(msgs, m))].role = "user"
           /\ StartsWith(msgs, old) => StartsWith(Append(msgs, m), old)
<1> DEFINE all == Append(msgs, m)
<1>1. /\ all \in Seq(Message) /\ all # << >>
      /\ Len(all) = Len(msgs) + 1
      /\ \A i \in 1..Len(msgs) : all[i] = msgs[i]
      /\ all[Len(msgs) + 1] = m
      /\ Opening(all) /\ Fresh(all, n)
  BY AppendKeeps
<1>2. Len(msgs) \in Nat /\ Len(old) \in Nat
  BY LenProperties
<1> HIDE DEF all
<1>3. StartsWith(msgs, old) => StartsWith(all, old)
  BY <1>1, <1>2 DEF StartsWith
<1> QED
  BY <1>1, <1>3 DEF all

\* a step after which the model speaks
LEMMA HistoryGrows ==
    ASSUME HistoryInv, NEW msgs, messages' = msgs, UNCHANGED <<stored, nextId, setup>>,
           pc' \in {"top", "compact"},
           msgs # << >>, Opening(msgs), Fresh(msgs, nextId), msgs[Len(msgs)].role = "user",
           "auto_compact" \notin setup => StartsWith(msgs, stored)
    PROVE  HistoryInv'
BY DEF HistoryInv, Asking, Awaits

\* every step keeps the shape of the histories
LEMMA NextHistory == ASSUME LoopAssumption, Inv, HistoryInv, [Next]_vars PROVE HistoryInv'
<1>0. /\ messages \in Seq(Message) /\ stored \in Seq(Message) /\ nextId \in Nat
      /\ response \in [stop : Stops, first : Nat, size : Nat]
  BY DEF Inv, TypeOK
<1> USE DEF LoopAssumption
<1>1. User \in Message /\ User.role = "user" /\ User.uses = {}
  BY ConstructorTypes DEF User
<1>2. StartsWith(stored, stored) /\ StartsWith(messages, messages)
  BY <1>0, LenProperties DEF StartsWith
<1>3. CASE StartRun
  <2> DEFINE old == IF messages = << >> THEN stored ELSE messages
  <2>1. old \in Seq(Message) /\ Opening(old) /\ Fresh(old, nextId)
    BY <1>0 DEF HistoryInv
  <2>2. "auto_compact" \notin setup => StartsWith(old, stored)
    BY <1>2 DEF HistoryInv
  <2> HIDE DEF old
  <2>3. /\ Append(old, User) # << >> /\ Opening(Append(old, User)) /\ Fresh(Append(old, User), nextId)
        /\ Append(old, User)[Len(Append(old, User))].role = "user"
        /\ "auto_compact" \notin setup => StartsWith(Append(old, User), stored)
    BY <1>0, <1>1, <2>1, <2>2, UserBehind
  <2>4. messages' = Append(old, User) /\ pc' = "top" /\ UNCHANGED <<stored, nextId, setup>>
    BY <1>3 DEF StartRun, old
  <2> QED
    BY <2>3, <2>4, HistoryGrows
<1>4. CASE LoadFails \/ Cancel \/ TurnLimit \/ BeginTurn \/ Retryable
  BY <1>4, HistoryQuiet DEF LoadFails, Cancel, TurnLimit, BeginTurn, Retryable, Asking, Awaits
<1>5. CASE Crash
  BY <1>5 DEF Crash, HistoryInv, Opening, Fresh, Asking, Awaits
<1>6. CASE TurnCancelled \/ Rejected \/ CancelAwait \/ StreamFails \/ HookBlocks \/ SaveFails
  BY <1>6, HistoryQuiet DEF TurnCancelled, Rejected, CancelAwait, StreamFails, HookBlocks, SaveFails, Fail,
                            Asking, Awaits
<1>7. CASE Accepted \/ BackoffElapsed \/ HookPasses \/ CompactNotDue \/ CompactDue \/ SummarySkipped
  BY <1>7, HistoryQuiet DEF Accepted, BackoffElapsed, HookPasses, CompactNotDue, CompactDue,
                            SummarySkipped, Goto, Asking, Awaits
<1>8. ASSUME NEW stop \in Stops \ {"none"}, NEW n \in BatchSizes, StreamEnds(stop, n)
      PROVE  HistoryInv'
  <2> DEFINE m == Assistant(Calls(response'))
  <2>1. /\ response' = [stop |-> stop, first |-> nextId, size |-> n] /\ n \in Nat
        /\ messages' = Append(messages, m) /\ nextId' = nextId + n /\ pc = "stream"
        /\ pc' = "postturn" /\ UNCHANGED <<stored, setup>>
    BY <1>8 DEF StreamEnds
  <2>2. Calls(response') = nextId..(nextId + n - 1) /\ Calls(response') \in SUBSET Nat
    BY <1>0, <2>1 DEF Calls
  <2>3. m \in Message /\ m.role = "assistant" /\ \A u \in m.uses : nextId <= u /\ u < nextId'
    BY <1>0, <2>1, <2>2, ConstructorTypes DEF Assistant
  <2> HIDE DEF m
  <2>4. nextId' \in Nat /\ nextId <= nextId' /\ messages # << >>
    BY <1>0, <2>1 DEF HistoryInv
  <2>5. /\ messages' # << >> /\ Len(messages') = Len(messages) + 1
        /\ \A i \in 1..Len(messages) : messages'[i] = messages[i]
        /\ messages'[Len(messages) + 1] = m
        /\ Opening(messages') /\ Fresh(messages', nextId')
    BY <1>0, <2>1, <2>3, <2>4, AppendKeeps DEF HistoryInv
  <2>6. Fresh(stored, nextId')
    <3>1. ASSUME NEW i \in DOMAIN stored, NEW u \in stored[i].uses PROVE u < nextId'
      <4>1. stored[i] \in Message
        BY <1>0, <3>1, ElementOfSeq, LenProperties
      <4>2. u \in Nat /\ u < nextId
        BY <3>1, <4>1 DEF Message, HistoryInv, Fresh
      <4> QED
        BY <1>0, <2>4, <4>2
    <3> QED
      BY <2>1, <3>1 DEF HistoryInv, Fresh
  <2>7. StartsWith(messages, stored) => StartsWith(messages', stored)
    BY <1>0, <2>5, LenProperties DEF StartsWith
  <2> QED
    BY <2>1, <2>3, <2>4, <2>5, <2>6, <2>7 DEF HistoryInv, Asking, Awaits
<1>9. ASSUME NEW next \in {"top", "compact"}, NEW newLocal,
             Push(Append(messages, User), next, newLocal), pc = "handle"
      PROVE  HistoryInv'
  <2>1. messages # << >> /\ ("auto_compact" \notin setup => StartsWith(messages, stored))
    BY <1>9 DEF HistoryInv
  <2>2. /\ Append(messages, User) # << >> /\ Opening(Append(messages, User))
        /\ Fresh(Append(messages, User), nextId)
        /\ Append(messages, User)[Len(Append(messages, User))].role = "user"
        /\ "auto_compact" \notin setup => StartsWith(Append(messages, User), stored)
    BY <1>0, <1>1, <2>1, UserBehind DEF HistoryInv
  <2> QED
    BY <1>9, <2>2, HistoryGrows DEF Push
<1>10. CASE VerifyNudge \/ RunTestsNudge \/ TestsFailedNudge \/ NoToolNudge \/ DepthNudge
  <2>1. pc = "handle" /\ \E l : Push(Append(messages, User), "top", l)
    BY <1>10 DEF VerifyNudge, RunTestsNudge, TestsFailedNudge, NoToolNudge, DepthNudge, Nudge, EndTurn,
                 PastVerify
  <2> QED
    BY <1>9, <2>1
<1>11. CASE TestsSettled \/ Finish \/ StopOther \/ GiveUpTruncated
  BY <1>11, HistoryQuiet DEF TestsSettled, Finish, StopOther, GiveUpTruncated, Break, Push, EndTurn,
                             PastVerify, Asking, Awaits
<1>12. CASE ContinueTruncated
  <2>1. pc = "handle" /\ \E l : Push(Append(messages, User), "compact", l)
    BY <1>12 DEF ContinueTruncated
  <2> QED
    BY <1>9, <2>1
<1>13. ASSUME NEW doom \in BOOLEAN, ToolBatch(doom)
       PROVE  HistoryInv'
  <2> DEFINE results == ToolResults(Calls(response))
             answered == Append(messages, results)
             msgs == IF doom THEN Append(answered, User) ELSE answered
  <2>1. results \in Message /\ results.role = "user" /\ results.uses = {}
    BY <1>0, CallsAreNat, ConstructorTypes DEF ToolResults
  <2>2. messages # << >> /\ ("auto_compact" \notin setup => StartsWith(messages, stored))
    BY <1>13 DEF ToolBatch, HistoryInv
  <2>3. /\ messages' = msgs /\ pc' = "compact" /\ UNCHANGED <<stored, nextId, setup>>
    BY <1>13 DEF ToolBatch, Push
  <2> HIDE DEF results
  <2>4. /\ answered \in Seq(Message) /\ answered # << >> /\ Opening(answered) /\ Fresh(answered, nextId)
        /\ answered[Len(answered)].role = "user"
        /\ "auto_compact" \notin setup => StartsWith(answered, stored)
    BY <1>0, <2>1, <2>2, UserBehind DEF HistoryInv
  <2> HIDE DEF answered
  <2>5. /\ Append(answered, User) # << >> /\ Opening(Append(answered, User))
        /\ Fresh(Append(answered, User), nextId)
        /\ Append(answered, User)[Len(Append(answered, User))].role = "user"
        /\ "auto_compact" \notin setup => StartsWith(Append(answered, User), stored)
    BY <1>0, <1>1, <2>4, UserBehind
  <2>6. /\ msgs # << >> /\ Opening(msgs) /\ Fresh(msgs, nextId) /\ msgs[Len(msgs)].role = "user"
        /\ "auto_compact" \notin setup => StartsWith(msgs, stored)
    BY <2>4, <2>5
  <2> HIDE DEF msgs
  <2> QED
    BY <2>3, <2>6, HistoryGrows
<1>14. CASE Summarized \/ SummaryFails
  <2>1. PICK msgs \in {SnipCompact(messages, KeepRecent), SummaryCompact(messages, KeepRecent)} :
           Compacted(msgs)
    BY <1>14 DEF Summarized, SummaryFails
  <2>2. pc = "summarize" /\ Len(messages) > KeepRecent /\ pc' = "top" /\ messages' = msgs
        /\ UNCHANGED <<stored, nextId, setup>>
    BY <2>1 DEF Compacted
  <2>3. msgs # << >> /\ Opening(msgs) /\ Fresh(msgs, nextId) /\ msgs[Len(msgs)] = messages[Len(messages)]
    BY <1>0, <2>1, <2>2, CompactedKeeps DEF HistoryInv
  <2>4. "auto_compact" \in setup /\ messages[Len(messages)].role = "user"
    BY <2>2 DEF HistoryInv, Asking
  <2> QED
    BY <2>2, <2>3, <2>4, HistoryGrows
<1>15. CASE Saved
  BY <1>2, <1>15 DEF Saved, HistoryInv, Asking, Awaits
<1>16. CASE UNCHANGED vars
  BY <1>16 DEF vars, HistoryInv
<1> QED
  BY <1>3, <1>4, <1>5, <1>6, <1>7, <1>8, <1>10, <1>11, <1>12, <1>13, <1>14, <1>15, <1>16
  DEF Next, Runner, Provider, Rest

\* The shape of the histories in every reachable state.
THEOREM Histories == Spec => [](Inv /\ HistoryInv)
<1>1. Init => HistoryInv
  BY DEF Init, HistoryInv, Opening, Fresh, Asking, Awaits
<1> QED
  BY <1>1, InitInv, NextInv, NextHistory, LoopAssumption, PTL DEF Spec

\* Every request opens and ends with a user message.
THEOREM Requests == Spec => []RequestShape
<1>1. HistoryInv => RequestShape
  BY DEF HistoryInv, RequestShape, InFlight, Asking, Awaits, Opening
<1> QED
  BY <1>1, Histories, PTL

\* No call is issued or answered twice in a history, whatever is reloaded.
THEOREM Once == Spec => []AnsweredOnce
<1>1. Inv /\ HistoryInv => AnsweredOnce
  <2> SUFFICES ASSUME Inv, HistoryInv, NEW i \in DOMAIN messages, NEW j \in DOMAIN messages, i # j
               PROVE  /\ messages[i].uses \cap messages[j].uses = {}
                      /\ messages[i].results \cap messages[j].results = {}
    BY DEF AnsweredOnce
  <2>1. messages[i].uses \cap messages[j].uses = {}
    BY DEF HistoryInv, Fresh
  <2>2. ASSUME NEW u, u \in messages[i].results, u \in messages[j].results PROVE FALSE
    <3>1. /\ i > 1 /\ messages[i - 1].uses = messages[i].results
          /\ j > 1 /\ messages[j - 1].uses = messages[j].results
      BY <2>2 DEF Inv, ResultsFollowTheirCalls, Paired, CarriesToolResult
    <3>2. DOMAIN messages = 1..Len(messages) /\ Len(messages) \in Nat
      BY LenProperties DEF Inv, TypeOK
    <3>3. i - 1 \in DOMAIN messages /\ j - 1 \in DOMAIN messages /\ i - 1 # j - 1
      BY <3>1, <3>2
    <3>4. messages[i - 1].uses \cap messages[j - 1].uses = {}
      BY <3>3 DEF HistoryInv, Fresh
    <3> QED
      BY <2>2, <3>1, <3>4
  <2> QED
    BY <2>1, <2>2
<1> QED
  BY <1>1, Histories, PTL

\* Compaction leaves the newest messages alone and no answered call unanswered,
\* whatever KeepRecent is.
THEOREM RecentKept == Spec => CompactionKeepsRecent
<1> DEFINE Keeps == messages' # messages /\ pc = "summarize" /\ pc' = "top" =>
         LET n == Len(messages) - KeepRecent
             m == Len(messages') - KeepRecent
         IN /\ m >= 0
            /\ \A k \in 1..KeepRecent : messages'[m + k] = messages[n + k]
            /\ Unanswered(messages') \subseteq Unanswered(messages)
<1>1. ASSUME Inv, HistoryInv, LoopAssumption, [Next]_vars PROVE Keeps
  <2> SUFFICES ASSUME messages' # messages, pc = "summarize", pc' = "top" PROVE Keeps
    OBVIOUS
  <2>1. Summarized \/ SummaryFails
    BY <1>1 DEF Next, Runner, Provider, Rest, vars, StartRun, LoadFails, Cancel, Crash, TurnLimit,
       TurnCancelled, BeginTurn, BackoffElapsed, CancelAwait, HookBlocks, HookPasses, VerifyNudge,
       RunTestsNudge, TestsFailedNudge, TestsSettled, NoToolNudge, DepthNudge, Finish, ToolBatch,
       ContinueTruncated, GiveUpTruncated, StopOther, CompactNotDue, CompactDue, SummarySkipped,
       Saved, SaveFails, Accepted, Retryable, Rejected, StreamFails, StreamEnds, PastVerify, EndTurn,
       Goto, Fail, Awaits
  <2>2. /\ messages' \in {SnipCompact(messages, KeepRecent), SummaryCompact(messages, KeepRecent)}
        /\ Len(messages) > KeepRecent
    BY <2>1 DEF Summarized, SummaryFails, Compacted
  <2>3. /\ messages \in Seq(Message) /\ nextId \in Nat /\ Fresh(messages, nextId)
        /\ Paired(messages) /\ KeepRecent \in Nat \ {0}
    BY <1>1 DEF Inv, TypeOK, ResultsFollowTheirCalls, HistoryInv, LoopAssumption
  <2> QED
    BY <2>2, <2>3, CompactedKeepsRecent
<1>2. Inv /\ HistoryInv /\ [Next]_vars => [Keeps]_vars
  BY <1>1, LoopAssumption
<1> QED
  BY <1>2, Histories, PTL DEF Spec, CompactionKeepsRecent

\* Without compaction a save extends what the session holds, whatever failed or
\* crashed before.
THEOREM SavesExtend == Spec => SavesExtendSession
<1> DEFINE Extends == stored' # stored /\ "auto_compact" \notin setup =>
         /\ Len(stored') >= Len(stored)
         /\ SubSeq(stored', 1, Len(stored)) = stored
<1>1. ASSUME Inv, HistoryInv, [Next]_vars PROVE Extends
  <2> SUFFICES ASSUME stored' # stored, "auto_compact" \notin setup PROVE Extends
    OBVIOUS
  <2>1. Saved
    BY <1>1 DEF Next, Runner, Provider, Rest, vars, StartRun, LoadFails, Cancel, Crash, TurnLimit,
       TurnCancelled, BeginTurn, BackoffElapsed, CancelAwait, HookBlocks, HookPasses, VerifyNudge,
       RunTestsNudge, TestsFailedNudge, TestsSettled, NoToolNudge, DepthNudge, Finish, ToolBatch,
       ContinueTruncated, GiveUpTruncated, StopOther, CompactNotDue, CompactDue, SummarySkipped,
       SaveFails, Accepted, Retryable, Rejected, StreamFails, StreamEnds, Summarized, SummaryFails,
       Nudge, Break, Push, Compacted, Goto, Fail
  <2>2. stored' = messages /\ messages \in Seq(Message) /\ stored \in Seq(Message)
        /\ StartsWith(messages, stored)
    BY <1>1, <2>1 DEF Saved, Inv, TypeOK, HistoryInv
  <2>3. Len(messages) \in Nat /\ Len(stored) \in Nat /\ Len(stored) <= Len(messages)
    BY <2>2, LenProperties DEF StartsWith
  <2>4. \A i \in 1..Len(stored) : messages[i] \in Message
    BY <2>2, <2>3, ElementOfSeq
  <2> DEFINE sub == SubSeq(messages, 1, Len(stored))
  <2>5. /\ sub \in Seq(Message) /\ Len(sub) = IF 1 <= Len(stored) THEN Len(stored) - 1 + 1 ELSE 0
        /\ \A i \in 1..(Len(stored) - 1 + 1) : sub[i] = messages[1 + i - 1]
    BY <2>3, <2>4, SubSeqProperties
  <2> HIDE DEF sub
  <2>6. Len(sub) = Len(stored) /\ \A i \in 1..Len(stored) : sub[i] = stored[i]
    BY <2>2, <2>3, <2>5 DEF StartsWith
  <2>7. sub = stored
    BY <2>2, <2>5, <2>6, SeqEqual
  <2> QED
    BY <2>2, <2>3, <2>7 DEF sub
<1>2. Inv /\ HistoryInv /\ [Next]_vars => [Extends]_vars
  BY <1>1
<1> QED
  BY <1>2, Histories, PTL DEF Spec, SavesExtendSession

-----------------------------------------------------------------------------
(* The flags and counters of one run. *)

\* the run has used no tool and its newest message answers the model
AfterNudge ==
    /\ local.no_tool_nudge_sent /\ ~local.had_tool_use
    /\ Len(messages) > 1 /\ messages[Len(messages) - 1].role = "assistant"

LocalInv ==
    /\ forced => pc \in Awaits /\ AfterNudge
    /\ local.force_tool_choice => pc \in {"top", "save"} /\ AfterNudge
    /\ local.turn <= MaxTurns + 1
    /\ pc \notin {"save", "idle"} => local.turn <= MaxTurns
    /\ pc \in Awaits => local.retries <= MaxRetries

\* a step that changes neither flags nor counters, and asks for nothing
LEMMA LocalQuiet ==
    ASSUME LocalInv, UNCHANGED <<local, forced, messages>>,
           pc' = pc \/ (pc \in Awaits /\ pc' \in Awaits)
                    \/ (~forced /\ ~local.force_tool_choice /\ pc' \notin Awaits
                            /\ (pc \in {"save", "idle"} => pc' \in {"save", "idle"}))
    PROVE  LocalInv'
BY DEF LocalInv, AfterNudge, Awaits

\* a return from the run
LEMMA LocalFresh ==
    ASSUME LoopAssumption, local' = FreshLocal, ~forced' PROVE LocalInv'
BY DEF LoopAssumption, LocalInv, FreshLocal

\* a push that changes at most other counters and flags
LEMMA LocalPush ==
    ASSUME LocalInv, pc = "handle", NEW msgs, NEW next \in {"top", "compact", "save"}, NEW l,
           Push(msgs, next, l), ~l.force_tool_choice, l.turn = local.turn
    PROVE  LocalInv'
BY DEF LocalInv, Push, Awaits

\* what the steps that end a turn leave alone
LEMMA LocalFields ==
    ASSUME local \in Locals, NEW b \in BOOLEAN, NEW n \in Nat
    PROVE  \A l \in {[local EXCEPT !.max_tokens_retries = @ + 1],
                     [local EXCEPT !.completion_verified = TRUE],
                     [local EXCEPT !.benchmark_retries = 1],
                     [local EXCEPT !.benchmark_retries = @ + 1],
                     [local EXCEPT !.depth_nudge_sent = TRUE],
                     [local EXCEPT !.calls = n, !.had_tool_use = TRUE,
                                   !.max_tokens_retries = 0, !.doom_loop_warned = b]} :
              l.force_tool_choice = local.force_tool_choice /\ l.turn = local.turn
BY DEF Locals

\* every step keeps flags and counters right
LEMMA NextLocal == ASSUME LoopAssumption, Inv, HistoryInv, LocalInv, [Next]_vars PROVE LocalInv'
<1>0. /\ messages \in Seq(Message) /\ local \in Locals /\ MaxTurns \in Nat /\ MaxRetries \in Nat
      /\ local.turn \in Nat /\ local.retries \in Nat
  BY DEF Inv, TypeOK, Locals, LoopAssumption
<1>1. CASE StartRun
  BY <1>1 DEF StartRun, LocalInv, FreshLocal, Awaits, LoopAssumption
<1>2. CASE LoadFails \/ Cancel \/ UNCHANGED vars
  BY <1>2, LocalQuiet DEF LoadFails, Cancel, vars
<1>3. CASE Crash \/ Saved
  BY <1>3, LocalFresh DEF Crash, Saved, LocalInv, Awaits
<1>4. CASE TurnLimit
  <2>1. /\ local'.turn = local.turn + 1 /\ local'.force_tool_choice = local.force_tool_choice
        /\ local'.no_tool_nudge_sent = local.no_tool_nudge_sent
        /\ local'.had_tool_use = local.had_tool_use
    BY <1>0, <1>4 DEF TurnLimit, Locals
  <2>2. pc = "top" /\ pc' = "save" /\ UNCHANGED <<messages, forced>>
    BY <1>4 DEF TurnLimit
  <2> QED
    BY <1>0, <2>1, <2>2 DEF LocalInv, AfterNudge, Awaits
<1>5. CASE BeginTurn
  <2>1. /\ local'.turn = local.turn + 1 /\ local'.retries = 0 /\ ~local'.force_tool_choice
        /\ local'.no_tool_nudge_sent = local.no_tool_nudge_sent
        /\ local'.had_tool_use = local.had_tool_use
    BY <1>0, <1>5 DEF BeginTurn, Locals
  <2>2. /\ pc' = "request" /\ local.turn < MaxTurns /\ UNCHANGED messages
        /\ forced' = local.force_tool_choice
    BY <1>5 DEF BeginTurn
  <2> QED
    BY <1>0, <2>1, <2>2 DEF LocalInv, AfterNudge, Awaits
<1>6. CASE Retryable
  <2>1. /\ local'.turn = local.turn /\ local'.retries = local.retries + 1
        /\ local'.force_tool_choice = local.force_tool_choice
        /\ local'.no_tool_nudge_sent = local.no_tool_nudge_sent
        /\ local'.had_tool_use = local.had_tool_use
    BY <1>0, <1>6 DEF Retryable, Locals
  <2>2. /\ pc = "request" /\ pc' = "backoff" /\ local.retries < MaxRetries
        /\ UNCHANGED <<messages, forced>>
    BY <1>6 DEF Retryable
  <2> QED
    BY <1>0, <2>1, <2>2 DEF LocalInv, AfterNudge, Awaits
<1>7. CASE Accepted \/ BackoffElapsed
  BY <1>7, LocalQuiet DEF Accepted, BackoffElapsed, Goto, Awaits
<1>8. CASE HookPasses \/ CompactNotDue \/ CompactDue \/ SummarySkipped
  BY <1>8, LocalQuiet DEF HookPasses, CompactNotDue, CompactDue, SummarySkipped, Goto, LocalInv, Awaits
<1>9. CASE TurnCancelled \/ Rejected \/ CancelAwait \/ StreamFails \/ HookBlocks \/ SaveFails
  BY <1>9, LocalFresh DEF TurnCancelled, Rejected, CancelAwait, StreamFails, HookBlocks, SaveFails, Fail
<1>10. ASSUME NEW stop \in Stops \ {"none"}, NEW n \in BatchSizes, StreamEnds(stop, n)
       PROVE  LocalInv'
  BY <1>10 DEF StreamEnds, LocalInv, Awaits
<1>11. CASE NoToolNudge
  <2>1. /\ local'.turn = local.turn /\ local'.no_tool_nudge_sent
        /\ local'.had_tool_use = local.had_tool_use
    BY <1>0, <1>11 DEF NoToolNudge, Nudge, Push, Locals
  <2>2. /\ pc = "handle" /\ pc' = "top" /\ ~local.had_tool_use /\ ~forced
        /\ messages' = Append(messages, User) /\ forced' = forced
    BY <1>11 DEF NoToolNudge, NoToolDue, Nudge, Push, PastVerify, EndTurn, LocalInv, Awaits
  <2>3. /\ messages # << >> /\ messages[Len(messages)].role = "assistant"
    BY <2>2 DEF HistoryInv
  <2>4. Len(messages) > 0 /\ Len(messages) \in Nat
    BY <1>0, <2>3, LenProperties, EmptySeq
  <2>5. /\ Len(messages') = Len(messages) + 1
        /\ messages'[Len(messages)] = messages[Len(messages)]
    BY <1>0, <2>2, <2>4, ConstructorTypes, AppendProperties
  <2>6. Len(messages') > 1 /\ messages'[Len(messages') - 1].role = "assistant"
    BY <2>3, <2>4, <2>5
  <2> QED
    BY <2>1, <2>2, <2>6 DEF LocalInv, AfterNudge, Awaits
<1>12. CASE VerifyNudge \/ RunTestsNudge \/ TestsFailedNudge \/ DepthNudge
  <2>1. PICK l \in {[local EXCEPT !.completion_verified = TRUE], [local EXCEPT !.benchmark_retries = 1],
                    [local EXCEPT !.benchmark_retries = @ + 1], [local EXCEPT !.depth_nudge_sent = TRUE]} :
           pc = "handle" /\ Push(Append(messages, User), "top", l)
    BY <1>12 DEF VerifyNudge, RunTestsNudge, TestsFailedNudge, DepthNudge, Nudge, EndTurn, PastVerify
  <2>2. l.force_tool_choice = local.force_tool_choice /\ l.turn = local.turn
    BY <1>0, LocalFields
  <2>3. ~l.force_tool_choice
    BY <2>1, <2>2 DEF LocalInv
  <2> QED
    BY <2>1, <2>2, <2>3, LocalPush
<1>13. CASE TestsSettled \/ Finish \/ StopOther
  <2>1. pc = "handle" /\ Push(messages, "save", local)
    BY <1>13 DEF TestsSettled, Finish, StopOther, Break, EndTurn, PastVerify
  <2>2. pc' = "save" /\ UNCHANGED <<local, forced, messages>>
    BY <2>1 DEF Push
  <2>3. ~forced /\ ~local.force_tool_choice
    BY <2>1 DEF LocalInv, Awaits
  <2> QED
    BY <2>2, <2>3 DEF LocalInv, Awaits
<1>14. CASE ContinueTruncated \/ GiveUpTruncated
  <2> DEFINE l == [local EXCEPT !.max_tokens_retries = @ + 1]
  <2>1. pc = "handle" /\ \E next \in {"compact", "save"} : \E msgs : Push(msgs, next, l)
    BY <1>14 DEF ContinueTruncated, GiveUpTruncated
  <2>2. l.force_tool_choice = local.force_tool_choice /\ l.turn = local.turn
    BY <1>0, LocalFields
  <2> HIDE DEF l
  <2>3. ~l.force_tool_choice
    BY <2>1, <2>2 DEF LocalInv
  <2> QED
    BY <2>1, <2>2, <2>3, LocalPush
<1>15. ASSUME NEW doom \in BOOLEAN, ToolBatch(doom)
       PROVE  LocalInv'
  <2> DEFINE n == local.calls + response.size
             b == local.doom_loop_warned \/ doom
             l == [local EXCEPT !.calls = n, !.had_tool_use = TRUE,
                                !.max_tokens_retries = 0, !.doom_loop_warned = b]
  <2>1. pc = "handle" /\ \E msgs : Push(msgs, "compact", l)
    BY <1>15 DEF ToolBatch
  <2>2. n \in Nat /\ b \in BOOLEAN
    BY <1>0 DEF Inv, TypeOK, Locals
  <2> HIDE DEF n, b
  <2>3. l.force_tool_choice = local.force_tool_choice /\ l.turn = local.turn
    BY <1>0, <2>2, LocalFields
  <2> HIDE DEF l
  <2>4. ~l.force_tool_choice
    BY <2>1, <2>3 DEF LocalInv
  <2> QED
    BY <2>1, <2>3, <2>4, LocalPush
<1>16. CASE Summarized \/ SummaryFails
  BY <1>16 DEF Summarized, SummaryFails, Compacted, LocalInv, Awaits
<1> QED
  BY <1>1, <1>2, <1>3, <1>4, <1>5, <1>6, <1>7, <1>8, <1>9, <1>10, <1>11, <1>12, <1>13, <1>14, <1>15, <1>16
  DEF Next, Runner, Provider, Rest

\* Flags and counters are right in every reachable state.
THEOREM Flags == Spec => []LocalInv
<1>1. Init => LocalInv
  BY LoopAssumption DEF Init, LocalInv, FreshLocal, LoopAssumption, Awaits
<1> QED
  BY <1>1, InitInv, NextInv, NextLocal, Histories, LoopAssumption, PTL DEF Spec

\* A forced tool choice leaves with the one request behind the nudge that asked for it.
THEOREM ForcedOnce == Spec => []ForcedOnlyAfterNudge
<1>1. LocalInv => ForcedOnlyAfterNudge
  BY DEF LocalInv, AfterNudge, ForcedOnlyAfterNudge, InFlight
<1> QED
  BY <1>1, Flags, PTL

\* the counters that are bounded by what may be pushed
CounterInv ==
    /\ local.benchmark_retries <= BenchmarkMaxRetries
    /\ local.max_tokens_retries <= MaxTokensRetryLimit \/ pc = "save"

\* a step that leaves these counters alone, or begins them anew
LEMMA CountersKept ==
    ASSUME LoopAssumption, CounterInv,
           \/ /\ local'.benchmark_retries = local.benchmark_retries
              /\ local'.max_tokens_retries = local.max_tokens_retries
              /\ pc = "save" => pc' = "save"
           \/ local' = FreshLocal
    PROVE  CounterInv'
BY DEF CounterInv, FreshLocal, LoopAssumption

\* what is pushed at the end of a turn
LEMMA CountersPushed ==
    ASSUME LoopAssumption, CounterInv, local \in Locals, pc = "handle", NEW msgs, NEW next, NEW l,
           Push(msgs, next, l), l.benchmark_retries <= BenchmarkMaxRetries,
           l.max_tokens_retries <= MaxTokensRetryLimit \/ next = "save"
    PROVE  CounterInv'
BY DEF CounterInv, Push

\* every step keeps the counters bounded
LEMMA NextCounters == ASSUME LoopAssumption, Inv, CounterInv, [Next]_vars PROVE CounterInv'
<1>1. local \in Locals /\ local.benchmark_retries \in Nat /\ local.max_tokens_retries \in Nat
  BY DEF Inv, TypeOK, Locals
<1>2. pc = "handle" => local.max_tokens_retries <= MaxTokensRetryLimit
  BY DEF CounterInv
<1>3. CASE TurnLimit \/ BeginTurn \/ Retryable
  <2>1. /\ local'.benchmark_retries = local.benchmark_retries
        /\ local'.max_tokens_retries = local.max_tokens_retries
    BY <1>1, <1>3 DEF TurnLimit, BeginTurn, Retryable, Locals
  <2>2. pc # "save"
    BY <1>3 DEF TurnLimit, BeginTurn, Retryable
  <2> QED
    BY <2>1, <2>2, CountersKept
<1>4. CASE LoadFails \/ Cancel \/ Accepted \/ BackoffElapsed \/ HookPasses \/ CompactNotDue \/ CompactDue
           \/ SummarySkipped \/ Summarized \/ SummaryFails \/ UNCHANGED vars
  <2>1. local' = local /\ (pc = "save" => pc' = "save")
    BY <1>4 DEF LoadFails, Cancel, Accepted, BackoffElapsed, HookPasses, CompactNotDue, CompactDue,
                SummarySkipped, Summarized, SummaryFails, Compacted, Goto, vars
  <2> QED
    BY <2>1, CountersKept
<1>5. CASE StartRun \/ Crash \/ Saved \/ TurnCancelled \/ Rejected \/ CancelAwait \/ StreamFails \/ HookBlocks
           \/ SaveFails
  <2>1. local' = FreshLocal
    BY <1>5 DEF StartRun, Crash, Saved, TurnCancelled, Rejected, CancelAwait, StreamFails, HookBlocks,
                SaveFails, Fail
  <2> QED
    BY <2>1, CountersKept
<1>6. ASSUME NEW stop \in Stops \ {"none"}, NEW n \in BatchSizes, StreamEnds(stop, n)
      PROVE  CounterInv'
  <2>1. local' = local /\ pc # "save"
    BY <1>6 DEF StreamEnds
  <2> QED
    BY <2>1, CountersKept
<1>7. CASE VerifyNudge \/ NoToolNudge \/ DepthNudge
  <2>1. \E msgs, l : /\ pc = "handle" /\ Push(msgs, "top", l)
                     /\ l \in {[local EXCEPT !.completion_verified = TRUE],
                               [local EXCEPT !.no_tool_nudge_sent = TRUE, !.force_tool_choice = TRUE],
                               [local EXCEPT !.depth_nudge_sent = TRUE]}
    BY <1>7 DEF VerifyNudge, NoToolNudge, DepthNudge, Nudge, PastVerify, EndTurn
  <2>2. \A l \in {[local EXCEPT !.completion_verified = TRUE],
                  [local EXCEPT !.no_tool_nudge_sent = TRUE, !.force_tool_choice = TRUE],
                  [local EXCEPT !.depth_nudge_sent = TRUE]} :
          /\ l.benchmark_retries = local.benchmark_retries
          /\ l.max_tokens_retries = local.max_tokens_retries
    BY <1>1 DEF Locals
  <2>3. local'.benchmark_retries = local.benchmark_retries
        /\ local'.max_tokens_retries = local.max_tokens_retries /\ pc # "save"
    BY <2>1, <2>2 DEF Push
  <2> QED
    BY <2>3, CountersKept
<1>8. CASE RunTestsNudge \/ TestsFailedNudge
  <2>1. \E msgs, l : /\ pc = "handle" /\ Push(msgs, "top", l) /\ local.benchmark_retries < BenchmarkMaxRetries
                     /\ l \in {[local EXCEPT !.benchmark_retries = 1],
                               [local EXCEPT !.benchmark_retries = @ + 1]}
    BY <1>8 DEF RunTestsNudge, TestsFailedNudge, TestsDue, Nudge, PastVerify, EndTurn
  <2>2. \A l \in {[local EXCEPT !.benchmark_retries = 1], [local EXCEPT !.benchmark_retries = @ + 1]} :
          /\ l.benchmark_retries \in {1, local.benchmark_retries + 1}
          /\ l.max_tokens_retries = local.max_tokens_retries
    BY <1>1 DEF Locals
  <2>3. local.benchmark_retries < BenchmarkMaxRetries =>
          1 <= BenchmarkMaxRetries /\ local.benchmark_retries + 1 <= BenchmarkMaxRetries
    BY <1>1 DEF LoopAssumption
  <2>4. PICK msgs, l :
          /\ pc = "handle" /\ Push(msgs, "top", l) /\ local.benchmark_retries < BenchmarkMaxRetries
          /\ l \in {[local EXCEPT !.benchmark_retries = 1], [local EXCEPT !.benchmark_retries = @ + 1]}
    BY <2>1
  <2>5. l.benchmark_retries <= BenchmarkMaxRetries /\ l.max_tokens_retries <= MaxTokensRetryLimit
    BY <1>2, <2>2, <2>3, <2>4
  <2> QED
    BY <1>1, <2>4, <2>5, CountersPushed
<1>9. CASE TestsSettled \/ Finish \/ StopOther
  <2>1. pc = "handle" /\ Push(messages, "save", local)
    BY <1>9 DEF TestsSettled, Finish, StopOther, Break, EndTurn, PastVerify
  <2>2. local' = local /\ pc # "save"
    BY <2>1 DEF Push
  <2> QED
    BY <2>2, CountersKept
<1>10. CASE ContinueTruncated \/ GiveUpTruncated
  <2> DEFINE l == [local EXCEPT !.max_tokens_retries = @ + 1]
  <2>1. /\ pc = "handle"
        /\ \E msgs, next : Push(msgs, next, l) /\ (local.max_tokens_retries < MaxTokensRetryLimit \/ next = "save")
    BY <1>10 DEF ContinueTruncated, GiveUpTruncated
  <2>2. l.benchmark_retries = local.benchmark_retries /\ l.max_tokens_retries = local.max_tokens_retries + 1
    BY <1>1 DEF Locals
  <2> HIDE DEF l
  <2>3. local.max_tokens_retries < MaxTokensRetryLimit => l.max_tokens_retries <= MaxTokensRetryLimit
    BY <1>1, <2>2 DEF LoopAssumption
  <2>4. l.benchmark_retries <= BenchmarkMaxRetries
    BY <2>2 DEF CounterInv
  <2>5. PICK msgs, next : Push(msgs, next, l) /\ (local.max_tokens_retries < MaxTokensRetryLimit \/ next = "save")
    BY <2>1
  <2>6. l.max_tokens_retries <= MaxTokensRetryLimit \/ next = "save"
    BY <2>3, <2>5
  <2> QED
    BY <1>1, <2>1, <2>4, <2>5, <2>6, CountersPushed
<1>11. ASSUME NEW doom \in BOOLEAN, ToolBatch(doom)
       PROVE  CounterInv'
  <2> DEFINE l == [local EXCEPT !.calls = local.calls + response.size, !.had_tool_use = TRUE,
                                !.max_tokens_retries = 0,
                                !.doom_loop_warned = local.doom_loop_warned \/ doom]
  <2>1. pc = "handle" /\ \E msgs : Push(msgs, "compact", l)
    BY <1>11 DEF ToolBatch
  <2>2. l.benchmark_retries = local.benchmark_retries /\ l.max_tokens_retries = 0
    BY <1>1 DEF Locals
  <2> HIDE DEF l
  <2>3. l.benchmark_retries <= BenchmarkMaxRetries /\ l.max_tokens_retries <= MaxTokensRetryLimit
    BY <2>2 DEF CounterInv, LoopAssumption
  <2> QED
    BY <1>1, <2>1, <2>3, CountersPushed
<1> QED
  BY <1>3, <1>4, <1>5, <1>6, <1>7, <1>8, <1>9, <1>10, <1>11 DEF Next, Runner, Provider, Rest

\* The loop stops within its budget of turns; a request is retried, a truncated answer
\* continued and the tests asked for no more often than their limits say, whatever these are.
THEOREM Budgets == Spec => []WithinBudget
<1>1. LocalInv /\ CounterInv => WithinBudget
  BY DEF LocalInv, CounterInv, WithinBudget, InFlight, Awaits
<1>2. Init => CounterInv
  BY LoopAssumption DEF Init, CounterInv, FreshLocal, LoopAssumption
<1> QED
  BY <1>1, <1>2, InitInv, NextInv, NextCounters, Flags, LoopAssumption, PTL DEF Spec
=============================================================================
