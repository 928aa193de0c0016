--------------------------- MODULE SideBySideProof ---------------------------
(***************************************************************************)
(* Proofs about the three components of SideBySide: the loops of           *)
(* compaction compute what History specifies for every history and every   *)
(* number of messages to keep; a topic of the mailbox delivers what was    *)
(* sent, in order; a batch of child agents returns every result in its     *)
(* place.                                                                  *)
(***************************************************************************)
EXTENDS SideBySide, SequenceTheorems, FiniteSetTheorems, WellFoundedInduction, TLAPS

-------------------------------------------------------------------------------
(* The loops of compaction *)

\* what the back-off loop has established so far
SplitInv ==
    /\ split <= NaiveSplit(msgs, keep)
    /\ \A t \in (split + 1)..NaiveSplit(msgs, keep) : CarriesToolResult(msgs[t + 1])
    /\ pc # "split" => ~Severs

\* what the scan has established about the messages it has seen
ScanInv ==
    /\ \A id \in Nat : id \in seen <=> \E j \in 1..at : id \in msgs[split + j].uses
    /\ \A id \in Nat :
         id \in orphaned <=> \E i \in 1..at : /\ id \in msgs[split + i].results
                                              /\ \A j \in 1..i : id \notin msgs[split + j].uses
    /\ pc = "split" => at = 0
    /\ pc = "done" => split + at = Len(msgs)

IInv == TypeOK /\ SplitInv /\ ScanInv

\* A non-empty set of natural numbers has a least element (the back-off loop
\* counts down to it).
LEMMA LeastNat ==
    ASSUME NEW T, T \subseteq Nat, T # {}
    PROVE  \E x \in T : \A y \in T : x <= y
<1> DEFINE R == OpToRel(<, Nat)
<1>1. IsWellFoundedOn(R, Nat)
  BY NatLessThanWellFounded
<1>2. \A x, y \in Nat : (<<y, x>> \in R) <=> y < x
  BY SMT DEF R, OpToRel
<1> HIDE DEF R
<1>3. PICK x \in T : \A y \in T : ~ (<<y, x>> \in R)
  BY <1>1, WFMin
<1>4. \A y \in T : x <= y
  <2> TAKE y \in T
  <2>1. ~ (<<y, x>> \in R)
    BY <1>3
  <2>2. x \in Nat /\ y \in Nat
    OBVIOUS
  <2>3. ~ (y < x)
    BY <2>1, <2>2, <1>2
  <2> QED
    BY <2>2, <2>3
<1> QED
  BY <1>4

\* The back-off loop of pair_aware_split ends, and where it ends the first
\* kept message is not a tool_result unless the whole history is kept.
LEMMA SplitProperties ==
    ASSUME NEW hist \in Seq(Message), NEW count \in Nat \ {0}
    PROVE  /\ PairAwareSplit(hist, count) \in 0..NaiveSplit(hist, count)
           /\ \/ PairAwareSplit(hist, count) = 0
              \/ ~CarriesToolResult(hist[PairAwareSplit(hist, count) + 1])
           /\ \A t \in (PairAwareSplit(hist, count) + 1)..NaiveSplit(hist, count) :
                CarriesToolResult(hist[t + 1])
<1> DEFINE top == NaiveSplit(hist, count)
           Halts(s) == s = 0 \/ ~CarriesToolResult(hist[s + 1])
           T == {n \in Nat : n <= top /\ Halts(top - n)}
           Good(s) == /\ Halts(s)
                      /\ \A t \in (s + 1)..top : CarriesToolResult(hist[t + 1])
<1>1. top \in Nat
  BY LenProperties, SMT DEF NaiveSplit
<1>2. T # {}
  BY <1>1, top \in T, SMT
<1>3. PICK n \in T : \A m \in T : n <= m
  BY <1>2, LeastNat
<1>4. top - n \in 0..top /\ Halts(top - n)
  BY <1>1, <1>3
<1>5. ASSUME NEW t \in (top - n + 1)..top
      PROVE  CarriesToolResult(hist[t + 1])
  <2>1. top - t \in Nat /\ top - t < n /\ top - (top - t) = t /\ top - t <= top
    BY <1>1, <1>3, <1>5
  <2>2. top - t \notin T
    BY <2>1, <1>3
  <2> QED
    BY <2>1, <2>2
<1>6. \E s \in 0..top : Good(s)
  BY <1>4, <1>5
<1>7. PairAwareSplit(hist, count) = CHOOSE s \in 0..top : Good(s)
  BY DEF PairAwareSplit
<1> HIDE DEF top, Good
<1>8. PairAwareSplit(hist, count) \in 0..top /\ Good(PairAwareSplit(hist, count))
  BY <1>6, <1>7
<1> QED
  BY <1>8 DEF top, Good

\* What a cut keeps is the end of the history, from the cut on.
LEMMA KeptIsSuffix ==
    ASSUME NEW hist \in Seq(Message), NEW count \in Nat \ {0}
    PROVE  LET cut == PairAwareSplit(hist, count) IN
           /\ cut \in 0..NaiveSplit(hist, count)
           /\ Kept(hist, count) \in Seq(Message)
           /\ Len(Kept(hist, count)) = Len(hist) - cut
           /\ \A i \in 1..(Len(hist) - cut) : Kept(hist, count)[i] = hist[cut + i]
<1> DEFINE cut == PairAwareSplit(hist, count)
           kept == Kept(hist, count)
<1>1. cut \in 0..NaiveSplit(hist, count) /\ cut \in Nat /\ cut <= Len(hist)
  BY SplitProperties, LenProperties DEF NaiveSplit
<1>2. kept = SubSeq(hist, cut + 1, Len(hist))
  BY DEF Kept
<1> HIDE DEF cut
<1>3. \A i \in (cut + 1)..Len(hist) : hist[i] \in Message
  BY <1>1, ElementOfSeq, LenProperties
<1>4. cut + 1 \in Int /\ Len(hist) \in Int
  BY <1>1, LenProperties
<1>5. /\ SubSeq(hist, cut + 1, Len(hist)) \in Seq(Message)
      /\ Len(SubSeq(hist, cut + 1, Len(hist))) =
           IF cut + 1 <= Len(hist) THEN Len(hist) - (cut + 1) + 1 ELSE 0
      /\ \A i \in 1..(Len(hist) - (cut + 1) + 1) :
           SubSeq(hist, cut + 1, Len(hist))[i] = hist[cut + 1 + i - 1]
  BY <1>3, <1>4, SubSeqProperties
<1> HIDE DEF kept
<1>6. /\ kept \in Seq(Message)
      /\ Len(kept) = Len(hist) - cut
      /\ \A i \in 1..(Len(hist) - cut) : kept[i] = hist[cut + i]
  BY <1>1, <1>2, <1>4, <1>5
<1> QED
  BY <1>1, <1>6 DEF cut, kept

\* What a cut keeps of a paired history is a paired history.
LEMMA KeptProperties ==
    ASSUME NEW hist \in Seq(Message), NEW count \in Nat \ {0}, Paired(hist)
    PROVE  /\ Kept(hist, count) \in Seq(Message)
           /\ Paired(Kept(hist, count))
<1> DEFINE cut == PairAwareSplit(hist, count)
           kept == Kept(hist, count)
<1>1. cut \in Nat /\ cut <= Len(hist)
  BY SplitProperties, LenProperties DEF NaiveSplit
<1>2. cut = 0 \/ ~CarriesToolResult(hist[cut + 1])
  BY SplitProperties
<1>4. /\ kept \in Seq(Message)
      /\ Len(kept) = Len(hist) - cut
      /\ \A i \in 1..(Len(hist) - cut) : kept[i] = hist[cut + i]
  BY KeptIsSuffix
<1> HIDE DEF cut
<1>5. Paired(kept)
  <2> SUFFICES ASSUME NEW i \in DOMAIN kept, CarriesToolResult(kept[i])
               PROVE  i > 1 /\ kept[i - 1].uses = kept[i].results
    BY DEF Paired
  <2> HIDE DEF kept
  <2>1. i \in 1..(Len(hist) - cut) /\ kept[i] = hist[cut + i]
    BY <1>4, LenProperties
  <2>2. cut + i \in DOMAIN hist
    BY <1>1, <2>1, LenProperties
  <2> DEFINE j == cut + i
  <2> HIDE DEF j
  <2>3. j > 1 /\ hist[j - 1].uses = hist[j].results
    <3>1. CarriesToolResult(hist[j]) /\ j \in DOMAIN hist
      BY <2>1, <2>2 DEF j
    <3> QED
      BY <3>1 DEF Paired
  <2>4. i > 1
    BY <1>1, <1>2, <2>1, <2>3 DEF j
  <2>5. kept[i - 1] = hist[j - 1]
    <3>1. Len(hist) \in Nat
      BY LenProperties
    <3>2. i - 1 \in 1..(Len(hist) - cut) /\ cut + (i - 1) = j - 1
      BY <1>1, <2>1, <2>4, <3>1 DEF j
    <3> QED
      BY <1>4, <3>2
  <2> QED
    BY <2>1, <2>3, <2>4, <2>5 DEF j
<1> QED
  BY <1>4, <1>5

\* In a paired history the check of find_orphaned_tool_results reports nothing.
LEMMA PairedHasNoOrphans ==
    ASSUME NEW hist \in Seq(Message), Paired(hist)
    PROVE  Orphaned(hist) = {}
<1> SUFFICES ASSUME NEW id, NEW i \in DOMAIN hist, id \in hist[i].results,
                    \A j \in 1..i : id \notin hist[j].uses
             PROVE  FALSE
  BY DEF Orphaned
<1>1. i \in 1..Len(hist) /\ Len(hist) \in Nat
  BY LenProperties
<1>2. i > 1 /\ hist[i - 1].uses = hist[i].results
  BY DEF Paired, CarriesToolResult
<1>3. i - 1 \in 1..i
  BY <1>1, <1>2
<1> QED
  BY <1>2, <1>3

\* saturating_sub leaves the whole history or all but keep messages.
LEMMA NaiveBounds ==
    ASSUME NEW m \in Seq(Message), NEW k \in Nat \ {0}
    PROVE  /\ NaiveSplit(m, k) \in 0..Len(m)
           /\ NaiveSplit(m, k) > 0 => NaiveSplit(m, k) < Len(m)
           /\ Len(m) >= k => Len(m) - NaiveSplit(m, k) >= k
BY LenProperties DEF NaiveSplit

\* Only one split satisfies what PairAwareSplit chooses by.
LEMMA SplitUnique ==
    ASSUME NEW m \in Seq(Message), NEW k \in Nat \ {0}, NEW s \in Nat,
           s <= NaiveSplit(m, k), s = 0 \/ ~CarriesToolResult(m[s + 1]),
           \A t \in (s + 1)..NaiveSplit(m, k) : CarriesToolResult(m[t + 1])
    PROVE  s = PairAwareSplit(m, k)
<1> DEFINE p == PairAwareSplit(m, k)
           top == NaiveSplit(m, k)
<1>1. /\ p \in 0..top
      /\ p = 0 \/ ~CarriesToolResult(m[p + 1])
      /\ \A t \in (p + 1)..top : CarriesToolResult(m[t + 1])
  BY SplitProperties
<1>2. top \in Nat
  BY NaiveBounds, LenProperties
<1> HIDE DEF p, top
<1>3. CASE s < p
  <2>1. p \in (s + 1)..top /\ p # 0
    BY <1>1, <1>2, <1>3
  <2> QED
    BY <1>1, <2>1 DEF top
<1>4. CASE p < s
  <2>1. s \in (p + 1)..top /\ s # 0
    BY <1>1, <1>2, <1>4 DEF top
  <2> QED
    BY <1>1, <2>1
<1> QED
  BY <1>1, <1>2, <1>3, <1>4 DEF p

\* The loops start from a split that is not yet backed off and an empty scan.
LEMMA InitInv == Init => IInv
<1> SUFFICES ASSUME Init PROVE IInv
  OBVIOUS
<1>1. msgs \in Seq(Message) /\ keep \in Nat \ {0}
  BY CutAssumption DEF Init
<1>2. split \in 0..Len(msgs) /\ Len(msgs) \in Nat
  BY <1>1, NaiveBounds, LenProperties DEF Init
<1>3. TypeOK
  BY <1>1, <1>2 DEF Init, TypeOK
<1>4. SplitInv
  BY <1>1, <1>2 DEF Init, SplitInv
<1>5. ScanInv
  BY DEF Init, ScanInv
<1> QED
  BY <1>3, <1>4, <1>5 DEF IInv

\* Each turn of either loop preserves what was established.
LEMMA NextInv == IInv /\ [Next]_vars => IInv'
<1> SUFFICES ASSUME IInv, [Next]_vars PROVE IInv'
  OBVIOUS
<1>0. /\ Len(msgs) \in Nat /\ split \in Nat /\ at \in Nat
      /\ NaiveSplit(msgs, keep) \in Nat /\ NaiveSplit(msgs, keep) <= Len(msgs)
  BY LenProperties, NaiveBounds DEF IInv, TypeOK
<1>1. CASE BackOff
  <2>1. split > 0 /\ CarriesToolResult(msgs[split + 1]) /\ split' = split - 1 /\ at = 0
    BY <1>1 DEF BackOff, Severs, IInv, ScanInv
  <2>2. TypeOK'
    BY <1>0, <1>1, <2>1 DEF IInv, TypeOK, BackOff
  <2>3. SplitInv'
    <3>1. ASSUME NEW t \in (split' + 1)..NaiveSplit(msgs, keep)
          PROVE  CarriesToolResult(msgs[t + 1])
      <4>1. t = split \/ t \in (split + 1)..NaiveSplit(msgs, keep)
        BY <1>0, <2>1, <3>1
      <4> QED
        BY <2>1, <4>1 DEF IInv, SplitInv
    <3>2. split' <= NaiveSplit(msgs, keep)
      BY <1>0, <2>1 DEF IInv, SplitInv
    <3>3. msgs' = msgs /\ keep' = keep /\ pc' = "split"
      BY <1>1 DEF BackOff
    <3> QED
      BY <3>1, <3>2, <3>3 DEF SplitInv
  <2>4. ScanInv'
    BY <1>1, <2>1 DEF IInv, ScanInv, BackOff
  <2> QED
    BY <2>2, <2>3, <2>4 DEF IInv
<1>2. CASE Stop
  <2>1. TypeOK'
    BY <1>2 DEF IInv, TypeOK, Stop
  <2>2. SplitInv'
    BY <1>2 DEF IInv, SplitInv, Stop, Severs
  <2>3. ScanInv'
    BY <1>2 DEF IInv, ScanInv, Stop
  <2> QED
    BY <2>1, <2>2, <2>3 DEF IInv
<1>3. CASE Scan
  <2> DEFINE msg == msgs[split + at + 1]
  <2>1. /\ split + at + 1 \in 1..Len(msgs) /\ split + at + 1 = split + (at + 1)
        /\ at' = at + 1 /\ at + 1 \in Nat
        /\ \A i : i \in 1..(at + 1) <=> i \in 1..at \/ i = at + 1
        /\ msgs' = msgs /\ keep' = keep /\ pc' = pc /\ split' = split
    BY <1>0, <1>3 DEF Scan
  <2>2. msg \in Message
    BY <2>1, ElementOfSeq DEF IInv, TypeOK
  <2>3. msg.uses \subseteq Nat /\ msg.results \subseteq Nat
    BY <2>2 DEF Message
  <2>4. seen' = seen \union msg.uses /\ orphaned' = orphaned \union (msg.results \ seen')
    BY <1>3 DEF Scan
  <2>5. msg = msgs[split + (at + 1)]
    BY <2>1
  <2> HIDE DEF msg
  <2>6. TypeOK'
    <3>1. seen' \subseteq Nat /\ orphaned' \subseteq Nat
      BY <2>3, <2>4 DEF IInv, TypeOK
    <3>2. at' \in 0..(Len(msgs) - split)
      BY <1>0, <2>1
    <3> QED
      BY <2>1, <3>1, <3>2 DEF IInv, TypeOK
  <2>7. SplitInv'
    BY <2>1 DEF IInv, SplitInv, Severs
  <2>8. \A id \in Nat : id \in seen' <=> \E j \in 1..(at + 1) : id \in msgs[split + j].uses
    <3> TAKE id \in Nat
    <3> DEFINE Used(j) == id \in msgs[split + j].uses
    <3>1. id \in seen <=> \E j \in 1..at : Used(j)
      BY DEF IInv, ScanInv
    <3>2. Used(at + 1) <=> id \in msg.uses
      BY <2>5
    <3> HIDE DEF Used
    <3>3. id \in seen' <=> \E j \in 1..(at + 1) : Used(j)
      BY <2>1, <2>4, <3>1, <3>2
    <3> QED
      BY <3>3 DEF Used
  <2>9. \A id \in Nat : id \in orphaned' <=>
          \E i \in 1..(at + 1) : /\ id \in msgs[split + i].results
                                 /\ \A j \in 1..i : id \notin msgs[split + j].uses
    <3> TAKE id \in Nat
    <3> DEFINE Lone(i) == /\ id \in msgs[split + i].results
                          /\ \A j \in 1..i : id \notin msgs[split + j].uses
    <3>1. id \in orphaned <=> \E i \in 1..at : Lone(i)
      BY DEF IInv, ScanInv
    <3>2. Lone(at + 1) <=> id \in msg.results /\ id \notin seen'
      BY <2>1, <2>5, <2>8
    <3> HIDE DEF Lone
    <3>3. (\E i \in 1..(at + 1) : Lone(i)) <=> (\E i \in 1..at : Lone(i)) \/ Lone(at + 1)
      BY <1>0, <2>1
    <3>4. id \in orphaned' <=> \E i \in 1..(at + 1) : Lone(i)
      BY <2>4, <3>1, <3>2, <3>3
    <3> QED
      BY <3>4 DEF Lone
  <2>10. pc' = "scan"
    BY <1>3, <2>1 DEF Scan
  <2>11. ScanInv'
    BY <2>1, <2>8, <2>9, <2>10 DEF ScanInv
  <2> QED
    BY <2>6, <2>7, <2>11 DEF IInv
<1>4. CASE Finish
  <2>1. TypeOK'
    BY <1>4 DEF IInv, TypeOK, Finish
  <2>2. SplitInv'
    BY <1>4 DEF IInv, SplitInv, Finish, Severs
  <2>3. ScanInv'
    BY <1>4 DEF IInv, ScanInv, Finish
  <2> QED
    BY <2>1, <2>2, <2>3 DEF IInv
<1>5. CASE UNCHANGED vars
  BY <1>5 DEF IInv, TypeOK, SplitInv, ScanInv, Severs, vars
<1> QED
  BY <1>1, <1>2, <1>3, <1>4, <1>5 DEF Next, Done

\* What is kept, message by message.
LEMMA Suffix ==
    ASSUME IInv
    PROVE  LET kept == SubSeq(msgs, split + 1, Len(msgs))
           IN  /\ kept \in Seq(Message) /\ Len(kept) = Len(msgs) - split
               /\ \A i \in 1..(Len(msgs) - split) : kept[i] = msgs[split + i]
<1>1. /\ msgs \in Seq(Message) /\ Len(msgs) \in Nat
      /\ split \in Nat /\ split <= Len(msgs) /\ split + 1 \in Int
  BY LenProperties DEF IInv, TypeOK
<1>2. \A i \in (split + 1)..Len(msgs) : msgs[i] \in Message
  BY <1>1, ElementOfSeq, LenProperties
<1>3. /\ SubSeq(msgs, split + 1, Len(msgs)) \in Seq(Message)
      /\ Len(SubSeq(msgs, split + 1, Len(msgs))) =
           IF split + 1 <= Len(msgs) THEN Len(msgs) - (split + 1) + 1 ELSE 0
      /\ \A i \in 1..(Len(msgs) - (split + 1) + 1) :
           SubSeq(msgs, split + 1, Len(msgs))[i] = msgs[split + 1 + i - 1]
  BY <1>1, <1>2, SubSeqProperties
<1> DEFINE kept == SubSeq(msgs, split + 1, Len(msgs))
<1> HIDE DEF kept
<1>4. /\ kept \in Seq(Message) /\ Len(kept) = Len(msgs) - split
      /\ \A i \in 1..(Len(msgs) - split) : kept[i] = msgs[split + i]
  BY <1>1, <1>3 DEF kept
<1> QED
  BY <1>4 DEF kept

\* Both loops always have what they established.
LEMMA Loops == Spec => []IInv
<1>1. Init => IInv
  BY InitInv
<1>2. IInv /\ [Next]_vars => IInv'
  BY NextInv
<1> QED
  BY <1>1, <1>2, PTL DEF Spec

\* The loop never reads past the end of a history.
LEMMA NeverOutOfBounds == IInv => InBounds
BY NaiveBounds, LenProperties DEF IInv, TypeOK, SplitInv, InBounds

\* The back-off loop computes PairAwareSplit and never leaves the history.
THEOREM SplitCorrect == Spec => []SplitIsRight
<1>1. IInv => SplitIsRight
  <2> SUFFICES ASSUME IInv, pc # "split" PROVE split = PairAwareSplit(msgs, keep)
    BY NeverOutOfBounds DEF SplitIsRight
  <2>1. /\ msgs \in Seq(Message) /\ keep \in Nat \ {0} /\ split \in Nat
        /\ split <= NaiveSplit(msgs, keep)
        /\ \A t \in (split + 1)..NaiveSplit(msgs, keep) : CarriesToolResult(msgs[t + 1])
        /\ split = 0 \/ ~CarriesToolResult(msgs[split + 1])
    BY LenProperties DEF IInv, TypeOK, SplitInv, Severs
  <2> QED
    BY <2>1, SplitUnique
<1> QED
  BY <1>1, Loops, PTL

\* The scan computes the orphans of what the cut kept.
THEOREM ScanCorrect == Spec => []ScanIsRight
<1>1. IInv => ScanIsRight
  <2> SUFFICES ASSUME IInv, pc = "done"
               PROVE  orphaned = Orphaned(SubSeq(msgs, split + 1, Len(msgs)))
    BY DEF ScanIsRight
  <2> DEFINE kept == SubSeq(msgs, split + 1, Len(msgs))
  <2>1. /\ kept \in Seq(Message) /\ Len(kept) = Len(msgs) - split
        /\ \A i \in 1..(Len(msgs) - split) : kept[i] = msgs[split + i]
    BY Suffix
  <2>2. Len(msgs) \in Nat /\ split \in Nat /\ at \in Nat /\ at = Len(msgs) - split
    BY LenProperties DEF IInv, TypeOK, ScanInv
  <2> HIDE DEF kept
  <2>3. DOMAIN kept = 1..at /\ \A i \in 1..at : kept[i] = msgs[split + i] /\ kept[i] \in Message
    BY <2>1, <2>2, LenProperties, ElementOfSeq
  <2>4. \A i \in 1..at : 1..i \subseteq 1..at /\ kept[i].results \subseteq Nat
    BY <2>2, <2>3 DEF Message
  <2>5. \A id \in Nat : id \in orphaned <=>
          \E i \in 1..at : /\ id \in kept[i].results
                           /\ \A j \in 1..i : id \notin kept[j].uses
    <3> TAKE id \in Nat
    <3>1. id \in orphaned <=>
            \E i \in 1..at : /\ id \in msgs[split + i].results
                             /\ \A j \in 1..i : id \notin msgs[split + j].uses
      BY DEF IInv, ScanInv
    <3>2. ASSUME NEW i \in 1..at
          PROVE  (/\ id \in msgs[split + i].results
                  /\ \A j \in 1..i : id \notin msgs[split + j].uses)
                 <=> (/\ id \in kept[i].results
                      /\ \A j \in 1..i : id \notin kept[j].uses)
      <4>1. \A j \in 1..i : kept[j] = msgs[split + j]
        BY <2>3, <2>4
      <4> QED
        BY <2>3, <4>1
    <3> QED
      BY <3>1, <3>2
  <2>6. orphaned \subseteq Nat
    BY DEF IInv, TypeOK
  <2>7. \A id : id \in Orphaned(kept) <=>
          \E i \in 1..at : /\ id \in kept[i].results
                           /\ \A j \in 1..i : id \notin kept[j].uses
    BY <2>3 DEF Orphaned
  <2>8. Orphaned(kept) \subseteq Nat
    BY <2>4, <2>7
  <2>9. \A id : id \in orphaned <=> id \in Orphaned(kept)
    BY <2>5, <2>6, <2>7, <2>8
  <2> QED
    BY <2>9 DEF kept
<1> QED
  BY <1>1, Loops, PTL

\* Both loops of compact.rs compute, for every history, what History specifies.
THEOREM LoopsCorrect == Spec => []LoopsAreRight
<1>1. SplitIsRight /\ ScanIsRight => LoopsAreRight
  BY DEF LoopsAreRight
<1> QED
  BY <1>1, SplitCorrect, ScanCorrect, PTL

\* A cut of a well-formed history orphans nothing and keeps enough.
THEOREM CutSafe == Spec => []CutIsSafe
<1>1. IInv /\ SplitIsRight /\ ScanIsRight => CutIsSafe
  <2> SUFFICES ASSUME IInv, SplitIsRight, ScanIsRight, pc = "done" PROVE CutIsSafe
    BY DEF CutIsSafe
  <2>1. msgs \in Seq(Message) /\ keep \in Nat \ {0} /\ split \in Nat /\ Len(msgs) \in Nat
    BY LenProperties DEF IInv, TypeOK
  <2>2. SubSeq(msgs, split + 1, Len(msgs)) = Kept(msgs, keep)
    BY DEF SplitIsRight, Kept
  <2>3. Paired(msgs) => orphaned = {}
    BY <2>1, <2>2, KeptProperties, PairedHasNoOrphans DEF ScanIsRight
  <2>4. Len(msgs) >= keep => Len(msgs) - split >= keep
    BY <2>1, NaiveBounds DEF IInv, SplitInv
  <2> QED
    BY <2>3, <2>4 DEF CutIsSafe
<1> QED
  BY <1>1, Loops, SplitCorrect, ScanCorrect, PTL

\* The loops and the cut are right for histories and numbers to keep of any size.
THEOREM CompactionCorrect == Spec => []CompactionIsRight
<1>1. LoopsAreRight /\ CutIsSafe => CompactionIsRight
  BY DEF CompactionIsRight
<1> QED
  BY <1>1, LoopsCorrect, CutSafe, PTL

-------------------------------------------------------------------------------
(* A topic of the mailbox *)

\* how many messages were sent before the first subscription: the channel, which keeps
\* nothing for nobody, starts after them
Unheard == Len(sent) - Len(log[topic])

\* one channel: every sender and every subscription is the topic's
OneChannel ==
    /\ \A t \in Topic!Threads : thread[t] \in {"ready", "send"} => topic # "none" /\ chan[t] = topic
    /\ \A b \in Boxes : sub[b].chan # "none" => topic # "none" /\ sub[b].chan = topic
    /\ (\A b \in Boxes : sub[b].chan = "none") => \A c \in Topic!Channels : log[c] = <<>>

\* a sandbox subscribes once, by one call, before it receives
OneSubscription ==
    /\ \A r \in Readers : thread[r] \in {"wait", "recv"} => sub[BoxOf[r]].chan # "none"
    /\ \A r \in Readers : thread[r] \in {"look", "make", "ready"} =>
         /\ sub[BoxOf[r]].chan = "none"
         /\ \A q \in Readers \ {r} : BoxOf[q] = BoxOf[r] => thread[q] \notin {"look", "make", "ready"}
    /\ \A b \in Boxes : sub[b].chan = "none" => got[b] = <<>>
    /\ \A p \in Publishers : thread[p] \notin {"wait", "recv"}
    /\ \A r \in Readers : thread[r] # "send"

\* a number that is given out is used once, and later by nobody
NumbersUsed ==
    /\ \A i \in DOMAIN sent : sent[i].seq < seq
    /\ \A p \in Publishers : thread[p] = "send" =>
         /\ number[p] < seq
         /\ \A i \in DOMAIN sent : /\ sent[i].seq # number[p]
                                   /\ sent[i].from = p => sent[i].seq < number[p]
         /\ \A q \in Publishers \ {p} : thread[q] = "send" => number[q] # number[p]

\* the channel holds what was sent since the first subscription, and each receiver
\* stands behind what its sandbox was given
Aligned ==
    (\E b \in Boxes : sub[b].chan # "none") =>
        /\ Unheard >= 0
        /\ \A i \in 1..Len(log[topic]) : log[topic][i] = sent[Unheard + i]
        /\ \A b \in Boxes : sub[b].chan # "none" =>
             /\ Unheard + sub[b].next = since[b] + Len(got[b]) + 1
             /\ sub[b].next <= Len(log[topic]) + 1

\* what a sandbox was given
Given ==
    \A b \in Boxes : \A k \in 1..Len(got[b]) :
        /\ got[b][k] # Topic!Lost => got[b][k] = sent[since[b] + k]
        /\ got[b][k] = Topic!Lost => since[b] + k + Capacity <= Len(sent)

TopicInv == Topic!TypeOK /\ OneChannel /\ OneSubscription /\ NumbersUsed /\ Topic!Numbered
            /\ Aligned /\ Given


\* Sending appends to what was sent, and to the topic's channel if anybody listens.
LEMMA SendEffect ==
    ASSUME Topic!TypeOK, OneChannel, NEW p \in Publishers, Topic!Send(p)
    PROVE  LET msg == [from |-> p, seq |-> number[p]] IN
           /\ topic \in Topic!Channels /\ msg \in Topic!Messages
           /\ sent' \in Seq(Topic!Messages) /\ Len(sent') = Len(sent) + 1
           /\ \A i \in 1..Len(sent) : sent'[i] = sent[i]
           /\ sent'[Len(sent) + 1] = msg
           /\ log' \in [Topic!Channels -> Seq(Topic!Messages)]
           /\ (\A b \in Boxes : sub[b].chan # topic) => log' = log
           /\ (\E b \in Boxes : sub[b].chan = topic) =>
                /\ Len(log'[topic]) = Len(log[topic]) + 1
                /\ \A i \in 1..Len(log[topic]) : log'[topic][i] = log[topic][i]
                /\ log'[topic][Len(log[topic]) + 1] = msg
<1> DEFINE msg == [from |-> p, seq |-> number[p]]
<1>1. thread[p] = "send" /\ p \in Topic!Threads
  BY DEF Topic!Send, Topic!Goes, Topic!Threads
<1>2. topic \in Topic!Channels /\ chan[p] = topic
  BY <1>1 DEF OneChannel, Topic!TypeOK, Topic!None
<1>3. msg \in Topic!Messages
  BY DEF Topic!TypeOK, Topic!Messages
<1>4. sent \in Seq(Topic!Messages) /\ log[topic] \in Seq(Topic!Messages)
  BY <1>2 DEF Topic!TypeOK
<1>5. sent' = Append(sent, msg)
  BY DEF Topic!Send
<1>6. log' = IF Topic!Receivers(topic) = {} THEN log
             ELSE [log EXCEPT ![topic] = Append(log[topic], msg)]
  BY <1>2 DEF Topic!Send
<1> HIDE DEF msg
<1>7. /\ sent' \in Seq(Topic!Messages) /\ Len(sent') = Len(sent) + 1
      /\ \A i \in 1..Len(sent) : sent'[i] = sent[i]
      /\ sent'[Len(sent) + 1] = msg
  BY <1>3, <1>4, <1>5, AppendProperties
<1>8. LET new == Append(log[topic], msg) IN
      /\ new \in Seq(Topic!Messages) /\ Len(new) = Len(log[topic]) + 1
      /\ \A i \in 1..Len(log[topic]) : new[i] = log[topic][i]
      /\ new[Len(log[topic]) + 1] = msg
  BY <1>3, <1>4, AppendProperties
<1>9. log' \in [Topic!Channels -> Seq(Topic!Messages)]
  BY <1>2, <1>6, <1>8 DEF Topic!TypeOK
<1>10. ASSUME \A b \in Boxes : sub[b].chan # topic PROVE log' = log
  BY <1>6, <1>10 DEF Topic!Receivers
<1>11. ASSUME \E b \in Boxes : sub[b].chan = topic
       PROVE  log'[topic] = Append(log[topic], msg)
  BY <1>2, <1>6, <1>11 DEF Topic!Receivers, Topic!TypeOK
<1> QED
  BY <1>2, <1>3, <1>7, <1>8, <1>9, <1>10, <1>11 DEF msg

Mail == Topic!Messages \union {Topic!Lost}

\* One list behind another.
LEMMA Behind ==
    ASSUME NEW S, NEW s \in Seq(S), NEW t \in Seq(S)
    PROVE  /\ s \o t \in Seq(S) /\ Len(s \o t) = Len(s) + Len(t)
           /\ \A k \in 1..Len(s) : (s \o t)[k] = s[k]
           /\ \A k \in 1..Len(t) : (s \o t)[Len(s) + k] = t[k]
<1>1. Len(s) \in Nat /\ Len(t) \in Nat
  BY LenProperties
<1>2. /\ s \o t \in Seq(S) /\ Len(s \o t) = Len(s) + Len(t)
      /\ \A k \in 1..Len(s) + Len(t) : (s \o t)[k] = IF k <= Len(s) THEN s[k] ELSE t[k - Len(s)]
  BY ConcatProperties
<1>3. \A k \in 1..Len(s) : k \in 1..Len(s) + Len(t) /\ k <= Len(s)
  BY <1>1
<1>4. \A k \in 1..Len(t) : /\ Len(s) + k \in 1..Len(s) + Len(t)
                          /\ ~(Len(s) + k <= Len(s)) /\ Len(s) + k - Len(s) = k
  BY <1>1
<1> QED
  BY <1>2, <1>3, <1>4

\* A call that returns adds what it returns to what its sandbox was given.
LEMMA ReturnsEffect ==
    ASSUME Topic!TypeOK, NEW r \in Readers, NEW what \in Seq(Mail), Topic!Returns(r, what)
    PROVE  LET b == BoxOf[r] IN
           /\ got' \in [Boxes -> Seq(Mail)]
           /\ \A c \in Boxes \ {b} : got'[c] = got[c]
           /\ Len(got'[b]) = Len(got[b]) + Len(what)
           /\ \A k \in 1..Len(got[b]) : got'[b][k] = got[b][k]
           /\ \A k \in 1..Len(what) : got'[b][Len(got[b]) + k] = what[k]
<1> DEFINE b == BoxOf[r]
           new == got[b] \o what
<1>1. b \in Boxes
  BY TopicAssumption
<1>2. got \in [Boxes -> Seq(Mail)]
  BY DEF Topic!TypeOK, Mail
<1>3. got' = [got EXCEPT ![b] = new]
  BY DEF Topic!Returns
<1>4. got[b] \in Seq(Mail)
  BY <1>1, <1>2
<1>5. /\ new \in Seq(Mail) /\ Len(new) = Len(got[b]) + Len(what)
      /\ \A k \in 1..Len(got[b]) : new[k] = got[b][k]
      /\ \A k \in 1..Len(what) : new[Len(got[b]) + k] = what[k]
  <2>1. PICK old \in Seq(Mail) : old = got[b]
    BY <1>4
  <2>2. /\ old \o what \in Seq(Mail) /\ Len(old \o what) = Len(old) + Len(what)
        /\ \A k \in 1..Len(old) : (old \o what)[k] = old[k]
        /\ \A k \in 1..Len(what) : (old \o what)[Len(old) + k] = what[k]
    BY Behind
  <2> QED
    BY <2>1, <2>2
<1> HIDE DEF b, new
<1>8. got'[b] = new /\ \A c \in Boxes \ {b} : got'[c] = got[c]
  BY <1>1, <1>2, <1>3
<1>9. got' \in [Boxes -> Seq(Mail)]
  BY <1>1, <1>2, <1>3, <1>5
<1> QED
  BY <1>5, <1>8, <1>9 DEF b

\* What a call hands over: the message at the receiver, or a mark for each one missed.
LEMMA Handed ==
    ASSUME Topic!TypeOK, OneChannel, OneSubscription, Aligned, NEW r \in Readers
    PROVE  LET b == BoxOf[r]
               missed == Topic!Pending(b) - Capacity IN
           /\ Topic!Recv(r) => /\ b \in Boxes /\ sub[b].chan = topic
                               /\ sub[b].next \in 1..Len(log[topic])
                               /\ <<log[sub[b].chan][sub[b].next]>> \in Seq(Mail)
           /\ Topic!Lags(r) => /\ b \in Boxes /\ sub[b].chan = topic
                               /\ missed \in Nat \ {0}
                               /\ [i \in 1..missed |-> Topic!Lost] \in Seq(Mail)
                               /\ Len([i \in 1..missed |-> Topic!Lost]) = missed
                               /\ \A i \in 1..missed : [j \in 1..missed |-> Topic!Lost][i] = Topic!Lost
<1> DEFINE b == BoxOf[r]
           missed == Topic!Pending(b) - Capacity
<1>1. b \in Boxes
  BY TopicAssumption
<1>2. ASSUME thread[r] = "recv"
      PROVE  /\ sub[b].chan = topic /\ sub[b].next \in Nat \ {0}
             /\ log[topic] \in Seq(Topic!Messages) /\ Len(log[topic]) \in Nat
  <2>1. sub[b].chan # "none"
    BY <1>2 DEF OneSubscription
  <2>2. sub[b].chan = topic /\ topic # "none"
    BY <1>1, <2>1 DEF OneChannel
  <2>3. log[topic] \in Seq(Topic!Messages)
    BY <2>2 DEF Topic!TypeOK, Topic!None
  <2> QED
    BY <1>1, <2>2, <2>3, LenProperties DEF Topic!TypeOK
<1>3. ASSUME Topic!Recv(r)
      PROVE  sub[b].next \in 1..Len(log[topic]) /\ <<log[sub[b].chan][sub[b].next]>> \in Seq(Mail)
  <2>1. thread[r] = "recv" /\ Topic!Pending(b) \in 1..Capacity
    BY <1>3 DEF Topic!Recv
  <2>2. sub[b].next \in 1..Len(log[topic])
    BY <1>2, <2>1, TopicAssumption DEF Topic!Pending
  <2>3. log[topic][sub[b].next] \in Mail
    BY <1>2, <2>1, <2>2, ElementOfSeq DEF Mail
  <2> QED
    BY <1>2, <2>1, <2>2, <2>3
<1>4. ASSUME Topic!Lags(r) PROVE missed \in Nat \ {0}
  <2>1. thread[r] = "recv" /\ missed > 0
    BY <1>4 DEF Topic!Lags
  <2> QED
    BY <1>2, <2>1, TopicAssumption DEF Topic!Pending
<1>5. ASSUME missed \in Nat \ {0}
      PROVE  /\ [i \in 1..missed |-> Topic!Lost] \in Seq(Mail)
             /\ Len([i \in 1..missed |-> Topic!Lost]) = missed
             /\ \A i \in 1..missed : [j \in 1..missed |-> Topic!Lost][i] = Topic!Lost
  <2> HIDE DEF missed
  <2> QED
    BY <1>5 DEF Mail
<1>6. Topic!Recv(r) \/ Topic!Lags(r) => thread[r] = "recv"
  BY DEF Topic!Recv, Topic!Lags
<1> QED
  BY <1>1, <1>2, <1>3, <1>4, <1>5, <1>6

\* A receiver moves, and no other does.
LEMMA NextMoves ==
    ASSUME Topic!TypeOK, NEW b \in Boxes, NEW n \in Nat \ {0},
           sub' = [sub EXCEPT ![b].next = @ + n]
    PROVE  /\ \A c \in Boxes : sub'[c].chan = sub[c].chan
           /\ \A c \in Boxes \ {b} : sub'[c] = sub[c]
           /\ sub' \in [Boxes -> [chan : Topic!Channels \union {"none"}, next : Nat \ {0}]]
           /\ sub'[b].next = sub[b].next + n
<1> DEFINE Sub == [chan : Topic!Channels \union {"none"}, next : Nat \ {0}]
<1>1. sub \in [Boxes -> Sub]
  BY DEF Topic!TypeOK, Topic!None
<1>2. sub[b] \in Sub
  BY <1>1
<1>3. [sub[b] EXCEPT !.next = @ + n] \in Sub /\ [sub[b] EXCEPT !.next = @ + n].chan = sub[b].chan
      /\ [sub[b] EXCEPT !.next = @ + n].next = sub[b].next + n
  BY <1>2
<1>4. sub' = [sub EXCEPT ![b] = [sub[b] EXCEPT !.next = @ + n]]
  BY <1>1
<1> HIDE DEF Sub
<1>5. sub' \in [Boxes -> Sub] /\ \A c \in Boxes \ {b} : sub'[c] = sub[c]
  BY <1>1, <1>3, <1>4
<1>6. sub'[b] = [sub[b] EXCEPT !.next = @ + n]
  BY <1>1, <1>4
<1> QED
  BY <1>3, <1>5, <1>6 DEF Sub

\* what a call that returns a message, or is told what it missed, does to its receiver
LEMMA ReceiverMoves ==
    ASSUME Topic!TypeOK, OneChannel, OneSubscription, Aligned, NEW r \in Readers,
           Topic!Recv(r) \/ Topic!Lags(r)
    PROVE  /\ \A b \in Boxes : sub'[b].chan = sub[b].chan
           /\ \A b \in Boxes \ {BoxOf[r]} : sub'[b] = sub[b] /\ got'[b] = got[b]
           /\ sub' \in [Boxes -> [chan : Topic!Channels \union {"none"}, next : Nat \ {0}]]
           /\ got' \in [Boxes -> Seq(Mail)]
           /\ \E n \in Nat \ {0} :
                /\ sub'[BoxOf[r]].next = sub[BoxOf[r]].next + n
                /\ sub[BoxOf[r]].next + n <= Len(log[topic]) + 1
                /\ Len(got'[BoxOf[r]]) = Len(got[BoxOf[r]]) + n
                /\ \A k \in 1..Len(got[BoxOf[r]]) : got'[BoxOf[r]][k] = got[BoxOf[r]][k]
                /\ \A k \in 1..n : LET i == Len(got[BoxOf[r]]) + k IN
                     \/ n = 1 /\ got'[BoxOf[r]][i] = log[topic][sub[BoxOf[r]].next]
                     \/ /\ sub[BoxOf[r]].next + n + Capacity = Len(log[topic]) + 1
                        /\ got'[BoxOf[r]][i] = Topic!Lost
<1> DEFINE b == BoxOf[r]
<1> USE TopicAssumption
<1>1. b \in Boxes /\ sub[b].chan = topic /\ sub[b] \in [chan : Topic!Channels \union {"none"}, next : Nat \ {0}]
  BY Handed DEF Topic!TypeOK, Topic!None
<1>2. sub[b].next \in Nat \ {0}
  BY <1>1
<1>3. log[topic] \in Seq(Topic!Messages) /\ Len(log[topic]) \in Nat
  <2>1. topic \in Topic!Channels
    BY <1>1 DEF OneSubscription, Topic!TypeOK, Topic!Recv, Topic!Lags, Topic!None
  <2> QED
    BY <2>1, LenProperties DEF Topic!TypeOK
<1>4. CASE Topic!Recv(r)
  <2> DEFINE what == <<log[sub[b].chan][sub[b].next]>>
  <2>1. PICK n \in Nat \ {0} : n = 1
    OBVIOUS
  <2>2. Topic!Returns(r, what)
    BY <1>4 DEF Topic!Recv
  <2>3. sub[b].next \in 1..Len(log[topic]) /\ what \in Seq(Mail)
    BY <1>4, Handed
  <2>4. Len(what) = n /\ \A k \in 1..n : what[k] = log[topic][sub[b].next]
    BY <1>1, <2>1
  <2> HIDE DEF what
  <2>5. /\ got' \in [Boxes -> Seq(Mail)]
        /\ \A c \in Boxes \ {b} : got'[c] = got[c]
        /\ Len(got'[b]) = Len(got[b]) + n
        /\ \A k \in 1..Len(got[b]) : got'[b][k] = got[b][k]
        /\ \A k \in 1..n : got'[b][Len(got[b]) + k] = log[topic][sub[b].next]
    <3>1. PICK w \in Seq(Mail) : w = what
      BY <2>3
    <3>2. PICK m : m = log[topic][sub[b].next]
      OBVIOUS
    <3>3. Topic!Returns(r, w) /\ Len(w) = n /\ \A k \in 1..n : w[k] = m
      BY <2>2, <2>4, <3>1, <3>2
    <3>4. /\ got' \in [Boxes -> Seq(Mail)]
          /\ \A c \in Boxes \ {b} : got'[c] = got[c]
          /\ Len(got'[b]) = Len(got[b]) + n
          /\ \A k \in 1..Len(got[b]) : got'[b][k] = got[b][k]
          /\ \A k \in 1..n : got'[b][Len(got[b]) + k] = m
      <4>1. /\ got' \in [Boxes -> Seq(Mail)]
            /\ \A c \in Boxes \ {b} : got'[c] = got[c]
            /\ Len(got'[b]) = Len(got[b]) + Len(w)
            /\ \A k \in 1..Len(got[b]) : got'[b][k] = got[b][k]
            /\ \A k \in 1..Len(w) : got'[b][Len(got[b]) + k] = w[k]
        BY <3>3, ReturnsEffect
      <4> QED
        BY <3>3, <4>1
    <3> QED
      BY <3>2, <3>4
  <2>6. sub' = [sub EXCEPT ![b].next = @ + n]
    BY <1>4, <2>1 DEF Topic!Recv
  <2>7. /\ \A c \in Boxes : sub'[c].chan = sub[c].chan
        /\ \A c \in Boxes \ {b} : sub'[c] = sub[c]
        /\ sub' \in [Boxes -> [chan : Topic!Channels \union {"none"}, next : Nat \ {0}]]
        /\ sub'[b].next = sub[b].next + n
    BY <1>1, <2>6, NextMoves
  <2>8. sub[b].next + n <= Len(log[topic]) + 1
    BY <1>2, <1>3, <2>1, <2>3
  <2> QED
    BY <2>1, <2>5, <2>7, <2>8
<1>5. CASE Topic!Lags(r)
  <2> DEFINE n == Topic!Pending(b) - Capacity
             what == [i \in 1..n |-> Topic!Lost]
  <2>1. /\ n \in Nat \ {0} /\ what \in Seq(Mail) /\ Len(what) = n
        /\ \A k \in 1..n : what[k] = Topic!Lost
    BY <1>5, Handed
  <2>2. Topic!Returns(r, what)
    BY <1>5 DEF Topic!Lags
  <2>3. sub' = [sub EXCEPT ![b].next = @ + n]
    BY <1>5 DEF Topic!Lags
  <2>4. sub[b].next + n + Capacity = Len(log[topic]) + 1
    BY <1>1, <1>2, <1>3 DEF Topic!Pending
  <2> HIDE DEF what, n
  <2>5. /\ got' \in [Boxes -> Seq(Mail)]
        /\ \A c \in Boxes \ {b} : got'[c] = got[c]
        /\ Len(got'[b]) = Len(got[b]) + n
        /\ \A k \in 1..Len(got[b]) : got'[b][k] = got[b][k]
        /\ \A k \in 1..n : got'[b][Len(got[b]) + k] = Topic!Lost
    <3>1. PICK w \in Seq(Mail) : w = what
      BY <2>1
    <3>2. Topic!Returns(r, w) /\ Len(w) = n /\ \A k \in 1..n : w[k] = Topic!Lost
      BY <2>1, <2>2, <3>1
    <3>3. /\ got' \in [Boxes -> Seq(Mail)]
          /\ \A c \in Boxes \ {b} : got'[c] = got[c]
          /\ Len(got'[b]) = Len(got[b]) + Len(w)
          /\ \A k \in 1..Len(got[b]) : got'[b][k] = got[b][k]
          /\ \A k \in 1..Len(w) : got'[b][Len(got[b]) + k] = w[k]
      BY <3>2, ReturnsEffect
    <3> QED
      BY <3>2, <3>3
  <2>6. /\ \A c \in Boxes : sub'[c].chan = sub[c].chan
        /\ \A c \in Boxes \ {b} : sub'[c] = sub[c]
        /\ sub' \in [Boxes -> [chan : Topic!Channels \union {"none"}, next : Nat \ {0}]]
        /\ sub'[b].next = sub[b].next + n
    BY <1>1, <2>1, <2>3, NextMoves
  <2>7. sub[b].next + n <= Len(log[topic]) + 1
    BY <1>2, <1>3, <2>1, <2>4
  <2> QED
    BY <2>1, <2>4, <2>5, <2>6, <2>7
<1> QED
  BY <1>4, <1>5

\* The messages sent are numbered from one.
LEMMA SentFacts ==
    ASSUME Topic!TypeOK
    PROVE  /\ sent \in Seq(Topic!Messages) /\ DOMAIN sent = 1..Len(sent) /\ Len(sent) \in Nat
           /\ \A i \in DOMAIN sent : sent[i].from \in Publishers /\ sent[i].seq \in Nat
<1>1. sent \in Seq(Topic!Messages)
  BY DEF Topic!TypeOK
<1>2. DOMAIN sent = 1..Len(sent) /\ Len(sent) \in Nat
  BY <1>1, LenProperties
<1>3. ASSUME NEW i \in DOMAIN sent PROVE sent[i] \in Topic!Messages
  BY <1>1, <1>2, ElementOfSeq
<1> QED
  BY <1>1, <1>2, <1>3, TopicAssumption DEF Topic!Messages

\* Sending adds one message, the last.
LEMMA SentMore ==
    ASSUME Topic!TypeOK, OneChannel, NEW p \in Publishers, Topic!Send(p)
    PROVE  /\ DOMAIN sent' = 1..(Len(sent) + 1)
           /\ \A i \in DOMAIN sent' : i \in DOMAIN sent \/ i = Len(sent) + 1
           /\ \A i \in DOMAIN sent : i \in DOMAIN sent' /\ sent'[i] = sent[i] /\ i < Len(sent) + 1
           /\ sent'[Len(sent) + 1].from = p /\ sent'[Len(sent) + 1].seq = number[p]
<1>1. /\ sent' \in Seq(Topic!Messages) /\ Len(sent') = Len(sent) + 1
      /\ \A i \in 1..Len(sent) : sent'[i] = sent[i]
      /\ sent'[Len(sent) + 1] = [from |-> p, seq |-> number[p]]
  BY SendEffect
<1>2. DOMAIN sent' = 1..(Len(sent) + 1)
  BY <1>1, LenProperties
<1> QED
  BY <1>1, <1>2, SentFacts
\* OneChannel is kept: the first to come creates the channel, and nobody another.
LEMMA TopicChannel ==
    ASSUME Topic!TypeOK, OneChannel, OneSubscription, Aligned, [Topic!Next]_(Topic!vars)
    PROVE  OneChannel'
<1> USE TopicAssumption DEF Topic!TypeOK, OneChannel, OneSubscription, Topic!Threads, Topic!Channels, Topic!Goes, Topic!channels, Topic!books, Topic!ghosts, Topic!None
<1>1. ASSUME NEW t \in Topic!Threads, Topic!Look(t) PROVE OneChannel'
  BY <1>1 DEF Topic!Look
<1>2. ASSUME NEW t \in Topic!Threads, Topic!Make(t) PROVE OneChannel'
  BY <1>2 DEF Topic!Make
<1>3. ASSUME NEW p \in Publishers, Topic!Publish(p) PROVE OneChannel'
  BY <1>3 DEF Topic!Publish
<1>4. ASSUME NEW p \in Publishers, Topic!Number(p) PROVE OneChannel'
  BY <1>4 DEF Topic!Number
<1>5. ASSUME NEW p \in Publishers, Topic!Send(p) PROVE OneChannel'
  <2>1. /\ thread' = [thread EXCEPT ![p] = "idle"] /\ chan' = [chan EXCEPT ![p] = "none"]
        /\ UNCHANGED <<topic, sub>>
    BY <1>5 DEF Topic!Send
  <2>2. (\A b \in Boxes : sub[b].chan = "none") => log' = log
    BY <1>5, SendEffect
  <2> QED
    BY <2>1, <2>2
<1>6. ASSUME NEW r \in Readers, Topic!Receive(r) PROVE OneChannel'
  BY <1>6 DEF Topic!Receive
<1>7. ASSUME NEW r \in Readers, Topic!Subscribe(r) PROVE OneChannel'
  BY <1>7 DEF Topic!Subscribe
<1>8. ASSUME NEW r \in Readers, Topic!Lock(r) PROVE OneChannel'
  BY <1>8 DEF Topic!Lock
<1>9. ASSUME NEW r \in Readers, Topic!Recv(r) PROVE OneChannel'
  <2>1. thread' = [thread EXCEPT ![r] = "idle"] /\ UNCHANGED <<topic, log, chan>>
    BY <1>9 DEF Topic!Recv, Topic!Returns
  <2>2. \A b \in Boxes : sub'[b].chan = sub[b].chan
    BY <1>9, ReceiverMoves
  <2> QED
    BY <2>1, <2>2
<1>10. ASSUME NEW r \in Readers, Topic!Lags(r) PROVE OneChannel'
  <2>1. thread' = [thread EXCEPT ![r] = "idle"] /\ UNCHANGED <<topic, log, chan>>
    BY <1>10 DEF Topic!Lags, Topic!Returns
  <2>2. \A b \in Boxes : sub'[b].chan = sub[b].chan
    BY <1>10, ReceiverMoves
  <2> QED
    BY <2>1, <2>2
<1>11. ASSUME NEW r \in Readers, Topic!TimesOut(r) PROVE OneChannel'
  BY <1>11 DEF Topic!TimesOut
<1>12. CASE UNCHANGED Topic!vars
  BY <1>12 DEF Topic!vars
<1> QED
  BY <1>1, <1>2, <1>3, <1>4, <1>5, <1>6, <1>7, <1>8, <1>9, <1>10, <1>11, <1>12 DEF Topic!Next, Topic!Quiet

\* OneSubscription is kept: only the subscribed calls receive.
LEMMA TopicSubscription ==
    ASSUME Topic!TypeOK, OneChannel, OneSubscription, Aligned, [Topic!Next]_(Topic!vars)
    PROVE  OneSubscription'
<1> USE TopicAssumption DEF Topic!TypeOK, OneSubscription, Topic!Threads, Topic!Channels, Topic!Goes, Topic!channels, Topic!books, Topic!ghosts, Topic!None
<1>1. ASSUME NEW t \in Topic!Threads, Topic!Look(t) PROVE OneSubscription'
  BY <1>1 DEF Topic!Look
<1>2. ASSUME NEW t \in Topic!Threads, Topic!Make(t) PROVE OneSubscription'
  BY <1>2 DEF Topic!Make
<1>3. ASSUME NEW p \in Publishers, Topic!Publish(p) PROVE OneSubscription'
  BY <1>3 DEF Topic!Publish
<1>4. ASSUME NEW p \in Publishers, Topic!Number(p) PROVE OneSubscription'
  BY <1>4 DEF Topic!Number
<1>5. ASSUME NEW p \in Publishers, Topic!Send(p) PROVE OneSubscription'
  BY <1>5 DEF Topic!Send
<1>6. ASSUME NEW r \in Readers, Topic!Receive(r) PROVE OneSubscription'
  BY <1>6 DEF Topic!Receive
<1>7. ASSUME NEW r \in Readers, Topic!Subscribe(r) PROVE OneSubscription'
  <2>1. /\ thread[r] = "ready" /\ thread' = [thread EXCEPT ![r] = "wait"] /\ UNCHANGED got
        /\ sub' = [sub EXCEPT ![BoxOf[r]] = [chan |-> chan[r], next |-> Len(log[chan[r]]) + 1]]
    BY <1>7 DEF Topic!Subscribe
  <2>2. chan[r] # "none" /\ BoxOf[r] \in Boxes
    BY <2>1 DEF OneChannel
  <2>3. sub'[BoxOf[r]].chan # "none" /\ \A b \in Boxes \ {BoxOf[r]} : sub'[b] = sub[b]
    BY <2>1, <2>2
  <2> QED
    BY <2>1, <2>2, <2>3
<1>8. ASSUME NEW r \in Readers, Topic!Lock(r) PROVE OneSubscription'
  BY <1>8 DEF Topic!Lock
<1>9. ASSUME NEW r \in Readers, Topic!Recv(r) PROVE OneSubscription'
  <2>1. thread[r] = "recv" /\ thread' = [thread EXCEPT ![r] = "idle"]
    BY <1>9 DEF Topic!Recv, Topic!Returns
  <2>2. /\ \A b \in Boxes : sub'[b].chan = sub[b].chan
        /\ \A b \in Boxes \ {BoxOf[r]} : got'[b] = got[b]
    BY <1>9, ReceiverMoves
  <2>3. sub[BoxOf[r]].chan # "none"
    BY <2>1
  <2> QED
    BY <2>1, <2>2, <2>3
<1>10. ASSUME NEW r \in Readers, Topic!Lags(r) PROVE OneSubscription'
  <2>1. thread[r] = "recv" /\ thread' = [thread EXCEPT ![r] = "idle"]
    BY <1>10 DEF Topic!Lags, Topic!Returns
  <2>2. /\ \A b \in Boxes : sub'[b].chan = sub[b].chan
        /\ \A b \in Boxes \ {BoxOf[r]} : got'[b] = got[b]
    BY <1>10, ReceiverMoves
  <2>3. sub[BoxOf[r]].chan # "none"
    BY <2>1
  <2> QED
    BY <2>1, <2>2, <2>3
<1>11. ASSUME NEW r \in Readers, Topic!TimesOut(r) PROVE OneSubscription'
  <2>1. thread' = [thread EXCEPT ![r] = "idle"] /\ UNCHANGED <<sub, got>>
    BY <1>11 DEF Topic!TimesOut
  <2> QED
    BY <2>1
<1>12. CASE UNCHANGED Topic!vars
  BY <1>12 DEF Topic!vars
<1> QED
  BY <1>1, <1>2, <1>3, <1>4, <1>5, <1>6, <1>7, <1>8, <1>9, <1>10, <1>11, <1>12 DEF Topic!Next, Topic!Quiet

\* NumbersUsed is kept: a number is taken once and sent once.
LEMMA TopicNumbers ==
    ASSUME Topic!TypeOK, OneChannel, OneSubscription, NumbersUsed,
           [Topic!Next]_(Topic!vars)
    PROVE  NumbersUsed'
<1> USE TopicAssumption DEF Topic!TypeOK, OneSubscription, NumbersUsed, Topic!Messages, Topic!Threads, Topic!Channels, Topic!Goes, Topic!channels, Topic!books, Topic!ghosts, Topic!None
<1>0. DOMAIN sent = 1..Len(sent) /\ Len(sent) \in Nat
  BY SentFacts
<1>a. \A i \in DOMAIN sent : sent[i].seq \in Nat
  BY SentFacts
<1>b. seq \in Nat /\ seq + 1 \in Nat /\ \A q \in Publishers : number[q] \in Nat
  BY DEF Topic!TypeOK
<1>1. ASSUME NEW t \in Topic!Threads, Topic!Look(t) PROVE NumbersUsed'
  BY <1>1 DEF Topic!Look
<1>2. ASSUME NEW t \in Topic!Threads, Topic!Make(t) PROVE NumbersUsed'
  BY <1>2 DEF Topic!Make
<1>3. ASSUME NEW p \in Publishers, Topic!Publish(p) PROVE NumbersUsed'
  BY <1>3 DEF Topic!Publish
<1>4. ASSUME NEW p \in Publishers, Topic!Number(p) PROVE NumbersUsed'
  <2>1. /\ thread' = [thread EXCEPT ![p] = "send"] /\ number' = [number EXCEPT ![p] = seq]
        /\ seq' = seq + 1 /\ UNCHANGED sent
    BY <1>4 DEF Topic!Number
  <2>2. thread'[p] = "send" /\ number'[p] = seq /\ \A q \in Publishers \ {p} :
          thread'[q] = thread[q] /\ number'[q] = number[q]
    <3>1. /\ thread \in [Topic!Threads -> {"idle", "look", "make", "ready", "send", "wait", "recv"}] /\ p \in Topic!Threads
          /\ \A q \in Publishers \ {p} : q \in Topic!Threads
      BY DEF Topic!TypeOK, Topic!Threads
    <3>2. thread'[p] = "send" /\ \A q \in Publishers \ {p} : thread'[q] = thread[q]
      BY <2>1, <3>1
    <3>3. number \in [Publishers -> 0..MaxSeq]
      BY DEF Topic!TypeOK
    <3>4. number'[p] = seq /\ \A q \in Publishers \ {p} : number'[q] = number[q]
      BY <2>1, <3>3
    <3> QED
      BY <3>2, <3>4
  <2>a. /\ \A i \in DOMAIN sent : sent[i].seq < seq
        /\ \A q \in Publishers : thread[q] = "send" => number[q] < seq
    OBVIOUS
  <2> HIDE DEF Topic!TypeOK, OneSubscription, Topic!Messages
  <2>b. \A m, n \in Nat : m < n => m < n + 1 /\ m # n
    OBVIOUS
  <2> HIDE DEF NumbersUsed, Topic!Threads, Topic!Goes
  <2>3. \A i \in DOMAIN sent : sent[i].seq < seq /\ sent[i].seq < seq' /\ sent[i].seq # seq
    BY <1>a, <1>b, <2>a, <2>b, <2>1
  <2>4. \A q \in Publishers : thread[q] = "send" => number[q] < seq /\ number[q] < seq' /\ number[q] # seq
    BY <1>b, <2>a, <2>b, <2>1
  <2> USE DEF NumbersUsed
  <2>5. \A i \in DOMAIN sent' : sent'[i].seq < seq'
    BY <2>1, <2>3
  <2>6. ASSUME NEW q \in Publishers, thread'[q] = "send"
        PROVE  /\ number'[q] < seq'
               /\ \A i \in DOMAIN sent : /\ sent[i].seq # number'[q]
                                         /\ sent[i].from = q => sent[i].seq < number'[q]
    BY <1>b, <2>1, <2>2, <2>3, <2>4, <2>6
  <2>7. ASSUME NEW q \in Publishers, NEW u \in Publishers \ {q},
               thread'[q] = "send", thread'[u] = "send"
        PROVE  number'[u] # number'[q]
    BY <2>2, <2>4, <2>7
  <2> QED
    BY <2>1, <2>5, <2>6, <2>7
<1>5. ASSUME NEW p \in Publishers, Topic!Send(p) PROVE NumbersUsed'
  <2>1. /\ thread[p] = "send" /\ thread' = [thread EXCEPT ![p] = "idle"]
        /\ number' = [number EXCEPT ![p] = 0] /\ UNCHANGED seq
    BY <1>5 DEF Topic!Send
  <2>2. /\ \A i \in DOMAIN sent' : i \in DOMAIN sent \/ i = Len(sent) + 1
        /\ \A i \in DOMAIN sent : sent'[i] = sent[i]
        /\ sent'[Len(sent) + 1].from = p /\ sent'[Len(sent) + 1].seq = number[p]
    BY <1>5, SentMore
  <2>3. \A q \in Publishers \ {p} : number'[q] = number[q] /\ thread'[q] = thread[q]
    BY <2>1
  <2>4. thread'[p] # "send"
    BY <2>1
  <2> HIDE DEF Topic!TypeOK, OneSubscription, Topic!Messages
  <2>5. \A i \in DOMAIN sent' : sent'[i].seq < seq'
    BY <2>1, <2>2
  <2>6. ASSUME NEW q \in Publishers, thread'[q] = "send", NEW i \in DOMAIN sent'
        PROVE  /\ sent'[i].seq # number'[q]
               /\ sent'[i].from = q => sent'[i].seq < number'[q]
    BY <2>1, <2>2, <2>3, <2>4, <2>6
  <2> QED
    BY <2>1, <2>3, <2>4, <2>5, <2>6
<1>6. ASSUME NEW r \in Readers, Topic!Receive(r) PROVE NumbersUsed'
  BY <1>6 DEF Topic!Receive
<1>7. ASSUME NEW r \in Readers, Topic!Subscribe(r) PROVE NumbersUsed'
  BY <1>7 DEF Topic!Subscribe
<1>8. ASSUME NEW r \in Readers, Topic!Lock(r) PROVE NumbersUsed'
  BY <1>8 DEF Topic!Lock
<1>9. ASSUME NEW r \in Readers, Topic!Recv(r) PROVE NumbersUsed'
  BY <1>9 DEF Topic!Recv, Topic!Returns
<1>10. ASSUME NEW r \in Readers, Topic!Lags(r) PROVE NumbersUsed'
  BY <1>10 DEF Topic!Lags, Topic!Returns
<1>11. ASSUME NEW r \in Readers, Topic!TimesOut(r) PROVE NumbersUsed'
  BY <1>11 DEF Topic!TimesOut
<1>12. CASE UNCHANGED Topic!vars
  BY <1>12 DEF Topic!vars
<1> QED
  BY <1>1, <1>2, <1>3, <1>4, <1>5, <1>6, <1>7, <1>8, <1>9, <1>10, <1>11, <1>12 DEF Topic!Next, Topic!Quiet

\* Every message has a number of its own, in the order they were taken.
LEMMA TopicNumbered ==
    ASSUME Topic!TypeOK, OneChannel, OneSubscription, NumbersUsed, Topic!Numbered,
           [Topic!Next]_(Topic!vars)
    PROVE  Topic!Numbered'
<1> USE TopicAssumption DEF Topic!TypeOK, NumbersUsed, Topic!Numbered, Topic!Messages, Topic!Threads, Topic!Channels, Topic!Goes, Topic!channels, Topic!books, Topic!ghosts, Topic!None
<1>0. DOMAIN sent = 1..Len(sent) /\ Len(sent) \in Nat
  BY SentFacts
<1>a. \A i \in DOMAIN sent : sent[i].seq \in Nat
  BY SentFacts
<1>b. seq \in Nat /\ seq + 1 \in Nat /\ \A q \in Publishers : number[q] \in Nat
  BY DEF Topic!TypeOK
<1>1. ASSUME NEW t \in Topic!Threads, Topic!Look(t) PROVE Topic!Numbered'
  BY <1>1 DEF Topic!Look
<1>2. ASSUME NEW t \in Topic!Threads, Topic!Make(t) PROVE Topic!Numbered'
  BY <1>2 DEF Topic!Make
<1>3. ASSUME NEW p \in Publishers, Topic!Publish(p) PROVE Topic!Numbered'
  BY <1>3 DEF Topic!Publish
<1>4. ASSUME NEW p \in Publishers, Topic!Number(p) PROVE Topic!Numbered'
  BY <1>4 DEF Topic!Number
<1>5. ASSUME NEW p \in Publishers, Topic!Send(p) PROVE Topic!Numbered'
  <2>1. thread[p] = "send"
    BY <1>5 DEF Topic!Send
  <2>2. /\ \A i \in DOMAIN sent' : i \in DOMAIN sent \/ i = Len(sent) + 1
        /\ \A i \in DOMAIN sent : sent'[i] = sent[i] /\ i < Len(sent) + 1
        /\ sent'[Len(sent) + 1].from = p /\ sent'[Len(sent) + 1].seq = number[p]
    BY <1>5, SentMore
  <2> HIDE DEF Topic!TypeOK, Topic!Messages
  <2>3. ASSUME NEW i \in DOMAIN sent', NEW j \in DOMAIN sent', i < j
        PROVE  i \in DOMAIN sent /\ (j \in DOMAIN sent \/ j = Len(sent) + 1)
    <3>1. PICK n \in Nat : n = Len(sent)
      BY <1>0
    <3>2. \A k, l \in 1..(n + 1) : k < l => k # n + 1
      OBVIOUS
    <3>3. DOMAIN sent = 1..n /\ \A k \in DOMAIN sent' : k \in 1..n \/ k = n + 1
      BY <1>0, <2>2, <3>1
    <3>4. i \in 1..(n + 1) /\ j \in 1..(n + 1)
      BY <3>3
    <3> QED
      BY <2>3, <3>1, <3>2, <3>3, <3>4
  <2>4. ASSUME NEW i \in DOMAIN sent', NEW j \in DOMAIN sent', i < j
        PROVE  /\ sent'[i].seq # sent'[j].seq
               /\ sent'[i].from = sent'[j].from => sent'[i].seq < sent'[j].seq
    <3>1. CASE j \in DOMAIN sent
      BY <2>2, <2>3, <2>4, <3>1
    <3>2. CASE j = Len(sent) + 1
      BY <2>1, <2>2, <2>3, <2>4, <3>2
    <3> QED
      BY <2>3, <2>4, <3>1, <3>2
  <2> QED
    BY <2>4
<1>6. ASSUME NEW r \in Readers, Topic!Receive(r) PROVE Topic!Numbered'
  BY <1>6 DEF Topic!Receive
<1>7. ASSUME NEW r \in Readers, Topic!Subscribe(r) PROVE Topic!Numbered'
  BY <1>7 DEF Topic!Subscribe
<1>8. ASSUME NEW r \in Readers, Topic!Lock(r) PROVE Topic!Numbered'
  BY <1>8 DEF Topic!Lock
<1>9. ASSUME NEW r \in Readers, Topic!Recv(r) PROVE Topic!Numbered'
  BY <1>9 DEF Topic!Recv, Topic!Returns
<1>10. ASSUME NEW r \in Readers, Topic!Lags(r) PROVE Topic!Numbered'
  BY <1>10 DEF Topic!Lags, Topic!Returns
<1>11. ASSUME NEW r \in Readers, Topic!TimesOut(r) PROVE Topic!Numbered'
  BY <1>11 DEF Topic!TimesOut
<1>12. CASE UNCHANGED Topic!vars
  BY <1>12 DEF Topic!vars
<1> QED
  BY <1>1, <1>2, <1>3, <1>4, <1>5, <1>6, <1>7, <1>8, <1>9, <1>10, <1>11, <1>12 DEF Topic!Next, Topic!Quiet

\* The type invariant is kept.
LEMMA TopicType ==
    ASSUME Topic!TypeOK, OneChannel, OneSubscription, Aligned, [Topic!Next]_(Topic!vars)
    PROVE  Topic!TypeOK'
<1> USE TopicAssumption DEF Topic!TypeOK, Topic!Threads, Topic!Channels, Topic!Goes, Topic!channels, Topic!books, Topic!ghosts, Topic!None
<1>1. ASSUME NEW t \in Topic!Threads, Topic!Look(t) PROVE Topic!TypeOK'
  BY <1>1 DEF Topic!Look
<1>2. ASSUME NEW t \in Topic!Threads, Topic!Make(t) PROVE Topic!TypeOK'
  BY <1>2 DEF Topic!Make
<1>3. ASSUME NEW p \in Publishers, Topic!Publish(p) PROVE Topic!TypeOK'
  BY <1>3 DEF Topic!Publish
<1>4. ASSUME NEW p \in Publishers, Topic!Number(p) PROVE Topic!TypeOK'
  <2>1. /\ thread' = [thread EXCEPT ![p] = "send"] /\ number' = [number EXCEPT ![p] = seq]
        /\ seq < MaxSeq /\ seq' = seq + 1
        /\ UNCHANGED <<topic, log, chan, sub, lock, reads, sent, since, got>>
    BY <1>4 DEF Topic!Number
  <2>2. seq' \in 0..MaxSeq
    BY <2>1
  <2>3. /\ thread' \in [Topic!Threads -> {"idle", "look", "make", "ready", "send", "wait", "recv"}]
        /\ number' \in [Publishers -> 0..MaxSeq]
    BY <2>1
  <2> QED
    BY <2>1, <2>2, <2>3
<1>5. ASSUME NEW p \in Publishers, Topic!Send(p) PROVE Topic!TypeOK'
  <2>1. /\ thread' = [thread EXCEPT ![p] = "idle"] /\ chan' = [chan EXCEPT ![p] = "none"]
        /\ number' = [number EXCEPT ![p] = 0] /\ UNCHANGED <<topic, seq, reads, sub, lock, since, got>>
    BY <1>5 DEF Topic!Send
  <2>2. sent' \in Seq(Topic!Messages) /\ log' \in [Topic!Channels -> Seq(Topic!Messages)]
    BY <1>5, SendEffect
  <2>3. /\ thread' \in [Topic!Threads -> {"idle", "look", "make", "ready", "send", "wait", "recv"}]
        /\ chan' \in [Topic!Threads -> Topic!Channels \cup {"none"}]
        /\ number' \in [Publishers -> 0..MaxSeq]
    BY <2>1
  <2> QED
    BY <2>1, <2>2, <2>3
<1>6. ASSUME NEW r \in Readers, Topic!Receive(r) PROVE Topic!TypeOK'
  <2>1. /\ \E x \in {"look", "wait"} : thread' = [thread EXCEPT ![r] = x]
        /\ reads < MaxReads /\ reads' = reads + 1
        /\ UNCHANGED <<topic, log, seq, chan, number, sub, lock, sent, since, got>>
    BY <1>6 DEF Topic!Receive
  <2>2. reads' \in 0..MaxReads
    BY <2>1
  <2>3. thread' \in [Topic!Threads -> {"idle", "look", "make", "ready", "send", "wait", "recv"}]
    BY <2>1
  <2> QED
    BY <2>1, <2>2, <2>3
<1>7. ASSUME NEW r \in Readers, Topic!Subscribe(r) PROVE Topic!TypeOK'
  <2>1. /\ thread[r] = "ready" /\ thread' = [thread EXCEPT ![r] = "wait"]
        /\ sub' = [sub EXCEPT ![BoxOf[r]] = [chan |-> chan[r], next |-> Len(log[chan[r]]) + 1]]
        /\ since' = [since EXCEPT ![BoxOf[r]] = Len(sent)] /\ chan' = [chan EXCEPT ![r] = "none"]
        /\ UNCHANGED <<topic, log, seq, number, lock, reads, sent, got>>
    BY <1>7 DEF Topic!Subscribe
  <2>2. chan[r] = topic /\ topic # "none"
    BY <2>1 DEF OneChannel
  <2>3. chan[r] \in Topic!Channels /\ log[chan[r]] \in Seq(Topic!Messages)
    BY <2>2
  <2>4. Len(log[chan[r]]) + 1 \in Nat \ {0} /\ Len(sent) \in Nat
    BY <2>3, LenProperties
  <2>5. /\ sub' \in [Boxes -> [chan : Topic!Channels \cup {"none"}, next : Nat \ {0}]]
        /\ since' \in [Boxes -> Nat]
    <3>1. PICK n \in Nat \ {0} : n = Len(log[chan[r]]) + 1
      BY <2>4
    <3>2. [chan |-> chan[r], next |-> n] \in [chan : Topic!Channels \cup {"none"}, next : Nat \ {0}]
      BY <2>3
    <3> QED
      BY <2>1, <2>4, <3>1, <3>2
  <2>6. /\ thread' \in [Topic!Threads -> {"idle", "look", "make", "ready", "send", "wait", "recv"}]
        /\ chan' \in [Topic!Threads -> Topic!Channels \cup {"none"}]
    BY <2>1
  <2> QED
    BY <2>1, <2>5, <2>6
<1>8. ASSUME NEW r \in Readers, Topic!Lock(r) PROVE Topic!TypeOK'
  BY <1>8 DEF Topic!Lock
<1>9. ASSUME NEW r \in Readers, Topic!Recv(r) PROVE Topic!TypeOK'
  <2>1. /\ thread' = [thread EXCEPT ![r] = "idle"] /\ lock' = [lock EXCEPT ![BoxOf[r]] = "none"]
        /\ UNCHANGED <<topic, log, seq, chan, number, reads, sent, since>>
    BY <1>9 DEF Topic!Recv, Topic!Returns
  <2>2. /\ sub' \in [Boxes -> [chan : Topic!Channels \cup {"none"}, next : Nat \ {0}]]
        /\ got' \in [Boxes -> Seq(Topic!Messages \cup {Topic!Lost})]
    BY <1>9, ReceiverMoves DEF Mail
  <2>3. /\ thread' \in [Topic!Threads -> {"idle", "look", "make", "ready", "send", "wait", "recv"}]
        /\ lock' \in [Boxes -> Readers \cup {"none"}]
    BY <2>1
  <2> QED
    BY <2>1, <2>2, <2>3
<1>10. ASSUME NEW r \in Readers, Topic!Lags(r) PROVE Topic!TypeOK'
  <2>1. /\ thread' = [thread EXCEPT ![r] = "idle"] /\ lock' = [lock EXCEPT ![BoxOf[r]] = "none"]
        /\ UNCHANGED <<topic, log, seq, chan, number, reads, sent, since>>
    BY <1>10 DEF Topic!Lags, Topic!Returns
  <2>2. /\ sub' \in [Boxes -> [chan : Topic!Channels \cup {"none"}, next : Nat \ {0}]]
        /\ got' \in [Boxes -> Seq(Topic!Messages \cup {Topic!Lost})]
    BY <1>10, ReceiverMoves DEF Mail
  <2>3. /\ thread' \in [Topic!Threads -> {"idle", "look", "make", "ready", "send", "wait", "recv"}]
        /\ lock' \in [Boxes -> Readers \cup {"none"}]
    BY <2>1
  <2> QED
    BY <2>1, <2>2, <2>3
<1>11. ASSUME NEW r \in Readers, Topic!TimesOut(r) PROVE Topic!TypeOK'
  <2>1. /\ thread' = [thread EXCEPT ![r] = "idle"]
        /\ lock' = lock \/ lock' = [lock EXCEPT ![BoxOf[r]] = "none"]
        /\ UNCHANGED <<topic, log, seq, chan, number, sub, reads, sent, since, got>>
    BY <1>11 DEF Topic!TimesOut
  <2>2. /\ thread' \in [Topic!Threads -> {"idle", "look", "make", "ready", "send", "wait", "recv"}]
        /\ lock' \in [Boxes -> Readers \cup {"none"}]
    BY <2>1
  <2> QED
    BY <2>1, <2>2
<1>12. CASE UNCHANGED Topic!vars
  BY <1>12 DEF Topic!vars
<1> QED
  BY <1>1, <1>2, <1>3, <1>4, <1>5, <1>6, <1>7, <1>8, <1>9, <1>10, <1>11, <1>12 DEF Topic!Next, Topic!Quiet


\* Numbers, where arithmetic needs them.
LEMMA BoxFacts ==
    ASSUME Topic!TypeOK, NEW b \in Boxes
    PROVE  /\ got[b] \in Seq(Mail) /\ Len(got[b]) \in Nat
           /\ since[b] \in Nat /\ sub[b].next \in Nat \ {0}
<1>1. got[b] \in Seq(Mail)
  BY DEF Topic!TypeOK, Mail
<1> QED
  BY <1>1, LenProperties DEF Topic!TypeOK

\* What the log of the topic is.
LEMMA LogFacts ==
    ASSUME Topic!TypeOK, OneChannel, \E b \in Boxes : sub[b].chan # "none"
    PROVE  /\ topic # "none" /\ topic \in Topic!Channels
           /\ log[topic] \in Seq(Topic!Messages) /\ Len(log[topic]) \in Nat
           /\ \A b \in Boxes : sub[b].chan # "none" => sub[b].chan = topic
<1>1. topic # "none" /\ \A b \in Boxes : sub[b].chan # "none" => sub[b].chan = topic
  BY DEF OneChannel
<1>2. topic \in Topic!Channels
  BY <1>1 DEF Topic!TypeOK, Topic!None
<1>3. log[topic] \in Seq(Topic!Messages)
  BY <1>2 DEF Topic!TypeOK
<1> QED
  BY <1>1, <1>2, <1>3, LenProperties

\* The arithmetic of a receiver: u messages before the channel's l, s in all; it is at the
\* x-th of the channel, w messages came before it subscribed, and it was given g.
LEMMA Receiving ==
    ASSUME NEW u \in Nat, NEW l \in Nat, NEW s \in Nat, NEW x \in Nat, NEW w \in Nat, NEW g \in Nat,
           u + l = s, u + x = w + g + 1
    PROVE  /\ x <= l + 1 => \A k \in 1..g : w + k \in 1..s
           /\ \A n \in Nat : u + (x + n) = w + (g + n) + 1
           /\ \A n \in Nat : \A k \in 1..n : \A c \in Nat :
                x + n + c = l + 1 => w + g + k + c <= s
OBVIOUS

\* How many messages were sent before anybody subscribed.
LEMMA UnheardFacts ==
    ASSUME Topic!TypeOK, OneChannel, Aligned, \E b \in Boxes : sub[b].chan # "none"
    PROVE  Unheard \in Nat /\ Unheard + Len(log[topic]) = Len(sent)
<1>1. Len(sent) \in Nat /\ Len(log[topic]) \in Nat
  BY SentFacts, LogFacts
<1>2. Unheard \in Int /\ Unheard + Len(log[topic]) = Len(sent)
  BY <1>1 DEF Unheard
<1>3. Unheard >= 0
  BY DEF Aligned
<1> QED
  BY <1>2, <1>3

\* A sandbox has been given nothing that was not sent.
LEMMA GivenBounds ==
    ASSUME Topic!TypeOK, OneChannel, OneSubscription, Aligned,
           NEW b \in Boxes, NEW k \in 1..Len(got[b])
    PROVE  since[b] + k \in 1..Len(sent)
<1>1. Len(got[b]) \in Nat /\ since[b] \in Nat /\ sub[b].next \in Nat \ {0} /\ Len(sent) \in Nat
  BY BoxFacts, SentFacts
<1>2. sub[b].chan # "none"
  <2>1. got[b] # <<>>
    BY <1>1, EmptySeq
  <2> QED
    BY <2>1 DEF OneSubscription
<1>3. Len(log[topic]) \in Nat
  BY <1>2, LogFacts
<1>4. Unheard \in Nat /\ Unheard + Len(log[topic]) = Len(sent)
  BY <1>2, UnheardFacts
<1>5. Unheard + sub[b].next = since[b] + Len(got[b]) + 1 /\ sub[b].next <= Len(log[topic]) + 1
  BY <1>2 DEF Aligned
<1> QED
  BY <1>1, <1>3, <1>4, <1>5, Receiving
\* Aligned is kept: log and messages sent grow together.
LEMMA TopicAligned ==
    ASSUME Topic!TypeOK, OneChannel, OneSubscription, Aligned, [Topic!Next]_(Topic!vars)
    PROVE  Aligned'
<1> USE TopicAssumption DEF Topic!Threads, Topic!Channels, Topic!Goes, Topic!channels, Topic!books, Topic!ghosts, Topic!None
<1>1. ASSUME NEW t \in Topic!Threads, Topic!Look(t) PROVE Aligned'
  <2>1. UNCHANGED <<topic, log, sub, sent, since, got>>
    BY <1>1 DEF Topic!Look
  <2> QED
    BY <2>1 DEF Aligned, Unheard
<1>2. ASSUME NEW t \in Topic!Threads, Topic!Make(t) PROVE Aligned'
  <2>1. UNCHANGED <<log, sub, sent, since, got>> /\ (topic # "none" => topic' = topic)
    BY <1>2 DEF Topic!Make
  <2>2. (\E b \in Boxes : sub[b].chan # "none") => topic # "none"
    BY DEF OneChannel
  <2> QED
    BY <2>1, <2>2 DEF Aligned, Unheard
<1>3. ASSUME NEW p \in Publishers, Topic!Publish(p) PROVE Aligned'
  <2>1. UNCHANGED <<topic, log, sub, sent, since, got>>
    BY <1>3 DEF Topic!Publish
  <2> QED
    BY <2>1 DEF Aligned, Unheard
<1>4. ASSUME NEW p \in Publishers, Topic!Number(p) PROVE Aligned'
  <2>1. UNCHANGED <<topic, log, sub, sent, since, got>>
    BY <1>4 DEF Topic!Number
  <2> QED
    BY <2>1 DEF Aligned, Unheard
<1>5. ASSUME NEW p \in Publishers, Topic!Send(p) PROVE Aligned'
  <2> SUFFICES ASSUME \E b \in Boxes : sub[b].chan # "none"
               PROVE  /\ Unheard' = Unheard
                      /\ Len(log'[topic]) = Len(log[topic]) + 1
                      /\ \A i \in 1..Len(log'[topic]) : log'[topic][i] = sent'[Unheard + i]
    <3>1. UNCHANGED <<topic, sub, since, got>>
      BY <1>5 DEF Topic!Send
    <3>2. \A b \in Boxes : sub[b].chan # "none" => sub[b].next \in Nat \ {0}
      BY BoxFacts
    <3>3. (\E b \in Boxes : sub[b].chan # "none") => Len(log[topic]) \in Nat
      BY LogFacts
    <3> QED
      BY <3>1, <3>2, <3>3 DEF Aligned
  <2>1. /\ topic # "none" /\ Len(log[topic]) \in Nat /\ Len(sent) \in Nat
        /\ \E b \in Boxes : sub[b].chan = topic
    BY LogFacts, SentFacts
  <2>2. /\ Len(sent') = Len(sent) + 1
        /\ \A i \in 1..Len(sent) : sent'[i] = sent[i]
        /\ Len(log'[topic]) = Len(log[topic]) + 1
        /\ \A i \in 1..Len(log[topic]) : log'[topic][i] = log[topic][i]
        /\ log'[topic][Len(log[topic]) + 1] = sent'[Len(sent) + 1]
    BY <1>5, <2>1, SendEffect
  <2>3. UNCHANGED topic
    BY <1>5 DEF Topic!Send
  <2>4. Unheard' = Unheard /\ Unheard \in Nat /\ Unheard + Len(log[topic]) = Len(sent)
    <3>1. Unheard \in Nat /\ Unheard + Len(log[topic]) = Len(sent)
      BY UnheardFacts
    <3>2. Unheard' = Len(sent') - Len(log'[topic])
      BY <2>3 DEF Unheard
    <3> QED
      <4>1. PICK u \in Nat, l \in Nat, s \in Nat :
              u = Unheard /\ l = Len(log[topic]) /\ s = Len(sent)
        BY <2>1, <3>1
      <4>2. u + l = s /\ Unheard' = (s + 1) - (l + 1)
        BY <2>2, <3>1, <3>2, <4>1
      <4>3. (s + 1) - (l + 1) = u
        BY <4>2
      <4> QED
        BY <3>1, <4>1, <4>2, <4>3
  <2>5. ASSUME NEW i \in 1..Len(log'[topic]) PROVE log'[topic][i] = sent'[Unheard + i]
    <3>1. CASE i \in 1..Len(log[topic])
      <4>1. Unheard + i \in 1..Len(sent) /\ log[topic][i] = sent[Unheard + i]
        BY <2>1, <2>4, <3>1 DEF Aligned
      <4> QED
        BY <2>2, <3>1, <4>1
    <3>2. CASE i = Len(log[topic]) + 1
      <4>1. Unheard + i = Len(sent) + 1
        BY <2>1, <2>4, <3>2
      <4> QED
        BY <2>2, <3>2, <4>1
    <3> QED
      BY <2>1, <2>2, <3>1, <3>2
  <2> QED
    BY <2>2, <2>4, <2>5
<1>6. ASSUME NEW r \in Readers, Topic!Receive(r) PROVE Aligned'
  <2>1. UNCHANGED <<topic, log, sub, sent, since, got>>
    BY <1>6 DEF Topic!Receive
  <2> QED
    BY <2>1 DEF Aligned, Unheard
<1>7. ASSUME NEW r \in Readers, Topic!Subscribe(r) PROVE Aligned'
  <2> DEFINE b == BoxOf[r]
  <2>1. /\ thread[r] = "ready" /\ sub' = [sub EXCEPT ![b] = [chan |-> chan[r], next |-> Len(log[chan[r]]) + 1]]
        /\ since' = [since EXCEPT ![b] = Len(sent)] /\ UNCHANGED <<topic, log, sent, got>>
    BY <1>7 DEF Topic!Subscribe
  <2>2. b \in Boxes /\ chan[r] = topic /\ topic # "none" /\ sub[b].chan = "none" /\ got[b] = <<>>
    BY <2>1 DEF OneChannel, OneSubscription
  <2>3. log[topic] \in Seq(Topic!Messages) /\ Len(log[topic]) \in Nat
    <3>1. topic \in Topic!Channels
      BY <2>2 DEF Topic!TypeOK
    <3>2. log[topic] \in Seq(Topic!Messages)
      BY <3>1 DEF Topic!TypeOK
    <3> QED
      BY <3>2, LenProperties
  <2>4. Len(sent) \in Nat /\ Unheard' = Unheard /\ Len(got'[b]) = 0
    BY <2>1, <2>2, SentFacts, EmptySeq DEF Unheard
  <2>5. /\ sub'[b].next = Len(log[topic]) + 1 /\ since'[b] = Len(sent)
        /\ \A c \in Boxes \ {b} : sub'[c] = sub[c] /\ since'[c] = since[c]
    BY <2>1, <2>2 DEF Topic!TypeOK
  <2>6. /\ Unheard >= 0 /\ \A i \in 1..Len(log[topic]) : log[topic][i] = sent[Unheard + i]
    <3>1. CASE \E c \in Boxes : sub[c].chan # "none"
      BY <3>1 DEF Aligned
    <3>2. CASE \A c \in Boxes : sub[c].chan = "none"
      <4>1. log[topic] = <<>>
        BY <2>2, <3>2 DEF OneChannel, Topic!TypeOK
      <4> QED
        BY <2>4, <4>1 DEF Unheard
    <3> QED
      BY <3>1, <3>2
  <2>7. Unheard + sub'[b].next = since'[b] + Len(got'[b]) + 1
    <3>1. Unheard \in Int /\ Unheard + Len(log[topic]) = Len(sent)
      BY <2>3, <2>4 DEF Unheard
    <3> QED
      BY <2>3, <2>4, <2>5, <3>1
  <2> HIDE DEF b
  <2>8. ASSUME NEW c \in Boxes, sub'[c].chan # "none"
        PROVE  /\ Unheard + sub'[c].next = since'[c] + Len(got'[c]) + 1
               /\ sub'[c].next <= Len(log[topic]) + 1
    <3>1. CASE c = b
      <4>1. sub'[b].next <= Len(log[topic]) + 1
        BY <2>3, <2>5
      <4> QED
        BY <2>7, <3>1, <4>1
    <3>2. CASE c # b
      BY <2>1, <2>5, <2>8, <3>2 DEF Aligned
    <3> QED
      BY <3>1, <3>2
  <2> QED
    BY <2>1, <2>4, <2>6, <2>8 DEF Aligned
<1>8. ASSUME NEW r \in Readers, Topic!Lock(r) PROVE Aligned'
  <2>1. UNCHANGED <<topic, log, sub, sent, since, got>>
    BY <1>8 DEF Topic!Lock
  <2> QED
    BY <2>1 DEF Aligned, Unheard
<1>9. ASSUME NEW r \in Readers, Topic!Recv(r) PROVE Aligned'
  <2> DEFINE b == BoxOf[r]
  <2>1. UNCHANGED <<topic, log, sent, since>> /\ thread[r] = "recv"
    BY <1>9 DEF Topic!Recv, Topic!Returns
  <2>2. b \in Boxes /\ sub[b].chan # "none"
    BY <2>1 DEF OneSubscription
  <2>3. PICK n \in Nat \ {0} : /\ sub'[b].next = sub[b].next + n
                               /\ sub[b].next + n <= Len(log[topic]) + 1
                               /\ Len(got'[b]) = Len(got[b]) + n
    BY <1>9, ReceiverMoves
  <2>4. /\ \A c \in Boxes : sub'[c].chan = sub[c].chan
        /\ \A c \in Boxes \ {b} : sub'[c] = sub[c] /\ got'[c] = got[c]
    BY <1>9, ReceiverMoves
  <2>5. Unheard' = Unheard /\ Unheard \in Int
    <3>1. Unheard \in Nat
      BY <2>2, UnheardFacts
    <3> QED
      BY <2>1, <3>1 DEF Unheard
  <2>6. Len(got[b]) \in Nat /\ since[b] \in Nat /\ sub[b].next \in Nat \ {0}
    BY <2>2, BoxFacts
  <2>7. Unheard + sub'[b].next = since[b] + Len(got'[b]) + 1 /\ sub'[b].next <= Len(log[topic]) + 1
    <3>1. Unheard + sub[b].next = since[b] + Len(got[b]) + 1
      BY <2>2 DEF Aligned
    <3> QED
      <4>1. Unheard \in Nat /\ Unheard + Len(log[topic]) = Len(sent) /\ Len(log[topic]) \in Nat
            /\ Len(sent) \in Nat
        BY <2>2, UnheardFacts, LogFacts, SentFacts
      <4>2. PICK u \in Nat, l \in Nat, s \in Nat, x \in Nat, w \in Nat, g \in Nat :
              /\ u = Unheard /\ l = Len(log[topic]) /\ s = Len(sent)
              /\ x = sub[b].next /\ w = since[b] /\ g = Len(got[b])
        BY <2>6, <4>1
      <4>3. u + l = s /\ u + x = w + g + 1
        BY <3>1, <4>1, <4>2
      <4>4. u + (x + n) = w + (g + n) + 1
        BY <4>3, Receiving
      <4> QED
        BY <2>3, <4>2, <4>4
  <2> HIDE DEF b
  <2>8. ASSUME NEW c \in Boxes, sub'[c].chan # "none"
        PROVE  /\ Unheard + sub'[c].next = since[c] + Len(got'[c]) + 1
               /\ sub'[c].next <= Len(log[topic]) + 1
    <3>1. CASE c = b
      BY <2>7, <3>1
    <3>2. CASE c # b
      BY <2>4, <2>8, <3>2 DEF Aligned
    <3> QED
      BY <3>1, <3>2
  <2> QED
    BY <2>1, <2>2, <2>5, <2>8 DEF Aligned
<1>10. ASSUME NEW r \in Readers, Topic!Lags(r) PROVE Aligned'
  <2> DEFINE b == BoxOf[r]
  <2>1. UNCHANGED <<topic, log, sent, since>> /\ thread[r] = "recv"
    BY <1>10 DEF Topic!Lags, Topic!Returns
  <2>2. b \in Boxes /\ sub[b].chan # "none"
    BY <2>1 DEF OneSubscription
  <2>3. PICK n \in Nat \ {0} : /\ sub'[b].next = sub[b].next + n
                               /\ sub[b].next + n <= Len(log[topic]) + 1
                               /\ Len(got'[b]) = Len(got[b]) + n
    BY <1>10, ReceiverMoves
  <2>4. /\ \A c \in Boxes : sub'[c].chan = sub[c].chan
        /\ \A c \in Boxes \ {b} : sub'[c] = sub[c] /\ got'[c] = got[c]
    BY <1>10, ReceiverMoves
  <2>5. Unheard' = Unheard /\ Unheard \in Int
    <3>1. Unheard \in Nat
      BY <2>2, UnheardFacts
    <3> QED
      BY <2>1, <3>1 DEF Unheard
  <2>6. Len(got[b]) \in Nat /\ since[b] \in Nat /\ sub[b].next \in Nat \ {0}
    BY <2>2, BoxFacts
  <2>7. Unheard + sub'[b].next = since[b] + Len(got'[b]) + 1 /\ sub'[b].next <= Len(log[topic]) + 1
    <3>1. Unheard + sub[b].next = since[b] + Len(got[b]) + 1
      BY <2>2 DEF Aligned
    <3> QED
      <4>1. Unheard \in Nat /\ Unheard + Len(log[topic]) = Len(sent) /\ Len(log[topic]) \in Nat
            /\ Len(sent) \in Nat
        BY <2>2, UnheardFacts, LogFacts, SentFacts
      <4>2. PICK u \in Nat, l \in Nat, s \in Nat, x \in Nat, w \in Nat, g \in Nat :
              /\ u = Unheard /\ l = Len(log[topic]) /\ s = Len(sent)
              /\ x = sub[b].next /\ w = since[b] /\ g = Len(got[b])
        BY <2>6, <4>1
      <4>3. u + l = s /\ u + x = w + g + 1
        BY <3>1, <4>1, <4>2
      <4>4. u + (x + n) = w + (g + n) + 1
        BY <4>3, Receiving
      <4> QED
        BY <2>3, <4>2, <4>4
  <2> HIDE DEF b
  <2>8. ASSUME NEW c \in Boxes, sub'[c].chan # "none"
        PROVE  /\ Unheard + sub'[c].next = since[c] + Len(got'[c]) + 1
               /\ sub'[c].next <= Len(log[topic]) + 1
    <3>1. CASE c = b
      BY <2>7, <3>1
    <3>2. CASE c # b
      BY <2>4, <2>8, <3>2 DEF Aligned
    <3> QED
      BY <3>1, <3>2
  <2> QED
    BY <2>1, <2>2, <2>5, <2>8 DEF Aligned
<1>11. ASSUME NEW r \in Readers, Topic!TimesOut(r) PROVE Aligned'
  <2>1. UNCHANGED <<topic, log, sub, sent, since, got>>
    BY <1>11 DEF Topic!TimesOut
  <2> QED
    BY <2>1 DEF Aligned, Unheard
<1>12. CASE UNCHANGED Topic!vars
  BY <1>12 DEF Topic!vars, Aligned, Unheard
<1> QED
  BY <1>1, <1>2, <1>3, <1>4, <1>5, <1>6, <1>7, <1>8, <1>9, <1>10, <1>11, <1>12 DEF Topic!Next, Topic!Quiet

\* Given is kept: a sandbox is given what is at its receiver, or a mark.
LEMMA TopicGiven ==
    ASSUME Topic!TypeOK, OneChannel, OneSubscription, Aligned, Given,
           [Topic!Next]_(Topic!vars)
    PROVE  Given'
<1> USE TopicAssumption DEF Topic!Threads, Topic!Channels, Topic!Goes, Topic!channels, Topic!books, Topic!ghosts, Topic!None
<1>1. ASSUME NEW t \in Topic!Threads, Topic!Look(t) PROVE Given'
  <2>1. UNCHANGED <<sent, since, got>>
    BY <1>1 DEF Topic!Look
  <2> QED
    BY <2>1 DEF Given
<1>2. ASSUME NEW t \in Topic!Threads, Topic!Make(t) PROVE Given'
  <2>1. UNCHANGED <<sent, since, got>>
    BY <1>2 DEF Topic!Make
  <2> QED
    BY <2>1 DEF Given
<1>3. ASSUME NEW p \in Publishers, Topic!Publish(p) PROVE Given'
  <2>1. UNCHANGED <<sent, since, got>>
    BY <1>3 DEF Topic!Publish
  <2> QED
    BY <2>1 DEF Given
<1>4. ASSUME NEW p \in Publishers, Topic!Number(p) PROVE Given'
  <2>1. UNCHANGED <<sent, since, got>>
    BY <1>4 DEF Topic!Number
  <2> QED
    BY <2>1 DEF Given
<1>5. ASSUME NEW p \in Publishers, Topic!Send(p) PROVE Given'
  <2>1. UNCHANGED <<since, got>>
    BY <1>5 DEF Topic!Send
  <2>2. /\ Len(sent') = Len(sent) + 1 /\ Len(sent) \in Nat
        /\ \A i \in 1..Len(sent) : sent'[i] = sent[i]
    BY <1>5, SendEffect, SentFacts
  <2>3. \A b \in Boxes : since[b] \in Nat
    BY BoxFacts
  <2>4. ASSUME NEW b \in Boxes, NEW k \in 1..Len(got[b])
        PROVE  /\ got[b][k] # Topic!Lost => got[b][k] = sent'[since[b] + k]
               /\ got[b][k] = Topic!Lost => since[b] + k + Capacity <= Len(sent')
    <3>1. since[b] + k \in 1..Len(sent)
      BY GivenBounds
    <3>2. since[b] \in Nat /\ k \in Nat
      BY <2>3, BoxFacts
    <3>3. /\ got[b][k] # Topic!Lost => got[b][k] = sent[since[b] + k]
          /\ got[b][k] = Topic!Lost => since[b] + k + Capacity <= Len(sent)
      BY DEF Given
    <3>4. sent'[since[b] + k] = sent[since[b] + k]
      BY <2>2, <3>1
    <3>5. PICK i \in Nat, n \in Nat : i = since[b] + k /\ n = Len(sent)
      BY <2>2, <3>2
    <3>6. i + Capacity <= n => i + Capacity <= n + 1
      OBVIOUS
    <3> QED
      BY <2>2, <3>3, <3>4, <3>5, <3>6
  <2> QED
    BY <2>1, <2>4 DEF Given
<1>6. ASSUME NEW r \in Readers, Topic!Receive(r) PROVE Given'
  <2>1. UNCHANGED <<sent, since, got>>
    BY <1>6 DEF Topic!Receive
  <2> QED
    BY <2>1 DEF Given
<1>7. ASSUME NEW r \in Readers, Topic!Subscribe(r) PROVE Given'
  <2>1. /\ thread[r] = "ready" /\ since' = [since EXCEPT ![BoxOf[r]] = Len(sent)] /\ UNCHANGED <<sent, got>>
    BY <1>7 DEF Topic!Subscribe
  <2>2. got[BoxOf[r]] = <<>> /\ BoxOf[r] \in Boxes
    BY <2>1 DEF OneSubscription
  <2>3. \A b \in Boxes \ {BoxOf[r]} : since'[b] = since[b]
    BY <2>1, <2>2 DEF Topic!TypeOK
  <2> QED
    BY <2>1, <2>2, <2>3, EmptySeq DEF Given
<1>8. ASSUME NEW r \in Readers, Topic!Lock(r) PROVE Given'
  <2>1. UNCHANGED <<sent, since, got>>
    BY <1>8 DEF Topic!Lock
  <2> QED
    BY <2>1 DEF Given
<1>9. ASSUME NEW r \in Readers, Topic!Recv(r) PROVE Given'
  <2> DEFINE b == BoxOf[r]
  <2>1. UNCHANGED <<sent, since>> /\ thread[r] = "recv"
    BY <1>9 DEF Topic!Recv, Topic!Returns
  <2>2. b \in Boxes /\ sub[b].chan # "none"
    BY <2>1 DEF OneSubscription
  <2>3. PICK n \in Nat \ {0} :
          /\ sub[b].next + n <= Len(log[topic]) + 1
          /\ Len(got'[b]) = Len(got[b]) + n
          /\ \A k \in 1..Len(got[b]) : got'[b][k] = got[b][k]
          /\ \A k \in 1..n : LET i == Len(got[b]) + k IN
               \/ n = 1 /\ got'[b][i] = log[topic][sub[b].next]
               \/ /\ sub[b].next + n + Capacity = Len(log[topic]) + 1
                  /\ got'[b][i] = Topic!Lost
    BY <1>9, ReceiverMoves
  <2>4. \A c \in Boxes \ {b} : got'[c] = got[c]
    BY <1>9, ReceiverMoves
  <2>5. /\ Len(got[b]) \in Nat /\ since[b] \in Nat /\ sub[b].next \in Nat \ {0}
        /\ Len(log[topic]) \in Nat /\ Len(sent) \in Nat /\ log[topic] \in Seq(Topic!Messages)
    BY <2>2, BoxFacts, LogFacts, SentFacts
  <2>6. /\ Unheard + sub[b].next = since[b] + Len(got[b]) + 1 /\ Unheard \in Int
        /\ Unheard + Len(log[topic]) = Len(sent)
    <3>1. Unheard + sub[b].next = since[b] + Len(got[b]) + 1
      BY <2>2 DEF Aligned
    <3> QED
      BY <2>2, <3>1, UnheardFacts
  <2>7. \A m \in Topic!Messages : m # Topic!Lost
    BY DEF Topic!Messages, Topic!Lost
  <2>8. ASSUME NEW k \in 1..n
        PROVE  LET m == got'[b][Len(got[b]) + k] IN
               /\ m # Topic!Lost => m = sent[since[b] + Len(got[b]) + k]
               /\ m = Topic!Lost => since[b] + Len(got[b]) + k + Capacity <= Len(sent)
    <3>1. CASE n = 1 /\ got'[b][Len(got[b]) + k] = log[topic][sub[b].next]
      <4>1. sub[b].next \in 1..Len(log[topic]) /\ k = 1
        BY <2>3, <2>5, <3>1
      <4>2. log[topic][sub[b].next] \in Topic!Messages
        BY <2>5, <4>1, ElementOfSeq
      <4>3. log[topic][sub[b].next] = sent[Unheard + sub[b].next]
        BY <2>2, <4>1 DEF Aligned
      <4>4. Unheard + sub[b].next = since[b] + Len(got[b]) + k
        BY <2>6, <4>1
      <4> QED
        BY <2>7, <3>1, <4>2, <4>3, <4>4
    <3>2. CASE /\ sub[b].next + n + Capacity = Len(log[topic]) + 1
               /\ got'[b][Len(got[b]) + k] = Topic!Lost
      <4>1. since[b] + Len(got[b]) + k + Capacity <= Len(sent)
        <5>1. k <= n /\ k \in Nat /\ Capacity \in Nat
          OBVIOUS
        <5>2. sub[b].next + n + Capacity = Len(log[topic]) + 1
          BY <3>2
        <5>3. PICK u \in Nat, l \in Nat, s \in Nat, x \in Nat, w \in Nat, g \in Nat :
                /\ u = Unheard /\ l = Len(log[topic]) /\ s = Len(sent)
                /\ x = sub[b].next /\ w = since[b] /\ g = Len(got[b])
          BY <2>2, <2>5, UnheardFacts
        <5>4. u + l = s /\ u + x = w + g + 1 /\ x + n + Capacity = l + 1
          BY <2>6, <5>2, <5>3
        <5>5. w + g + k + Capacity <= s
          BY <5>1, <5>4, Receiving
        <5> QED
          BY <5>3, <5>5
      <4> QED
        BY <3>2, <4>1
    <3> QED
      BY <2>3, <3>1, <3>2
  <2> HIDE DEF b
  <2>9. ASSUME NEW c \in Boxes, NEW k \in 1..Len(got'[c])
        PROVE  /\ got'[c][k] # Topic!Lost => got'[c][k] = sent[since[c] + k]
               /\ got'[c][k] = Topic!Lost => since[c] + k + Capacity <= Len(sent)
    <3>1. CASE c # b
      BY <2>4, <3>1 DEF Given
    <3>2. CASE c = b /\ k \in 1..Len(got[b])
      BY <2>2, <2>3, <3>2 DEF Given
    <3>3. CASE c = b /\ k \notin 1..Len(got[b])
      <4>1. PICK j \in 1..n : k = Len(got[b]) + j
        <5>1. k - Len(got[b]) \in 1..n /\ k = Len(got[b]) + (k - Len(got[b]))
          BY <2>3, <2>5, <3>3
        <5> QED
          BY <5>1
      <4>2. since[b] + k = since[b] + Len(got[b]) + j
        BY <2>5, <4>1
      <4> QED
        BY <2>8, <3>3, <4>1, <4>2
    <3> QED
      BY <3>1, <3>2, <3>3
  <2> QED
    BY <2>1, <2>9 DEF Given
<1>10. ASSUME NEW r \in Readers, Topic!Lags(r) PROVE Given'
  <2> DEFINE b == BoxOf[r]
  <2>1. UNCHANGED <<sent, since>> /\ thread[r] = "recv"
    BY <1>10 DEF Topic!Lags, Topic!Returns
  <2>2. b \in Boxes /\ sub[b].chan # "none"
    BY <2>1 DEF OneSubscription
  <2>3. PICK n \in Nat \ {0} :
          /\ sub[b].next + n <= Len(log[topic]) + 1
          /\ Len(got'[b]) = Len(got[b]) + n
          /\ \A k \in 1..Len(got[b]) : got'[b][k] = got[b][k]
          /\ \A k \in 1..n : LET i == Len(got[b]) + k IN
               \/ n = 1 /\ got'[b][i] = log[topic][sub[b].next]
               \/ /\ sub[b].next + n + Capacity = Len(log[topic]) + 1
                  /\ got'[b][i] = Topic!Lost
    BY <1>10, ReceiverMoves
  <2>4. \A c \in Boxes \ {b} : got'[c] = got[c]
    BY <1>10, ReceiverMoves
  <2>5. /\ Len(got[b]) \in Nat /\ since[b] \in Nat /\ sub[b].next \in Nat \ {0}
        /\ Len(log[topic]) \in Nat /\ Len(sent) \in Nat /\ log[topic] \in Seq(Topic!Messages)
    BY <2>2, BoxFacts, LogFacts, SentFacts
  <2>6. /\ Unheard + sub[b].next = since[b] + Len(got[b]) + 1 /\ Unheard \in Int
        /\ Unheard + Len(log[topic]) = Len(sent)
    <3>1. Unheard + sub[b].next = since[b] + Len(got[b]) + 1
      BY <2>2 DEF Aligned
    <3> QED
      BY <2>2, <3>1, UnheardFacts
  <2>7. \A m \in Topic!Messages : m # Topic!Lost
    BY DEF Topic!Messages, Topic!Lost
  <2>8. ASSUME NEW k \in 1..n
        PROVE  LET m == got'[b][Len(got[b]) + k] IN
               /\ m # Topic!Lost => m = sent[since[b] + Len(got[b]) + k]
               /\ m = Topic!Lost => since[b] + Len(got[b]) + k + Capacity <= Len(sent)
    <3>1. CASE n = 1 /\ got'[b][Len(got[b]) + k] = log[topic][sub[b].next]
      <4>1. sub[b].next \in 1..Len(log[topic]) /\ k = 1
        BY <2>3, <2>5, <3>1
      <4>2. log[topic][sub[b].next] \in Topic!Messages
        BY <2>5, <4>1, ElementOfSeq
      <4>3. log[topic][sub[b].next] = sent[Unheard + sub[b].next]
        BY <2>2, <4>1 DEF Aligned
      <4>4. Unheard + sub[b].next = since[b] + Len(got[b]) + k
        BY <2>6, <4>1
      <4> QED
        BY <2>7, <3>1, <4>2, <4>3, <4>4
    <3>2. CASE /\ sub[b].next + n + Capacity = Len(log[topic]) + 1
               /\ got'[b][Len(got[b]) + k] = Topic!Lost
      <4>1. since[b] + Len(got[b]) + k + Capacity <= Len(sent)
        <5>1. k <= n /\ k \in Nat /\ Capacity \in Nat
          OBVIOUS
        <5>2. sub[b].next + n + Capacity = Len(log[topic]) + 1
          BY <3>2
        <5>3. PICK u \in Nat, l \in Nat, s \in Nat, x \in Nat, w \in Nat, g \in Nat :
                /\ u = Unheard /\ l = Len(log[topic]) /\ s = Len(sent)
                /\ x = sub[b].next /\ w = since[b] /\ g = Len(got[b])
          BY <2>2, <2>5, UnheardFacts
        <5>4. u + l = s /\ u + x = w + g + 1 /\ x + n + Capacity = l + 1
          BY <2>6, <5>2, <5>3
        <5>5. w + g + k + Capacity <= s
          BY <5>1, <5>4, Receiving
        <5> QED
          BY <5>3, <5>5
      <4> QED
        BY <3>2, <4>1
    <3> QED
      BY <2>3, <3>1, <3>2
  <2> HIDE DEF b
  <2>9. ASSUME NEW c \in Boxes, NEW k \in 1..Len(got'[c])
        PROVE  /\ got'[c][k] # Topic!Lost => got'[c][k] = sent[since[c] + k]
               /\ got'[c][k] = Topic!Lost => since[c] + k + Capacity <= Len(sent)
    <3>1. CASE c # b
      BY <2>4, <3>1 DEF Given
    <3>2. CASE c = b /\ k \in 1..Len(got[b])
      BY <2>2, <2>3, <3>2 DEF Given
    <3>3. CASE c = b /\ k \notin 1..Len(got[b])
      <4>1. PICK j \in 1..n : k = Len(got[b]) + j
        <5>1. k - Len(got[b]) \in 1..n /\ k = Len(got[b]) + (k - Len(got[b]))
          BY <2>3, <2>5, <3>3
        <5> QED
          BY <5>1
      <4>2. since[b] + k = since[b] + Len(got[b]) + j
        BY <2>5, <4>1
      <4> QED
        BY <2>8, <3>3, <4>1, <4>2
    <3> QED
      BY <3>1, <3>2, <3>3
  <2> QED
    BY <2>1, <2>9 DEF Given
<1>11. ASSUME NEW r \in Readers, Topic!TimesOut(r) PROVE Given'
  <2>1. UNCHANGED <<sent, since, got>>
    BY <1>11 DEF Topic!TimesOut
  <2> QED
    BY <2>1 DEF Given
<1>12. CASE UNCHANGED Topic!vars
  BY <1>12 DEF Topic!vars, Given
<1> QED
  BY <1>1, <1>2, <1>3, <1>4, <1>5, <1>6, <1>7, <1>8, <1>9, <1>10, <1>11, <1>12 DEF Topic!Next, Topic!Quiet


\* A topic nobody has used.
LEMMA TopicInit == Topic!Init => TopicInv
<1> SUFFICES ASSUME Topic!Init PROVE TopicInv
  OBVIOUS
<1>1. Topic!TypeOK
  <2>1. \A S : <<>> \in Seq(S)
    BY EmptySeq
  <2> QED
    BY <2>1, TopicAssumption DEF Topic!Init, Topic!TypeOK, Topic!None, Topic!Channels, Topic!Threads
<1>2. OneChannel /\ OneSubscription
  BY TopicAssumption DEF Topic!Init, OneChannel, OneSubscription, Topic!None, Topic!Channels, Topic!Threads
<1>3. NumbersUsed /\ Topic!Numbered /\ Aligned /\ Given
  BY EmptySeq DEF Topic!Init, NumbersUsed, Topic!Numbered, Aligned, Given, Topic!None, Topic!Threads
<1> QED
  BY <1>1, <1>2, <1>3 DEF TopicInv

\* A step of the topic, or of something else, keeps its invariant.
LEMMA TopicStep == TopicInv /\ [Topic!Next]_(Topic!vars) => TopicInv'
BY TopicType, TopicChannel, TopicSubscription, TopicNumbers, TopicNumbered, TopicAligned, TopicGiven
DEF TopicInv

\* The inductive invariant of a topic holds in every state.
LEMMA TopicInvariance == Topic!Spec => []TopicInv
BY TopicStep, TopicInit, PTL DEF Topic!Spec

\* Where each message stands says what was given is what was sent.
LEMMA TopicSuffices == TopicInv => MailArrives
<1> SUFFICES ASSUME TopicInv, NEW b \in Boxes, sub[b].chan # "none"
             PROVE  /\ Len(got[b]) + Topic!Pending(b) = Len(sent) - since[b]
                    /\ DOMAIN got[b] = 1..Len(got[b])
  BY DEF TopicInv, Given, MailArrives, Topic!MailArrives, Topic!None
<1>1. /\ Topic!TypeOK /\ OneChannel
      /\ Unheard + sub[b].next = since[b] + Len(got[b]) + 1 /\ sub[b].chan = topic
  BY LogFacts DEF TopicInv, Aligned
<1>2. PICK u \in Nat, l \in Nat, s \in Nat, x \in Nat, w \in Nat, g \in Nat :
            /\ u = Unheard /\ l = Len(log[topic]) /\ s = Len(sent)
            /\ x = sub[b].next /\ w = since[b] /\ g = Len(got[b])
  BY LogFacts, BoxFacts, SentFacts, UnheardFacts DEF TopicInv
<1>3. u + l = s /\ u + x = w + g + 1 /\ Topic!Pending(b) = l - x + 1
  BY <1>1, <1>2, UnheardFacts DEF TopicInv, Topic!Pending
<1>4. g + (l - x + 1) = s - w
  BY <1>3
<1> QED
  BY <1>1, <1>2, <1>3, <1>4, BoxFacts, LenProperties

\* For any number of publishers, receive calls and sandboxes and every capacity: no number
\* is given twice, and what a sandbox was given is what was sent since it subscribed, in
\* order, but for messages a full channel overwrote, of each of which it was told.
THEOREM MailIsDelivered == Topic!Spec => []MailArrives
BY TopicSuffices, TopicInvariance, PTL

-------------------------------------------------------------------------------
(* A batch of child agents *)

\* a permit is free or with a child that works
PermitsKept == permits + Cardinality(Batch!Working) = limit

\* tasks get their children in turn
TasksInTurn ==
    /\ \A i \in 1..size : i >= next <=> child[i] = "none"
    /\ batch = "called" => next = 1
    /\ batch = "joining" => next = size + 1

Settled == {"answered", "failed", "panicked"}
Joined(i) == \E k \in 1..Len(collected) : collected[k][1] = i
Waits(i) == \E k \in 1..Len(joinable) : joinable[k] = i

\* until run_batch is over nobody is aborted, and a child whose task is over is either
\* waiting to be joined or its result collected, once
Accounts ==
    batch \in {"called", "spawning", "joining"} =>
        /\ \A i \in 1..size : child[i] \notin {"aborting", "aborted"}
        /\ \A k \in 1..Len(collected) : child[collected[k][1]] = collected[k][2]
        /\ \A k, l \in 1..Len(collected) : k # l => collected[k][1] # collected[l][1]
        /\ \A k, l \in 1..Len(joinable) : k # l => joinable[k] # joinable[l]
        /\ \A k \in 1..Len(joinable) : child[joinable[k]] \in Settled /\ ~Joined(joinable[k])
        /\ \A i \in 1..size : child[i] \in Settled => Joined(i) \/ Waits(i)

BatchInv == Batch!TypeOK /\ PermitsKept /\ TasksInTurn /\ Accounts /\ Batch!BestEffort

\* A strictly increasing function on an interval is the identity.
LEMMA IncreasingIsIdentity ==
    ASSUME NEW n \in Nat, NEW f \in [1..n -> 1..n],
           \A i, j \in 1..n : i < j => f[i] < f[j]
    PROVE  \A i \in 1..n : f[i] = i
<1>1. \A i \in 1..n : f[i] >= i
  <2> DEFINE Below == {i \in 1..n : f[i] < i}
  <2>1. ASSUME Below # {} PROVE FALSE
    <3>1. PICK i \in Below : \A j \in Below : i <= j
      <4>1. Below \subseteq Nat
        OBVIOUS
      <4> HIDE DEF Below
      <4> QED
        BY <2>1, <4>1, LeastNat
    <3>2. i \in 1..n /\ f[i] < i /\ f[i] \in 1..n
      OBVIOUS
    <3>3. i - 1 \in 1..n /\ i - 1 < i
      BY <3>2
    <3>4. i - 1 \notin Below
      BY <3>1, <3>3
    <3>5. f[i - 1] \in 1..n /\ f[i - 1] >= i - 1 /\ f[i - 1] < f[i]
      BY <3>2, <3>3, <3>4
    <3> QED
      BY <3>2, <3>5
  <2> QED
    BY <2>1
<1>2. \A i \in 1..n : f[i] <= i
  <2> DEFINE Above == {m \in 0..n : n - m \in 1..n /\ f[n - m] > n - m}
  <2>1. ASSUME Above # {} PROVE FALSE
    <3>1. PICK m \in Above : \A j \in Above : m <= j
      <4>1. Above \subseteq Nat
        OBVIOUS
      <4> HIDE DEF Above
      <4> QED
        BY <2>1, <4>1, LeastNat
    <3>2. m \in 0..n /\ n - m \in 1..n /\ f[n - m] > n - m /\ f[n - m] \in 1..n
      OBVIOUS
    <3>3. m - 1 \in 0..n /\ n - (m - 1) = n - m + 1 /\ n - m + 1 \in 1..n
      BY <3>2
    <3>4. m - 1 \notin Above
      <4>1. ~(m <= m - 1)
        BY <3>2
      <4> HIDE DEF Above
      <4> QED
        BY <3>1, <4>1
    <3>5. f[n - m + 1] \in 1..n /\ f[n - m + 1] <= n - m + 1 /\ f[n - m] < f[n - m + 1]
      BY <3>2, <3>3, <3>4
    <3> QED
      BY <3>2, <3>5
  <2>2. ASSUME NEW i \in 1..n, f[i] > i PROVE n - i \in Above
    <3>1. n - i \in 0..n /\ n - (n - i) = i
      OBVIOUS
    <3> QED
      BY <2>2, <3>1
  <2>3. \A i \in 1..n : f[i] > i \/ f[i] <= i
    OBVIOUS
  <2> HIDE DEF Above
  <2> QED
    BY <2>1, <2>2, <2>3
<1> QED
  BY <1>1, <1>2

\* every task's fate, in the tasks' places
InPlace(n, fates) == [i \in 1..n |-> <<i, fates[i]>>]

\* Results that hold every task once are sorted into the tasks' places.
LEMMA SortedInPlace ==
    ASSUME NEW n \in Nat, NEW g, NEW results, DOMAIN results = 1..n,
           \A k \in 1..n : results[k][1] \in 1..n,
           \A k \in 1..n : results[k] = <<results[k][1], g[results[k][1]]>>,
           \A k, l \in 1..n : k # l => results[k][1] # results[l][1],
           \A i \in 1..n : \E k \in 1..n : results[k][1] = i
    PROVE  Batch!InOrder(results) = InPlace(n, g)
<1> DEFINE Before(k, l) == \/ results[k][1] < results[l][1]
                           \/ results[k][1] = results[l][1] /\ k < l
           Sorts(p) == \A i, j \in DOMAIN results : i < j => Before(p[i], p[j])
           order == CHOOSE p \in [DOMAIN results -> DOMAIN results] : Sorts(p)
<1>1. DOMAIN results = 1..n /\ \A k \in 1..n : results[k][1] \in 1..n
  OBVIOUS
<1>2. Batch!InOrder(results) = [i \in DOMAIN results |-> results[order[i]]]
  BY DEF Batch!InOrder
<1>3. \E p \in [DOMAIN results -> DOMAIN results] : Sorts(p)
  <2> DEFINE p == [i \in 1..n |-> CHOOSE k \in 1..n : results[k][1] = i]
  <2>1. ASSUME NEW i \in 1..n PROVE p[i] \in 1..n /\ results[p[i]][1] = i
    OBVIOUS
  <2>2. p \in [1..n -> 1..n]
    BY <2>1
  <2> HIDE DEF p
  <2>3. Sorts(p)
    BY <1>1, <2>1
  <2> QED
    BY <1>1, <2>2, <2>3
<1>4. order \in [DOMAIN results -> DOMAIN results] /\ Sorts(order)
  <2> HIDE DEF Sorts
  <2> QED
    BY <1>3
<1> HIDE DEF order
<1> DEFINE f == [i \in 1..n |-> results[order[i]][1]]
<1>5. f \in [1..n -> 1..n]
  BY <1>1, <1>4
<1>6. ASSUME NEW i \in 1..n, NEW j \in 1..n, i < j PROVE f[i] < f[j]
  <2>1. order[i] \in 1..n /\ order[j] \in 1..n /\ Before(order[i], order[j])
    BY <1>1, <1>4, <1>6
  <2>2. CASE results[order[i]][1] < results[order[j]][1]
    BY <2>2
  <2>3. CASE results[order[i]][1] = results[order[j]][1] /\ order[i] < order[j]
    <3>1. PICK k \in 1..n, l \in 1..n : k = order[i] /\ l = order[j]
      BY <2>1
    <3>2. k < l
      BY <2>3, <3>1
    <3>3. k # l
      BY <3>2
    <3> QED
      BY <2>3, <3>1, <3>3
  <2> QED
    BY <2>1, <2>2, <2>3
<1> HIDE DEF f
<1>7. \A i \in 1..n : f[i] = i
  <2>1. \A i, j \in 1..n : i < j => f[i] < f[j]
    BY <1>6
  <2> QED
    BY <1>5, <2>1, IncreasingIsIdentity
<1>8. ASSUME NEW i \in 1..n PROVE results[order[i]] = <<i, g[i]>>
  <2>1. order[i] \in 1..n
    BY <1>1, <1>4
  <2>2. results[order[i]][1] = i
    BY <1>7 DEF f
  <2> QED
    BY <2>1, <2>2
<1>9. Batch!InOrder(results) = [i \in 1..n |-> results[order[i]]]
  BY <1>1, <1>2
<1>10. [i \in 1..n |-> results[order[i]]] = [i \in 1..n |-> <<i, g[i]>>]
  BY <1>8
<1> QED
  BY <1>9, <1>10 DEF InPlace

\* A list that holds every task once is as long as there are tasks.
LEMMA AsManyAsTasks ==
    ASSUME NEW n \in Nat, NEW R, NEW results \in Seq((1..n) \X R),
           \A k, l \in 1..Len(results) : k # l => results[k][1] # results[l][1],
           \A i \in 1..n : \E k \in 1..Len(results) : results[k][1] = i
    PROVE  Len(results) = n
<1> DEFINE places == 1..Len(results)
           key == [k \in places |-> results[k][1]]
<1>1. Len(results) \in Nat
  BY LenProperties
<1>2. \A k \in places : results[k][1] \in 1..n
  <2>1. \A k \in places : results[k] \in (1..n) \X R
    BY ElementOfSeq
  <2> QED
    BY <2>1
<1>3. key \in Bijection(places, 1..n)
  BY <1>2 DEF Bijection, Injection, Surjection, IsInjective
<1> HIDE DEF key
<1>4. ExistsBijection(places, 1..n)
  BY <1>3 DEF ExistsBijection
<1>5. IsFiniteSet(places) /\ Cardinality(places) = Len(results)
  <2>1. PICK m \in Nat : m = Len(results)
    BY <1>1
  <2>2. IsFiniteSet(1..m) /\ Cardinality(1..m) = m
    BY FS_Interval
  <2> QED
    BY <2>1, <2>2
<1>6. Cardinality(1..n) = n
  BY FS_Interval
<1> QED
  BY <1>4, <1>5, <1>6, FS_Bijection

\* What a child may do.
LEMMA ChildEnds ==
    ASSUME NEW i \in 1..MaxTasks, Batch!Child(i)
    PROVE  \E how \in {"answered", "failed", "panicked", "aborted"} :
             /\ Batch!Leaves(i, how) /\ (how = "aborted" => child[i] = "aborting")
             /\ UNCHANGED <<size, limit, depth, batch, next, collected, answer>>
<1>1. CASE Batch!Answers(i)
  BY <1>1 DEF Batch!Answers, Batch!config
<1>2. CASE Batch!Fails(i)
  BY <1>2 DEF Batch!Fails, Batch!config
<1>3. CASE Batch!Panics(i)
  BY <1>3 DEF Batch!Panics, Batch!config
<1>4. CASE Batch!StopsAtAwait(i)
  BY <1>4 DEF Batch!StopsAtAwait, Batch!config
<1> QED
  BY <1>1, <1>2, <1>3, <1>4 DEF Batch!Child

\* Children are counted.
LEMMA Countable ==
    ASSUME Batch!TypeOK
    PROVE  /\ size \in Nat /\ limit \in Nat /\ DOMAIN child = 1..size
           /\ Batch!Working \subseteq 1..size
           /\ IsFiniteSet(Batch!Working) /\ Cardinality(Batch!Working) \in Nat
<1>1. size \in Nat /\ limit \in Nat
  BY BatchAssumption DEF Batch!TypeOK
<1>2. DOMAIN child = 1..size /\ Batch!Working \subseteq 1..size
  BY DEF Batch!TypeOK, Batch!Working
<1>3. IsFiniteSet(1..size)
  BY <1>1, FS_Interval
<1> QED
  BY <1>1, <1>2, <1>3, FS_Subset, FS_CardinalityType

\* A child that ends gives its permit back; a new one has taken one; aborting changes nothing.
LEMMA WorkingMoves ==
    ASSUME Batch!TypeOK
    PROVE  /\ \A i \in 1..size : child[i] = "none" /\ child' = [child EXCEPT ![i] = "running"] =>
                (Cardinality(Batch!Working))' = Cardinality(Batch!Working) + 1
           /\ \A i \in 1..size : \A how \in {"answered", "failed", "panicked", "aborted"} :
                i \in Batch!Working /\ child' = [child EXCEPT ![i] = how] =>
                  /\ Cardinality(Batch!Working) \in Nat \ {0}
                  /\ (Cardinality(Batch!Working))' = Cardinality(Batch!Working) - 1
           /\ child' = child \/ child' = Batch!Aborted =>
                (Cardinality(Batch!Working))' = Cardinality(Batch!Working)
<1> USE DEF Batch!TypeOK, Batch!Fates
<1>0. IsFiniteSet(Batch!Working) /\ Cardinality(Batch!Working) \in Nat
  BY Countable
<1>1. ASSUME NEW i \in 1..size, child[i] = "none", child' = [child EXCEPT ![i] = "running"]
      PROVE  (Cardinality(Batch!Working))' = Cardinality(Batch!Working) + 1
  <2>1. Batch!Working' = Batch!Working \union {i} /\ i \notin Batch!Working
    BY <1>1 DEF Batch!Working
  <2> QED
    BY <1>0, <2>1, FS_AddElement
<1>2. ASSUME NEW i \in 1..size, NEW how \in {"answered", "failed", "panicked", "aborted"},
             i \in Batch!Working, child' = [child EXCEPT ![i] = how]
      PROVE  /\ Cardinality(Batch!Working) \in Nat \ {0}
             /\ (Cardinality(Batch!Working))' = Cardinality(Batch!Working) - 1
  <2>1. Batch!Working' = Batch!Working \ {i}
    BY <1>2 DEF Batch!Working
  <2>2. /\ Cardinality(Batch!Working \ {i}) = Cardinality(Batch!Working) - 1
        /\ IsFiniteSet(Batch!Working \ {i})
    BY <1>0, <1>2, FS_RemoveElement
  <2>3. Cardinality(Batch!Working \ {i}) \in Nat
    BY <2>2, FS_CardinalityType
  <2> QED
    BY <1>0, <2>1, <2>2, <2>3
<1>3. ASSUME child' = child \/ child' = Batch!Aborted
      PROVE  (Cardinality(Batch!Working))' = Cardinality(Batch!Working)
  <2>1. Batch!Working' = Batch!Working
    BY <1>3 DEF Batch!Working, Batch!Aborted
  <2> QED
    BY <2>1
<1> QED
  BY <1>1, <1>2, <1>3

\* When everything is joined, every task's result is there, once.
LEMMA AllCollected ==
    ASSUME Batch!TypeOK, TasksInTurn, Accounts, Batch!AllJoined
    PROVE  /\ \A i \in 1..size : child[i] \in {"answered", "failed"}
           /\ answer' = [i \in 1..size |-> <<i, child[i]>>]
<1> USE DEF Batch!TypeOK, Batch!Fates
<1>1. /\ batch = "joining" /\ joinable = <<>> /\ Batch!Working = {}
      /\ answer' = Batch!InOrder(collected)
  BY DEF Batch!AllJoined
<1>2. collected \in Seq((1..size) \X {"answered", "failed"}) /\ size \in Nat
  BY Countable
<1>3. ASSUME NEW i \in 1..size PROVE \E k \in 1..Len(collected) : collected[k][1] = i
  <2>1. child[i] # "none"
    BY <1>1, <1>2 DEF TasksInTurn
  <2>2. child[i] \in Settled
    <3>1. child[i] \notin {"running", "aborting"}
      BY <1>1, Countable DEF Batch!Working
    <3>2. child[i] \notin {"aborting", "aborted"}
      BY <1>1 DEF Accounts
    <3> QED
      BY <2>1, <3>1, <3>2 DEF Settled
  <2>3. ~Waits(i)
    BY <1>1, EmptySeq DEF Waits
  <2> QED
    BY <1>1, <2>2, <2>3 DEF Accounts, Joined
<1>4. Len(collected) = size
  <2>1. \A k, l \in 1..Len(collected) : k # l => collected[k][1] # collected[l][1]
    BY <1>1 DEF Accounts
  <2>2. PICK n \in Nat : n = size
    BY <1>2
  <2>3. PICK R : R = {"answered", "failed"}
    OBVIOUS
  <2>4. PICK c \in Seq((1..n) \X R) : c = collected
    BY <1>2, <2>2, <2>3
  <2>5. /\ \A k, l \in 1..Len(c) : k # l => c[k][1] # c[l][1]
        /\ \A i \in 1..n : \E k \in 1..Len(c) : c[k][1] = i
    BY <1>3, <2>1, <2>2, <2>4
  <2>6. Len(c) = n
    BY <2>5, AsManyAsTasks
  <2> QED
    BY <2>2, <2>4, <2>6
<1>5. ASSUME NEW k \in 1..size
      PROVE  /\ collected[k] = <<collected[k][1], child[collected[k][1]]>>
             /\ collected[k][2] \in {"answered", "failed"}
  <2>1. collected[k] \in (1..size) \X {"answered", "failed"}
    BY <1>2, <1>4, ElementOfSeq
  <2>2. child[collected[k][1]] = collected[k][2]
    BY <1>1, <1>4 DEF Accounts
  <2> QED
    BY <2>1, <2>2
<1>6. \A k, l \in 1..size : k # l => collected[k][1] # collected[l][1]
  BY <1>1, <1>4 DEF Accounts
<1>7. Batch!InOrder(collected) = [i \in 1..size |-> <<i, child[i]>>]
  <2> HIDE DEF Batch!TypeOK
  <2> QED
    <3>0. PICK n \in Nat : n = size
      BY <1>2
    <3>1. PICK results : results = collected
      OBVIOUS
    <3>2. PICK g : g = child
      OBVIOUS
    <3>3. DOMAIN results = 1..n
      BY <1>2, <1>4, <3>0, <3>1, LenProperties
    <3>4. /\ \A k \in 1..n : results[k][1] \in 1..n
          /\ \A k \in 1..n : results[k] = <<results[k][1], g[results[k][1]]>>
      <4>1. \A k \in 1..size : collected[k][1] \in 1..size
        BY <1>2, <1>4, ElementOfSeq
      <4> QED
        BY <1>5, <3>0, <3>1, <3>2, <4>1
    <3>5. /\ \A i \in 1..n : \E k \in 1..n : results[k][1] = i
          /\ \A k, l \in 1..n : k # l => results[k][1] # results[l][1]
      BY <1>3, <1>4, <1>6, <3>0, <3>1
    <3>6. Batch!InOrder(results) = InPlace(n, g)
      BY <3>3, <3>4, <3>5, SortedInPlace
    <3> QED
      BY <3>0, <3>1, <3>2, <3>6 DEF InPlace
<1>8. ASSUME NEW i \in 1..size PROVE child[i] \in {"answered", "failed"}
  <2>1. PICK k \in 1..size : collected[k][1] = i
    BY <1>3, <1>4
  <2>2. collected[k][2] = child[i]
    BY <1>1, <1>4, <2>1 DEF Accounts
  <2> QED
    BY <1>5, <2>2
<1> QED
  BY <1>1, <1>7, <1>8

\* A child that is working, and the list it gets on, when its task is over.
LEMMA LeavesEffect ==
    ASSUME NEW i \in 1..MaxTasks, NEW how \in {"answered", "failed", "panicked", "aborted"},
           Batch!TypeOK, Batch!Leaves(i, how)
    PROVE  /\ i \in 1..size /\ i \in Batch!Working /\ child[i] \in {"running", "aborting"}
           /\ child' = [child EXCEPT ![i] = how] /\ permits' = permits + 1
           /\ batch \in Batch!Ended => joinable' = joinable
           /\ batch \notin Batch!Ended => joinable' = Append(joinable, i)
BY Countable DEF Batch!Leaves, Batch!Working

\* The type invariant is kept.
LEMMA BatchType ==
    ASSUME Batch!TypeOK, PermitsKept, TasksInTurn, Accounts, Batch!Next
    PROVE  Batch!TypeOK'
<1> USE BatchAssumption DEF Batch!TypeOK, Batch!Fates, Batch!Ended
<1>0. /\ size \in Nat /\ limit \in Nat /\ permits \in Nat /\ next \in Nat
      /\ Cardinality(Batch!Working) \in Nat /\ permits + Cardinality(Batch!Working) = limit
  BY Countable DEF PermitsKept
<1>1. CASE Batch!Enter
  BY <1>1 DEF Batch!Enter, Batch!config
<1>2. CASE Batch!Spawn
  <2>1. /\ permits' \in 0..limit /\ next' \in 1..(size + 1) /\ next \in 1..size
    BY <1>0, <1>2 DEF Batch!Spawn
  <2>2. child' \in [1..size -> Batch!Fates]
    BY <1>2, <2>1 DEF Batch!Spawn
  <2> QED
    BY <1>2, <2>1, <2>2 DEF Batch!Spawn, Batch!config
<1>3. CASE Batch!AllSpawned
  BY <1>3 DEF Batch!AllSpawned, Batch!config
<1>4. ASSUME NEW i \in 1..MaxTasks, Batch!Child(i) PROVE Batch!TypeOK'
  <2>1. PICK how \in {"answered", "failed", "panicked", "aborted"} :
           /\ Batch!Leaves(i, how)
           /\ UNCHANGED <<size, limit, depth, batch, next, collected, answer>>
    BY <1>4, ChildEnds
  <2>2. /\ i \in 1..size /\ i \in Batch!Working /\ permits' = permits + 1
        /\ child' = [child EXCEPT ![i] = how]
        /\ joinable' = joinable \/ joinable' = Append(joinable, i)
    BY <2>1, LeavesEffect
  <2>3. permits' \in 0..limit
    <3>1. Cardinality(Batch!Working) \in Nat \ {0}
      BY <2>2, WorkingMoves
    <3> QED
      BY <1>0, <2>2, <3>1
  <2>4. joinable' \in Seq(1..size)
    <3>0. PICK T : T = 1..size
      OBVIOUS
    <3>1. PICK q \in Seq(T) : q = joinable
      BY <3>0
    <3>2. Append(q, i) \in Seq(T)
      BY <2>2, <3>0, AppendProperties
    <3> QED
      BY <2>2, <3>0, <3>1, <3>2
  <2>5. child' \in [1..size -> Batch!Fates]
    BY <2>2
  <2> QED
    BY <2>1, <2>3, <2>4, <2>5
<1>5. CASE Batch!Join
  <2>1. /\ Head(joinable) \in 1..size /\ Tail(joinable) \in Seq(1..size)
    BY <1>5, HeadTailProperties DEF Batch!Join
  <2>2. PICK i \in 1..size : i = Head(joinable)
    BY <2>1
  <2>3. \/ /\ child[i] \in {"answered", "failed"}
           /\ collected' = Append(collected, <<i, child[i]>>) /\ UNCHANGED <<batch, child>>
        \/ batch' = "failed" /\ child' = Batch!Aborted /\ UNCHANGED collected
    BY <1>5, <2>2 DEF Batch!Join
  <2>4. collected' \in Seq((1..size) \X {"answered", "failed"})
    <3>1. PICK T : T = (1..size) \X {"answered", "failed"}
      OBVIOUS
    <3>2. PICK q \in Seq(T) : q = collected
      BY <3>1
    <3>3. CASE child[i] \in {"answered", "failed"}
      <4>1. PICK r \in T : r = <<i, child[i]>>
        BY <3>1, <3>3
      <4>2. Append(q, r) \in Seq(T)
        BY AppendProperties
      <4> QED
        BY <2>3, <3>1, <3>2, <4>1, <4>2
    <3> QED
      BY <2>3, <3>3
  <2>5. child' \in [1..size -> Batch!Fates]
    BY <2>3 DEF Batch!Aborted
  <2> QED
    BY <1>5, <2>1, <2>3, <2>4, <2>5 DEF Batch!Join, Batch!config
<1>6. CASE Batch!AllJoined
  <2>1. /\ \A i \in 1..size : child[i] \in {"answered", "failed"}
        /\ answer' = [i \in 1..size |-> <<i, child[i]>>]
    BY <1>6, AllCollected
  <2>2. answer' \in Seq((1..size) \X {"answered", "failed"})
    <3>1. \A i \in 1..size : <<i, child[i]>> \in (1..size) \X {"answered", "failed"}
      BY <2>1
    <3>2. PICK n \in Nat : n = size
      BY <1>0
    <3>3. answer' \in [1..n -> (1..n) \X {"answered", "failed"}]
      BY <2>1, <3>1, <3>2
    <3> QED
      BY <3>2, <3>3, SeqDef
  <2> QED
    BY <1>6, <2>2 DEF Batch!AllJoined, Batch!config
<1>7. CASE Batch!Abandon
  BY <1>7 DEF Batch!Abandon, Batch!config, Batch!Aborted
<1>8. CASE Batch!Quiet
  BY <1>8 DEF Batch!Quiet, Batch!vars, Batch!config
<1> QED
  BY <1>1, <1>2, <1>3, <1>4, <1>5, <1>6, <1>7, <1>8 DEF Batch!Next, Batch!Parent

\* PermitsKept is kept: what a child took it gives back when it ends.
LEMMA BatchPermits ==
    ASSUME Batch!TypeOK, PermitsKept, TasksInTurn, Batch!Next
    PROVE  PermitsKept'
<1> DEFINE W == Cardinality(Batch!Working)
<1>0. /\ size \in Nat /\ limit \in Nat /\ permits \in Nat /\ next \in Nat
      /\ W \in Nat /\ permits + W = limit
  BY Countable DEF PermitsKept, Batch!TypeOK
<1>1. ASSUME child' = child \/ child' = Batch!Aborted, permits' = permits, limit' = limit
      PROVE  PermitsKept'
  <2>1. W' = W
    BY <1>1, WorkingMoves
  <2> QED
    BY <1>0, <1>1, <2>1 DEF PermitsKept
<1>2. CASE Batch!Spawn
  <2>1. /\ next \in 1..size /\ permits' = permits - 1 /\ limit' = limit
        /\ child' = [child EXCEPT ![next] = "running"]
    BY <1>0, <1>2 DEF Batch!Spawn, Batch!config, Batch!TypeOK
  <2>2. child[next] = "none"
    BY <1>0, <2>1 DEF TasksInTurn
  <2>3. W' = W + 1
    BY <2>1, <2>2, WorkingMoves
  <2> QED
    BY <1>0, <2>1, <2>3 DEF PermitsKept
<1>3. ASSUME NEW i \in 1..MaxTasks, Batch!Child(i) PROVE PermitsKept'
  <2>1. PICK how \in {"answered", "failed", "panicked", "aborted"} :
           /\ Batch!Leaves(i, how)
           /\ UNCHANGED <<size, limit, depth, batch, next, collected, answer>>
    BY <1>3, ChildEnds
  <2>2. /\ i \in 1..size /\ i \in Batch!Working /\ permits' = permits + 1
        /\ child' = [child EXCEPT ![i] = how] /\ limit' = limit
    BY <2>1, LeavesEffect
  <2>3. W \in Nat \ {0} /\ W' = W - 1
    BY <2>2, WorkingMoves
  <2> QED
    BY <1>0, <2>2, <2>3 DEF PermitsKept
<1>4. CASE Batch!Enter \/ Batch!AllSpawned
  BY <1>4, <1>1 DEF Batch!Enter, Batch!AllSpawned, Batch!config
<1>5. CASE Batch!Join
  <2>1. /\ child' = child \/ child' = Batch!Aborted
        /\ permits' = permits /\ limit' = limit
    BY <1>5 DEF Batch!Join, Batch!config
  <2> QED
    BY <1>1, <2>1
<1>6. CASE Batch!AllJoined \/ Batch!Abandon
  BY <1>6, <1>1 DEF Batch!AllJoined, Batch!Abandon, Batch!config
<1>7. CASE Batch!Quiet
  BY <1>7, <1>1 DEF Batch!Quiet, Batch!vars, Batch!config
<1> QED
  BY <1>2, <1>3, <1>4, <1>5, <1>6, <1>7 DEF Batch!Next, Batch!Parent

\* TasksInTurn is kept.
LEMMA BatchTurns ==
    ASSUME Batch!TypeOK, TasksInTurn, Batch!Next
    PROVE  TasksInTurn'
<1> USE DEF TasksInTurn
<1>0. /\ size \in Nat /\ next \in 1..(size + 1) /\ DOMAIN child = 1..size
      /\ batch \in {"called", "spawning", "joining"} \union Batch!Ended
  BY Countable DEF Batch!TypeOK
<1>1. ASSUME UNCHANGED <<size, next>>,
             batch' \notin {"called", "joining"} \/ batch' = batch,
             \A i \in 1..size : child'[i] = "none" <=> child[i] = "none"
      PROVE  TasksInTurn'
  BY <1>0, <1>1
<1>2. CASE Batch!Enter
  BY <1>2, <1>1 DEF Batch!Enter, Batch!config
<1>3. CASE Batch!Spawn
  <2>1. /\ next \in 1..size /\ next' = next + 1 /\ size' = size /\ batch' = "spawning"
        /\ child' = [child EXCEPT ![next] = "running"]
    BY <1>0, <1>3 DEF Batch!Spawn, Batch!config
  <2>2. ASSUME NEW i \in 1..size PROVE i >= next + 1 <=> child'[i] = "none"
    <3>1. CASE i = next
      BY <1>0, <2>1, <3>1
    <3>2. CASE i # next
      <4>1. child'[i] = child[i]
        BY <1>0, <2>1, <3>2
      <4>2. i >= next <=> i >= next + 1
        BY <1>0, <2>1, <3>2
      <4> QED
        BY <4>1, <4>2
    <3> QED
      BY <3>1, <3>2
  <2> QED
    BY <2>1, <2>2
<1>4. CASE Batch!AllSpawned
  <2>1. next = size + 1 /\ UNCHANGED <<size, next, child>> /\ batch' = "joining"
    BY <1>0, <1>4 DEF Batch!AllSpawned, Batch!config
  <2> QED
    BY <2>1
<1>5. ASSUME NEW i \in 1..MaxTasks, Batch!Child(i) PROVE TasksInTurn'
  <2>1. PICK how \in {"answered", "failed", "panicked", "aborted"} :
           /\ Batch!Leaves(i, how)
           /\ UNCHANGED <<size, limit, depth, batch, next, collected, answer>>
    BY <1>5, ChildEnds
  <2>2. /\ i \in 1..size /\ child[i] # "none"
        /\ child' = [child EXCEPT ![i] = how]
    BY <2>1, LeavesEffect
  <2>3. \A j \in 1..size : child'[j] = "none" <=> child[j] = "none"
    BY <1>0, <2>2
  <2> QED
    BY <1>1, <2>1, <2>3
<1>6. CASE Batch!Join
  <2>1. /\ UNCHANGED <<size, next>> /\ batch' \in {batch, "failed"}
        /\ child' = child \/ child' = Batch!Aborted
    BY <1>6 DEF Batch!Join, Batch!config
  <2>2. \A j \in 1..size : child'[j] = "none" <=> child[j] = "none"
    BY <1>0, <2>1 DEF Batch!Aborted
  <2> QED
    BY <1>1, <2>1, <2>2
<1>7. CASE Batch!AllJoined
  BY <1>7, <1>1 DEF Batch!AllJoined, Batch!config
<1>8. CASE Batch!Abandon
  BY <1>8, <1>1, <1>0 DEF Batch!Abandon, Batch!config, Batch!Aborted
<1>9. CASE Batch!Quiet
  BY <1>9, <1>1 DEF Batch!Quiet, Batch!vars, Batch!config
<1> QED
  BY <1>2, <1>3, <1>4, <1>5, <1>6, <1>7, <1>8, <1>9 DEF Batch!Next, Batch!Parent

\* A batch that ends well has every result in its place, and only a panic fails one.
LEMMA BatchBestEffort ==
    ASSUME Batch!TypeOK, TasksInTurn, Accounts, Batch!BestEffort, Batch!Next
    PROVE  Batch!BestEffort'
<1> USE DEF Batch!BestEffort
<1>0. /\ size \in Nat /\ size \in 0..MaxTasks /\ DOMAIN child = 1..size
      /\ joinable \in Seq(1..size)
  BY Countable DEF Batch!TypeOK
<1>1. CASE Batch!Enter
  <2>1. UNCHANGED size /\ (batch' = "ok" => size = 0) /\ batch' # "failed"
    BY <1>0, <1>1 DEF Batch!Enter, Batch!config
  <2> QED
    BY <1>0, <2>1
<1>2. CASE Batch!Spawn \/ Batch!AllSpawned \/ Batch!Abandon
  <2>1. batch' \in {"spawning", "joining", "dropped"}
    BY <1>2 DEF Batch!Spawn, Batch!AllSpawned, Batch!Abandon
  <2> QED
    BY <2>1
<1>3. ASSUME NEW i \in 1..MaxTasks, Batch!Child(i) PROVE Batch!BestEffort'
  <2>1. PICK how \in {"answered", "failed", "panicked", "aborted"} :
           /\ Batch!Leaves(i, how)
           /\ UNCHANGED <<size, limit, depth, batch, next, collected, answer>>
    BY <1>3, ChildEnds
  <2>2. /\ i \in 1..size /\ i \in Batch!Working /\ child[i] \in {"running", "aborting"}
        /\ child' = [child EXCEPT ![i] = how]
    BY <2>1, LeavesEffect
  <2>3. ~(batch = "ok" /\ size > 0)
    BY <2>2
  <2>4. (\E j \in DOMAIN child : child[j] = "panicked") => \E j \in DOMAIN child' : child'[j] = "panicked"
    BY <1>0, <2>2
  <2> QED
    BY <2>1, <2>3, <2>4
<1>4. CASE Batch!Join
  <2>1. batch = "joining" /\ joinable # <<>>
    BY <1>4 DEF Batch!Join
  <2>2. PICK i \in 1..size : i = Head(joinable)
    BY <1>0, <2>1, HeadTailProperties
  <2>3. child[i] \in Settled
    <3>1. i = joinable[1] /\ 1 \in 1..Len(joinable)
      BY <1>0, <2>1, <2>2, HeadTailProperties, LenProperties, EmptySeq
    <3> QED
      BY <2>1, <3>1 DEF Accounts
  <2>4. \/ UNCHANGED <<batch, child>>
        \/ /\ batch' = "failed" /\ child' = Batch!Aborted
           /\ child[i] \notin {"answered", "failed"}
    BY <1>4, <2>2 DEF Batch!Join
  <2>5. CASE UNCHANGED <<batch, child>>
    BY <2>1, <2>5
  <2>6. CASE /\ batch' = "failed" /\ child' = Batch!Aborted
             /\ child[i] \notin {"answered", "failed"}
    <3>1. child[i] = "panicked"
      BY <2>3, <2>6 DEF Settled
    <3>2. i \in DOMAIN child' /\ child'[i] = "panicked"
      BY <1>0, <2>6, <3>1 DEF Batch!Aborted
    <3> QED
      BY <2>6, <3>2
  <2> QED
    BY <2>4, <2>5, <2>6
<1>5. CASE Batch!AllJoined
  <2>1. answer' = [i \in 1..size |-> <<i, child[i]>>]
    BY <1>5, AllCollected
  <2>2. batch' = "ok" /\ UNCHANGED <<size, child>> /\ Batch!Working = {}
    BY <1>5 DEF Batch!AllJoined, Batch!config
  <2>3. (Batch!Working)' = {}
    BY <2>2 DEF Batch!Working
  <2> QED
    BY <2>1, <2>2, <2>3
<1>6. CASE Batch!Quiet
  BY <1>6 DEF Batch!Quiet, Batch!vars, Batch!config, Batch!Working
<1> QED
  BY <1>1, <1>2, <1>3, <1>4, <1>5, <1>6 DEF Batch!Next, Batch!Parent

\* What is put at the end of a list.
LEMMA Appended ==
    ASSUME NEW S, NEW q \in Seq(S), NEW x \in S
    PROVE  /\ Len(q) \in Nat /\ Len(Append(q, x)) = Len(q) + 1
           /\ \A k \in 1..(Len(q) + 1) :
                \/ k \in 1..Len(q) /\ Append(q, x)[k] = q[k]
                \/ k = Len(q) + 1 /\ Append(q, x)[k] = x
           /\ \A k \in 1..Len(q) : k \in 1..(Len(q) + 1) /\ Append(q, x)[k] = q[k]
           /\ Len(q) + 1 \in 1..(Len(q) + 1) /\ Append(q, x)[Len(q) + 1] = x
<1>1. Len(q) \in Nat
  BY LenProperties
<1> QED
  BY <1>1, AppendProperties

\* The list that is left when its head is taken.
LEMMA Taken ==
    ASSUME NEW S, NEW q \in Seq(S), q # <<>>
    PROVE  /\ Len(q) \in Nat \ {0} /\ Len(Tail(q)) = Len(q) - 1
           /\ 1 \in 1..Len(q) /\ Head(q) = q[1]
           /\ \A k \in 1..(Len(q) - 1) : k + 1 \in 1..Len(q) /\ k + 1 # 1 /\ Tail(q)[k] = q[k + 1]
           /\ \A k \in 1..Len(q) : k # 1 => k - 1 \in 1..(Len(q) - 1) /\ Tail(q)[k - 1] = q[k]
<1>1. Len(q) \in Nat \ {0}
  BY LenProperties, EmptySeq
<1>2. /\ Len(Tail(q)) = Len(q) - 1 /\ Tail(q) \in Seq(S)
      /\ \A k \in 1..Len(Tail(q)) : Tail(q)[k] = q[k + 1]
  BY HeadTailProperties
<1>3. Head(q) = q[1]
  BY HeadTailProperties
<1> QED
  BY <1>1, <1>2, <1>3

\* What the two lists of run_batch hold.
LEMMA ListedFacts ==
    ASSUME Batch!TypeOK
    PROVE  /\ \A k \in 1..Len(collected) :
                collected[k][1] \in 1..size /\ collected[k][2] \in {"answered", "failed"}
           /\ \A k \in 1..Len(joinable) : joinable[k] \in 1..size
<1>1. PICK T : T = 1..size
  OBVIOUS
<1>2. PICK R : R = T \X {"answered", "failed"}
  OBVIOUS
<1>3. PICK q \in Seq(T) : q = joinable
  BY <1>1 DEF Batch!TypeOK
<1>4. PICK c \in Seq(R) : c = collected
  BY <1>1, <1>2 DEF Batch!TypeOK
<1>5. \A k \in 1..Len(q) : q[k] \in T
  BY ElementOfSeq
<1>6. \A k \in 1..Len(c) : c[k] \in R
  BY ElementOfSeq
<1> QED
  BY <1>1, <1>2, <1>3, <1>4, <1>5, <1>6

\* A child's result is new to the parent when its task is over.
LEMMA NotYetJoined ==
    ASSUME Batch!TypeOK, Accounts, batch \in {"called", "spawning", "joining"},
           NEW i \in 1..size, child[i] \notin Settled
    PROVE  ~Joined(i) /\ ~Waits(i)
<1>1. \A k \in 1..Len(collected) : collected[k][2] \in {"answered", "failed"}
  BY ElementOfSeq DEF Batch!TypeOK
<1> QED
  BY <1>1 DEF Accounts, Joined, Waits, Settled

\* Accounts is kept where no task ends and nothing is joined.
LEMMA AccountsKept ==
    ASSUME Batch!TypeOK, Accounts, UNCHANGED <<size, collected, joinable>>,
           batch' \in {"called", "spawning", "joining"} => batch \in {"called", "spawning", "joining"},
           \A i \in 1..size : /\ child'[i] # child[i] => child'[i] \notin Settled /\ child[i] \notin Settled
                              /\ child'[i] # child[i] => child'[i] \notin {"aborting", "aborted"}
    PROVE  Accounts'
<1> SUFFICES ASSUME batch' \in {"called", "spawning", "joining"} PROVE Accounts'
  <2>1. batch' \notin {"called", "spawning", "joining"} => Accounts'
    BY Zenon DEF Accounts
  <2> QED
    BY <2>1
<1>1. /\ \A k \in 1..Len(collected) : collected[k][1] \in 1..size /\ collected[k][2] \in {"answered", "failed"}
      /\ \A k \in 1..Len(joinable) : joinable[k] \in 1..size
  BY ListedFacts
<1>2. \A i : (Joined(i))' = Joined(i) /\ (Waits(i))' = Waits(i)
  BY DEF Joined, Waits
<1>3. \A i \in 1..size : child[i] \in Settled \/ child'[i] \in Settled => child'[i] = child[i]
  OBVIOUS
<1>4. \A k \in 1..Len(collected') : child'[collected'[k][1]] = collected'[k][2]
  BY <1>1, <1>3 DEF Accounts, Settled
<1>5. \A k \in 1..Len(joinable') : child'[joinable'[k]] \in Settled /\ ~(Joined(joinable[k]))'
  BY <1>1, <1>2, <1>3 DEF Accounts
<1>6. \A i \in 1..size' : child'[i] \in Settled => (Joined(i))' \/ (Waits(i))'
  BY <1>2, <1>3 DEF Accounts
<1>7. \A i \in 1..size' : child'[i] \notin {"aborting", "aborted"}
  BY DEF Accounts
<1> QED
  BY <1>4, <1>5, <1>6, <1>7 DEF Accounts, Joined

\* A child that ends waits to be joined.
LEMMA AccountsOfAnEnd ==
    ASSUME Batch!TypeOK, Accounts, NEW i \in 1..MaxTasks, Batch!Child(i)
    PROVE  Accounts'
<1> DEFINE Live == {"called", "spawning", "joining"}
<1>1. PICK how \in {"answered", "failed", "panicked", "aborted"} :
           /\ Batch!Leaves(i, how) /\ (how = "aborted" => child[i] = "aborting")
           /\ UNCHANGED <<size, limit, depth, batch, next, collected, answer>>
  BY ChildEnds
<1>2. /\ i \in 1..size /\ child[i] \in {"running", "aborting"}
      /\ child' = [child EXCEPT ![i] = how]
      /\ batch \notin Batch!Ended => joinable' = Append(joinable, i)
  BY <1>1, LeavesEffect
<1> SUFFICES ASSUME batch \in Live PROVE Accounts'
  BY <1>1 DEF Accounts
<1>3. joinable' = Append(joinable, i)
  BY <1>2 DEF Batch!Ended
<1>4. how \in Settled /\ child[i] \notin Settled /\ child'[i] = how
  BY <1>1, <1>2 DEF Accounts, Settled, Batch!TypeOK
<1>5. ~Joined(i) /\ ~Waits(i)
  BY <1>2, <1>4, NotYetJoined
<1>6. \A j \in 1..size : j # i => child'[j] = child[j]
  BY <1>2 DEF Batch!TypeOK
<1>7. \A j : (Joined(j))' = Joined(j)
  BY <1>1 DEF Joined
<1>8. PICK T : T = 1..size
  OBVIOUS
<1>9. PICK q \in Seq(T) : q = joinable
  BY <1>8 DEF Batch!TypeOK
<1>10. PICK n : n = Len(q)
  OBVIOUS
<1>11. /\ n \in Nat /\ Len(joinable') = n + 1
       /\ \A k \in 1..(n + 1) : \/ k \in 1..n /\ joinable'[k] = joinable[k]
                                \/ k = n + 1 /\ joinable'[k] = i
       /\ \A k \in 1..n : k \in 1..(n + 1) /\ joinable'[k] = joinable[k]
       /\ n + 1 \in 1..(n + 1) /\ joinable'[n + 1] = i
  BY <1>2, <1>3, <1>8, <1>9, <1>10, Appended
<1>12. /\ \A k \in 1..n : /\ joinable[k] \in 1..size /\ child[joinable[k]] \in Settled
                          /\ joinable[k] # i /\ ~Joined(joinable[k])
       /\ \A k, l \in 1..n : k # l => joinable[k] # joinable[l]
  BY <1>4, <1>9, <1>10, ElementOfSeq DEF Accounts, Batch!TypeOK
<1>13. \A k, l \in 1..(n + 1) : k # l => joinable'[k] # joinable'[l]
  BY <1>11, <1>12
<1>14. \A k \in 1..(n + 1) : child'[joinable'[k]] \in Settled /\ ~(Joined(joinable[k]))' /\ ~Joined(joinable'[k])
  <2> TAKE k \in 1..(n + 1)
  <2>1. CASE k \in 1..n /\ joinable'[k] = joinable[k]
    BY <1>6, <1>7, <1>12, <2>1
  <2>2. CASE k = n + 1 /\ joinable'[k] = i
    BY <1>4, <1>5, <1>7, <2>2
  <2> QED
    BY <1>11, <2>1, <2>2
<1>15. ASSUME NEW j \in 1..size, child'[j] \in Settled PROVE (Joined(j))' \/ (Waits(j))'
  <2>1. CASE j = i
    BY <1>11, <2>1 DEF Waits
  <2>2. CASE j # i
    <3>1. Joined(j) \/ Waits(j)
      BY <1>6, <1>15, <2>2 DEF Accounts
    <3>2. Waits(j) => (Waits(j))'
      BY <1>9, <1>10, <1>11 DEF Waits
    <3> QED
      BY <1>7, <3>1, <3>2
  <2> QED
    BY <2>1, <2>2
<1>16. \A k \in 1..Len(collected') : child'[collected'[k][1]] = collected'[k][2]
  <2>1. \A k \in 1..Len(collected) : collected[k][1] \in 1..size /\ collected[k][1] # i
    BY <1>5, ElementOfSeq DEF Joined, Batch!TypeOK
  <2> QED
    BY <1>1, <1>6, <2>1 DEF Accounts
<1>17. \A j \in 1..size' : child'[j] \notin {"aborting", "aborted"}
  BY <1>1, <1>4, <1>6 DEF Accounts, Settled
<1>18. \A k, l \in 1..Len(collected') : k # l => collected'[k][1] # collected'[l][1]
  BY <1>1 DEF Accounts
<1> QED
  BY <1>1, <1>11, <1>13, <1>14, <1>15, <1>16, <1>17, <1>18 DEF Accounts, Joined

\* A child that is joined waits no more, and its result is collected.
LEMMA AccountsOfAJoin ==
    ASSUME Batch!TypeOK, Accounts, Batch!Join
    PROVE  Accounts'
<1> SUFFICES ASSUME batch' = "joining" PROVE Accounts'
  <2>1. batch' \in {"joining", "failed"}
    BY DEF Batch!Join
  <2> QED
    BY Zenon, <2>1 DEF Accounts
<1>1. PICK T : T = 1..size
  OBVIOUS
<1>2. PICK q \in Seq(T) : q = joinable
  BY <1>1 DEF Batch!TypeOK
<1>3. /\ q # <<>> /\ joinable' = Tail(q) /\ batch = "joining" /\ size' = size
  BY <1>2 DEF Batch!Join, Batch!config
<1>4. PICK n : n = Len(q)
  OBVIOUS
<1>5. /\ n \in Nat \ {0} /\ Len(joinable') = n - 1 /\ 1 \in 1..n /\ Head(q) = joinable[1]
      /\ \A k \in 1..(n - 1) : k + 1 \in 1..n /\ k + 1 # 1 /\ joinable'[k] = joinable[k + 1]
      /\ \A k \in 1..n : k # 1 => k - 1 \in 1..(n - 1) /\ joinable'[k - 1] = joinable[k]
  BY <1>2, <1>3, <1>4, Taken
<1>6. PICK i : i = joinable[1]
  OBVIOUS
<1>7. /\ \A k \in 1..n : /\ joinable[k] \in 1..size /\ child[joinable[k]] \in Settled
                         /\ ~Joined(joinable[k])
      /\ \A k, l \in 1..n : k # l => joinable[k] # joinable[l]
      /\ i \in 1..size
  BY <1>2, <1>3, <1>4, <1>5, <1>6, ElementOfSeq DEF Accounts, Batch!TypeOK
<1>8. /\ child[i] \in {"answered", "failed"} /\ child' = child
      /\ collected' = Append(collected, <<i, child[i]>>)
  <2>1. i = Head(joinable)
    BY <1>2, <1>5, <1>6
  <2> QED
    BY <1>3, <2>1 DEF Batch!Join
<1>9. PICK R : R = (1..size) \X {"answered", "failed"}
  OBVIOUS
<1>10. PICK c \in Seq(R) : c = collected
  BY <1>9 DEF Batch!TypeOK
<1>11. PICK r \in R : r = <<i, child[i]>>
  BY <1>7, <1>8, <1>9
<1>12. PICK m : m = Len(c)
  OBVIOUS
<1>13. /\ m \in Nat /\ Len(collected') = m + 1
       /\ \A k \in 1..(m + 1) : \/ k \in 1..m /\ collected'[k] = collected[k]
                                \/ k = m + 1 /\ collected'[k] = <<i, child[i]>>
       /\ \A k \in 1..m : k \in 1..(m + 1) /\ collected'[k] = collected[k]
       /\ m + 1 \in 1..(m + 1) /\ collected'[m + 1] = <<i, child[i]>>
  BY <1>8, <1>10, <1>11, <1>12, Appended
<1>14. /\ \A k \in 1..m : child[collected[k][1]] = collected[k][2] /\ collected[k][1] # i
       /\ \A k, l \in 1..m : k # l => collected[k][1] # collected[l][1]
  <2>1. ~Joined(i)
    BY <1>5, <1>6, <1>7
  <2> QED
    BY <1>3, <1>10, <1>12, <2>1 DEF Accounts, Joined
<1>15. \A j : (Joined(j))' <=> Joined(j) \/ j = i
  <2> TAKE j
  <2>1. Joined(j) => (Joined(j))'
    BY <1>10, <1>12, <1>13 DEF Joined
  <2>2. (Joined(i))'
    BY <1>13 DEF Joined
  <2>3. (Joined(j))' => Joined(j) \/ j = i
    BY <1>10, <1>12, <1>13 DEF Joined
  <2> QED
    BY <2>1, <2>2, <2>3
<1>16. \A j \in 1..size' : child'[j] \notin {"aborting", "aborted"}
  BY <1>3, <1>8 DEF Accounts
<1>17. \A k \in 1..Len(collected') : child'[collected'[k][1]] = collected'[k][2]
  BY <1>8, <1>13, <1>14
<1>18. \A k, l \in 1..Len(collected') : k # l => collected'[k][1] # collected'[l][1]
  BY <1>13, <1>14
<1>19. \A k, l \in 1..Len(joinable') : k # l => joinable'[k] # joinable'[l]
  <2> TAKE k, l \in 1..Len(joinable')
  <2>1. k + 1 \in 1..n /\ l + 1 \in 1..n /\ (k # l => k + 1 # l + 1)
    BY <1>5
  <2>2. joinable'[k] = joinable[k + 1] /\ joinable'[l] = joinable[l + 1]
    BY <1>5
  <2> QED
    BY <1>7, <2>1, <2>2
<1>20. ASSUME NEW k \in 1..Len(joinable')
       PROVE  child'[joinable'[k]] \in Settled /\ ~(Joined(joinable[k]))'
  <2>1. k + 1 \in 1..n /\ k + 1 # 1 /\ joinable'[k] = joinable[k + 1]
    BY <1>5
  <2>2. joinable[k + 1] # i
    BY <1>5, <1>6, <1>7, <2>1
  <2> QED
    BY <1>7, <1>8, <1>15, <2>1, <2>2
<1>21. ASSUME NEW j \in 1..size', child'[j] \in Settled PROVE (Joined(j))' \/ (Waits(j))'
  <2>1. Joined(j) \/ Waits(j)
    BY <1>3, <1>8, <1>21 DEF Accounts
  <2>2. ASSUME Waits(j), j # i PROVE (Waits(j))'
    <3>1. PICK k \in 1..n : joinable[k] = j
      BY <1>2, <1>4, <2>2 DEF Waits
    <3>2. k # 1
      BY <1>6, <2>2, <3>1
    <3>3. k - 1 \in 1..Len(joinable') /\ joinable'[k - 1] = j
      BY <1>5, <3>1, <3>2
    <3> QED
      BY <3>3 DEF Waits
  <2> QED
    BY <1>15, <2>1, <2>2
<1> QED
  BY <1>16, <1>17, <1>18, <1>19, <1>20, <1>21 DEF Accounts, Joined

\* Accounts is kept.
LEMMA BatchAccounts ==
    ASSUME Batch!TypeOK, TasksInTurn, Accounts, Batch!Next
    PROVE  Accounts'
<1>0. /\ size \in Nat /\ DOMAIN child = 1..size /\ child \in [1..size -> Batch!Fates]
      /\ batch \in {"called", "spawning", "joining"} \union Batch!Ended
  BY Countable DEF Batch!TypeOK
<1>1. CASE Batch!Enter
  <2>1. batch = "called" /\ UNCHANGED <<size, child, collected, joinable>>
    BY <1>1 DEF Batch!Enter, Batch!config
  <2> QED
    BY <1>0, <2>1, AccountsKept
<1>2. CASE Batch!Spawn
  <2>1. /\ batch = "spawning" /\ next \in 1..size /\ UNCHANGED <<size, collected, joinable>>
        /\ child' = [child EXCEPT ![next] = "running"]
    BY <1>0, <1>2 DEF Batch!Spawn, Batch!config, Batch!TypeOK
  <2>2. child[next] = "none"
    BY <2>1 DEF TasksInTurn, Batch!TypeOK
  <2>3. \A i \in 1..size : child'[i] # child[i] => child'[i] = "running" /\ child[i] = "none"
    BY <1>0, <2>1, <2>2
  <2> QED
    BY <2>1, <2>3, AccountsKept DEF Settled
<1>3. CASE Batch!AllSpawned
  <2>1. batch = "spawning" /\ UNCHANGED <<size, child, collected, joinable>>
    BY <1>3 DEF Batch!AllSpawned, Batch!config
  <2> QED
    BY <1>0, <2>1, AccountsKept
<1>4. ASSUME NEW i \in 1..MaxTasks, Batch!Child(i) PROVE Accounts'
  BY <1>4, AccountsOfAnEnd
<1>5. CASE Batch!Join
  BY <1>5, AccountsOfAJoin
<1>6. CASE Batch!AllJoined \/ Batch!Abandon
  <2>1. batch' \notin {"called", "spawning", "joining"}
    BY <1>6 DEF Batch!AllJoined, Batch!Abandon
  <2> QED
    BY Zenon, <2>1 DEF Accounts
<1>7. CASE Batch!Quiet
  <2>1. UNCHANGED <<batch, size, child, collected, joinable>>
    BY <1>7 DEF Batch!Quiet, Batch!vars, Batch!config
  <2> QED
    BY <1>0, <2>1, AccountsKept
<1> QED
  BY <1>1, <1>2, <1>3, <1>4, <1>5, <1>6, <1>7 DEF Batch!Next, Batch!Parent

\* A batch starts with every permit free and no child.
LEMMA BatchInit == Batch!Init => BatchInv
<1> SUFFICES ASSUME Batch!Init PROVE BatchInv
  OBVIOUS
<1>0. /\ size \in Nat /\ limit \in Nat \ {0} /\ batch = "called" /\ next = 1 /\ permits = limit
      /\ child = [i \in 1..size |-> "none"] /\ joinable = <<>> /\ collected = <<>> /\ answer = <<>>
  BY BatchAssumption DEF Batch!Init
<1>1. Batch!TypeOK
  <2>1. \A S : <<>> \in Seq(S)
    BY EmptySeq
  <2>2. child \in [1..size -> Batch!Fates] /\ permits \in 0..limit /\ next \in 1..(size + 1)
    BY <1>0 DEF Batch!Fates
  <2> QED
    BY <1>0, <2>1, <2>2 DEF Batch!Init, Batch!TypeOK
<1>2. PermitsKept
  <2>1. Batch!Working = {}
    BY <1>0 DEF Batch!Working
  <2> QED
    BY <1>0, <2>1, FS_EmptySet DEF PermitsKept
<1>3. TasksInTurn
  BY <1>0 DEF TasksInTurn
<1>4. Accounts
  <2>1. Len(collected) = 0 /\ Len(joinable) = 0
    BY <1>0, EmptySeq
  <2>2. \A i \in 1..size : child[i] = "none"
    BY <1>0
  <2> QED
    BY <2>1, <2>2 DEF Accounts, Settled
<1>5. Batch!BestEffort
  BY <1>0 DEF Batch!BestEffort
<1> QED
  BY <1>1, <1>2, <1>3, <1>4, <1>5 DEF BatchInv

\* A step of the batch, or of something else, keeps its invariant.
LEMMA BatchStep == BatchInv /\ [Batch!Next]_(Batch!vars) => BatchInv'
<1>1. ASSUME BatchInv, Batch!Next PROVE BatchInv'
  BY <1>1, BatchType, BatchPermits, BatchTurns, BatchAccounts, BatchBestEffort DEF BatchInv
<1>2. ASSUME BatchInv, UNCHANGED Batch!vars PROVE BatchInv'
  <2>1. UNCHANGED <<size, limit, depth, batch, next, permits, child, joinable, collected, answer>>
    BY <1>2 DEF Batch!vars, Batch!config
  <2>2. Batch!TypeOK' /\ TasksInTurn' /\ (Batch!Working)' = Batch!Working
    BY <1>2, <2>1 DEF BatchInv, Batch!TypeOK, TasksInTurn, Batch!Working
  <2>3. PermitsKept' /\ Batch!BestEffort'
    BY <1>2, <2>1, <2>2 DEF BatchInv, PermitsKept, Batch!BestEffort
  <2>4. Accounts'
    BY <1>2, <2>1, AccountsKept DEF BatchInv
  <2> QED
    BY <2>2, <2>3, <2>4 DEF BatchInv
<1> QED
  BY <1>1, <1>2

\* The inductive invariant of a batch holds in every state.
LEMMA BatchInvariance == Batch!Spec => []BatchInv
BY BatchStep, BatchInit, PTL DEF Batch!Spec

\* No more children work than permits were taken.
LEMMA BatchSuffices == BatchInv => BatchIsRight
<1> SUFFICES ASSUME BatchInv PROVE BatchIsRight
  OBVIOUS
<1>1. Cardinality(Batch!Working) <= limit
  <2>1. /\ limit \in Nat /\ permits \in Nat /\ Cardinality(Batch!Working) \in Nat
        /\ permits + Cardinality(Batch!Working) = limit
    BY Countable DEF BatchInv, PermitsKept, Batch!TypeOK
  <2> QED
    BY <2>1
<1>2. Batch!Bounded
  BY <1>1 DEF Batch!Bounded, Batch!Cardinality, Cardinality
<1> QED
  BY <1>2 DEF BatchInv, BatchIsRight, Batch!BatchIsRight

(***************************************************************************)
(* A batch of child agents runs no more of them at once than it may,       *)
(* returns every task's own result in its place, and fails only when a     *)
(* child panics, however many tasks and permits there are (run_batch of    *)
(* delegate.rs).                                                           *)
(***************************************************************************)
THEOREM BatchIsDone == Batch!Spec => []BatchIsRight
BY BatchSuffices, BatchInvariance, PTL

-------------------------------------------------------------------------------
(* All three *)

(***************************************************************************)
(* In the specification that runs one of the three, too, the batch is      *)
(* right and mail arrives: the parts at rest satisfy the same invariants.  *)
(***************************************************************************)
THEOREM PartsAreRight == PartsSpec => [](BatchIsRight /\ MailArrives)
<1> DEFINE Both == BatchInv /\ TopicInv
<1>1. PartsInit => Both
  <2>1. NoBatch => BatchInv
    <3> SUFFICES ASSUME NoBatch PROVE BatchInv
      OBVIOUS
    <3>1. /\ size = 0 /\ limit = 1 /\ depth = 1 /\ batch = "ok" /\ next = 1 /\ permits = 1
          /\ child = <<>> /\ joinable = <<>> /\ collected = <<>> /\ answer = <<>>
      BY DEF NoBatch
    <3>2. Batch!TypeOK
      <4>1. \A S : <<>> \in Seq(S)
        BY EmptySeq
      <4>2. child \in [1..size -> Batch!Fates]
        BY <3>1
      <4> QED
        BY <3>1, <4>1, <4>2, BatchAssumption DEF Batch!TypeOK, Batch!Ended, Batch!MAX_DEPTH
    <3>3. PermitsKept
      <4>1. Batch!Working = {}
        BY <3>1 DEF Batch!Working
      <4> QED
        BY <3>1, <4>1, FS_EmptySet DEF PermitsKept
    <3>4. TasksInTurn /\ Accounts /\ Batch!BestEffort
      BY <3>1 DEF TasksInTurn, Accounts, Batch!BestEffort
    <3> QED
      BY <3>2, <3>3, <3>4 DEF BatchInv
  <2> QED
    BY <2>1, BatchInit, TopicInit DEF PartsInit, NoTopic
<1>2. PartsInit /\ [][PartsNext]_<<part, vars, batchVars, topicVars>> => []Both
  <2>1. Both /\ [PartsNext]_<<part, vars, batchVars, topicVars>> => Both'
    <3>1. [PartsNext]_<<part, vars, batchVars, topicVars>> => [Batch!Next]_(Batch!vars)
      <4>1. UNCHANGED batchVars => UNCHANGED Batch!vars
        BY DEF batchVars, Batch!vars, Batch!config
      <4> QED
        BY <4>1 DEF PartsNext
    <3>2. [PartsNext]_<<part, vars, batchVars, topicVars>> => [Topic!Next]_(Topic!vars)
      <4>1. UNCHANGED topicVars => UNCHANGED Topic!vars
        BY DEF topicVars, Topic!vars, Topic!channels, Topic!books, Topic!ghosts
      <4> QED
        BY <4>1 DEF PartsNext
    <3> QED
      BY <3>1, <3>2, BatchStep, TopicStep
  <2> QED
    BY <1>1, <2>1, PTL
<1>3. Both => BatchIsRight /\ MailArrives
  BY BatchSuffices, TopicSuffices
<1> QED
  BY <1>2, <1>3, PTL DEF PartsSpec
=============================================================================
