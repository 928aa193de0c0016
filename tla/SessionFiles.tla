----------------------------- MODULE SessionFiles -----------------------------
(* Session transcripts on disk (cersei-memory/src/session_storage.rs, deleted by  *)
(* abstract-cli/src/sessions.rs): one JSON entry a line, appended by any number of *)
(* processes without a lock, moved on to a further part file when a part is full.  *)
(* writeln! on an unbuffered file is two writes, the entry and the newline; a       *)
(* crash or a full disk may leave part of the first, which may end inside a         *)
(* character, or the first without the second.                                      *)
EXTENDS Integers, Sequences, FiniteSetsExt

CONSTANTS Writers,
          MessageSize,   \* bytes of a message entry, without its newline
          MaxSize,       \* MAX_SESSION_SIZE
          MaxParts,      \* bound: part files
          MaxEntries,    \* bound: entries written
          MaxCuts,       \* bound: writes cut short
          MaxDeletes     \* bound: deletions of the session

VARIABLES
    file,     \* [1..MaxParts -> what is in the part, oldest first]
    exists,   \* the parts that exist
    writer,   \* [Writers -> the write under way]
    deleter,  \* parts still to remove
    written,  \* entries begun so far
    acked,    \* messages and tombstones whose write returned Ok
    cuts, deletes, \* writes cut short, deletions begun
    overlaps, \* ghost: writes that found a line of another writer unfinished
    before,   \* ghost: [entry -> the entries acked when its write began]
    doomed,   \* ghost: what the parts held that the deletion under way has to remove
    gone,     \* ghost: what the parts held that completed deletions had to remove
    kept      \* ghost: the entries acked since the last deletion began, none ran since they began

files       == <<file, exists>>
ghosts      == <<overlaps, before, doomed, gone, kept>>
sessionVars == <<files, writer, deleter, written, acked, cuts, deletes, ghosts>>

Parts == 1..MaxParts
(* What a part is made of: entries, newlines and what a cut write leaves. An entry
   is numbered by its uuid; a tombstone names the message it deletes. *)
Piece(kind, n, of) == [kind |-> kind, n |-> n, of |-> of]
Newline  == Piece("newline", 0, 0)
Fragment == Piece("fragment", 0, 0)
Splinter == Piece("splinter", 0, 0)   \* a fragment that ends inside a character
Remains  == {Fragment, Splinter}
Bytes(piece) == IF piece.kind = "message" THEN MessageSize ELSE 1
Size(s)      == Len(s) + (MessageSize - 1) * Cardinality({k \in DOMAIN s : s[k].kind = "message"})

(* all_part_paths: the base file if it is there, and the further parts up to the
   first that is not. *)
Contiguous(n) == \A m \in 2..n : m \in exists
all_part_paths == {n \in exists : Contiguous(n)}

\* Mutant: the first part that still has room, as the doc comment has it.
FirstWithRoom(length) ==
    Min({n \in Parts : n \notin exists \/ Size(file[n]) + length + 1 <= MaxSize} \cup {MaxParts + 1})
(* current_write_path and next_part_path: the last of the parts that follow each
   other, or one more when the entry and its newline do not fit. *)
current_write_path == Max({1} \cup {n \in Parts : n > 1 /\ Contiguous(n)})
TooLarge(n, length) == Size(file[n]) + length + 1 > MaxSize
WritePath(length) == IF TooLarge(current_write_path, length)
                     THEN current_write_path + 1 ELSE current_write_path

-------------------------------------------------------------------------------
(* load_transcript and parse_transcript_content: the parts one after the other,
   split at newlines; a line that is not exactly one entry is skipped. A part that
   is no text fails read_to_string, and with it the whole load. A place is a part
   and a position in it. *)
Places(parts) == UNION {{n} \X DOMAIN file[n] : n \in parts}
At(p) == file[p[1]][p[2]]
Precedes(p, q) == p[1] < q[1] \/ (p[1] = q[1] /\ p[2] < q[2])
Adjoins(p, q) == q = <<p[1], p[2] + 1>> \/ (p[2] = Len(file[p[1]]) /\ q = <<p[1] + 1, 1>>)

\* Mutant: the transcript is the last part.
LastPart == Places({current_write_path})
Content == Places(all_part_paths)
Readable == \A p \in Content : At(p) # Splinter
OwnLines == {p \in Content :
               /\ At(p).kind \in {"message", "tombstone"}
               /\ \A q \in Content : Adjoins(p, q) \/ Adjoins(q, p) => At(q) = Newline}
Legible == IF Readable THEN OwnLines ELSE {}
Tombstoned == {At(p).of : p \in {q \in Legible : At(q).kind = "tombstone"}}
\* Mutant: tombstones are skipped and not applied.
Undeleted == {p \in Legible : At(p).kind = "message"}
Loaded == {p \in Legible : At(p).kind = "message" /\ At(p).n \notin Tombstoned}

-------------------------------------------------------------------------------
Idle == [pc |-> "idle", part |-> 0, entry |-> Newline, clean |-> FALSE]

Init ==
    /\ file = [n \in Parts |-> <<>>] /\ exists = {}
    /\ writer = [w \in Writers |-> Idle] /\ deleter = {}
    /\ written = 0 /\ acked = {}
    /\ cuts = 0 /\ deletes = 0
    /\ overlaps = 0 /\ before = <<>> /\ doomed = {} /\ gone = {} /\ kept = {}

Put(n, piece) == file' = [file EXCEPT ![n] = Append(@, piece)] /\ exists' = exists \cup {n}
Entries == {Piece("message", written + 1, 0)}
           \cup {Piece("tombstone", written + 1, e.n) : e \in {x \in acked : x.kind = "message"}}

(* write_transcript_entry looks for the part, then opens and writes it. *)
Begin(w) ==
    /\ writer[w].pc = "idle" /\ written < MaxEntries
    /\ \E e \in Entries :
         /\ WritePath(Bytes(e)) \in Parts
         /\ writer' = [writer EXCEPT ![w] = [pc |-> "chosen", part |-> WritePath(Bytes(e)),
                                            entry |-> e, clean |-> deleter = {}]]
    /\ written' = written + 1
    /\ before' = Append(before, acked)
    /\ UNCHANGED <<files, deleter, acked, cuts, deletes, overlaps, doomed, gone, kept>>

Unfinished(w) == \E v \in Writers \ {w} : writer[v].pc = "line"
Line(w) ==
    /\ writer[w].pc = "chosen"
    /\ Put(writer[w].part, writer[w].entry)
    /\ writer' = [writer EXCEPT ![w].pc = "line"]
    /\ overlaps' = overlaps + (IF Unfinished(w) THEN 1 ELSE 0)
    /\ UNCHANGED <<deleter, written, acked, cuts, deletes, before, doomed, gone, kept>>

(* The file a deletion has unlinked meanwhile takes the newline with it. *)
End(w) ==
    /\ writer[w].pc = "line"
    /\ IF writer[w].part = 0 THEN UNCHANGED files ELSE Put(writer[w].part, Newline)
    /\ writer' = [writer EXCEPT ![w] = Idle]
    /\ acked' = acked \cup {writer[w].entry}
    /\ kept' = IF writer[w].clean THEN kept \cup {writer[w].entry} ELSE kept
    /\ UNCHANGED <<deleter, written, cuts, deletes, overlaps, before, doomed, gone>>

(* A crash or an I/O error in either write. *)
Cut(w) ==
    /\ cuts < MaxCuts
    /\ \/ /\ writer[w].pc = "chosen" /\ \E rest \in Remains : Put(writer[w].part, rest)
          /\ overlaps' = overlaps + (IF Unfinished(w) THEN 1 ELSE 0)
       \/ writer[w].pc = "line" /\ UNCHANGED <<files, overlaps>>
    /\ cuts' = cuts + 1
    /\ writer' = [writer EXCEPT ![w] = Idle]
    /\ UNCHANGED <<deleter, written, acked, deletes, before, doomed, gone, kept>>

(* sessions::delete lists the parts and removes them one by one. *)
DeleteSession ==
    /\ deleter = {} /\ all_part_paths # {} /\ deletes < MaxDeletes
    /\ deletes' = deletes + 1
    /\ deleter' = all_part_paths
    /\ doomed' = {At(p) : p \in Content} /\ kept' = {}
    /\ writer' = [w \in Writers |-> [writer[w] EXCEPT !.clean = FALSE]]
    /\ UNCHANGED <<files, written, acked, cuts, overlaps, before, gone>>

\* Mutant: only the base file is removed.
RemoveBase ==
    /\ deleter # {}
    /\ exists' = exists \ {1} /\ file' = [file EXCEPT ![1] = <<>>]
    /\ deleter' = deleter \ {Min(deleter)}
    /\ gone' = IF deleter' = {} THEN gone \cup doomed ELSE gone
    /\ doomed' = IF deleter' = {} THEN {} ELSE doomed
    /\ UNCHANGED <<writer, written, acked, cuts, deletes, overlaps, before, kept>>

RemovePart ==
    /\ \E n \in deleter :
       /\ \A m \in deleter : n <= m
       /\ exists' = exists \ {n} /\ file' = [file EXCEPT ![n] = <<>>]
       /\ writer' = [w \in Writers |-> IF writer[w].pc = "line" /\ writer[w].part = n
                                       THEN [writer[w] EXCEPT !.part = 0] ELSE writer[w]]
       /\ deleter' = deleter \ {n}
    /\ gone' = IF deleter' = {} THEN gone \cup doomed ELSE gone
    /\ doomed' = IF deleter' = {} THEN {} ELSE doomed
    /\ UNCHANGED <<written, acked, cuts, deletes, overlaps, before, kept>>

DeleteStops ==
    /\ deleter # {} /\ deleter' = {} /\ doomed' = {}
    /\ UNCHANGED <<files, writer, written, acked, cuts, deletes, overlaps, before, gone, kept>>

Over == /\ deleter = {} /\ \A w \in Writers : writer[w].pc = "idle"
        /\ written = MaxEntries \/ current_write_path = MaxParts
        /\ UNCHANGED sessionVars
Next == \/ \E w \in Writers : Begin(w) \/ Line(w) \/ End(w) \/ Cut(w)
        \/ DeleteSession \/ RemovePart \/ DeleteStops \/ Over
Spec == Init /\ [][Next]_sessionVars

-------------------------------------------------------------------------------
Pieces == {Newline} \cup Remains \cup [kind : {"message"}, n : 1..written, of : {0}]
          \cup [kind : {"tombstone"}, n : 1..written, of : 1..written]

TypeOK ==
    /\ file \in [Parts -> Seq(Pieces)] /\ exists = {n \in Parts : file[n] # <<>>}
    /\ deleter \subseteq Parts
    /\ writer \in [Writers -> [pc : {"idle", "chosen", "line"}, part : Parts \cup {0},
                               entry : Pieces, clean : BOOLEAN]]
    /\ written \in Nat /\ cuts \in Nat /\ deletes \in Nat /\ overlaps \in Nat
    /\ acked \subseteq Pieces /\ kept \subseteq acked
    /\ doomed \subseteq Pieces /\ gone \subseteq Pieces
    /\ before \in Seq(SUBSET acked) /\ Len(before) = written

(* What was written and acknowledged is read back, every entry of it, from however
   many parts: only a cut write or two writers inside each other's lines cost
   entries, and then no more than the lines that ran together, unless a write was
   cut inside a character: then nothing of the session is read any more. While a
   newline is still to be written, the line after it, be it in the next part, waits
   for it. *)
Halfway == {w \in Writers : writer[w].pc = "line"}
Lost == {e \in kept : \A p \in Legible : At(p) # e}

(* And in order: an entry that was acknowledged before another was begun is read
   back before it, also when the two are by different writers and in different
   parts. *)
InOrder ==
    \A p, q \in Legible :
        At(p) \in kept /\ At(q) \in kept /\ At(p) \in before[At(q).n] => Precedes(p, q)

LostAreFew   == Cardinality(Lost) <= cuts + 2 * overlaps + Cardinality(Halfway)
AckedAreRead == (Readable => LostAreFew) /\ InOrder

(* A message whose tombstone was acknowledged is not loaded again, whatever part
   either of them is in, when no write was cut and none overlapped. Nothing that a
   part held whose session was deleted comes back, though the parts' names are used
   again, once a deletion has run to its end; one that was cut short leaves parts
   that do, once the session has grown as far as they are. *)
DeletedStaysDeleted ==
    /\ cuts = 0 /\ overlaps = 0 /\ Halfway = {} =>
         \A t \in kept : t.kind = "tombstone" => \A p \in Loaded : At(p).n # t.of
    /\ \A p \in Legible : At(p) \notin gone

(* What a transcript is loaded from is what was acknowledged and not deleted. *)
TranscriptsAreTrue == AckedAreRead /\ DeletedStaysDeleted

(* Not so: a cut write costs no more than the lines that ran together. *)
CutsCostLines == LostAreFew
================================================================================
