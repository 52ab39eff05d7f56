------------------------------ MODULE UsnJournal ------------------------------
(***************************************************************************)
(* How the change journal is read (usn/usn-journal-loader,                 *)
(* usn/usn-record-scanner): the ranges of $J chunk by chunk, records found *)
(* again after damage, the newest kept.  $J is made of words of eight      *)
(* bytes: zero, the head of a record (its length in words, its version,    *)
(* its own number, whether its name decodes, and what it says), or bytes   *)
(* that no head can have.                                                  *)
(***************************************************************************)
EXTENDS Integers, Sequences, SequencesExt, FiniteSets, FiniteSetsExt

ZeroWord == [kind |-> "zero"]
BodyWord == [kind |-> "body"]

(* The scanner: bytes that no record has used yet and where they lie, and  *)
(* whether it looks for a record again.                                    *)
NewScanner == [pending |-> <<>>, offset |-> 0, resyncing |-> FALSE,
               damaged |-> 0, skipped |-> 0, out |-> <<>>]

ResetScanner(s) == [s EXCEPT !.pending = <<>>, !.offset = 0, !.resyncing = FALSE]

Plausible(word) == word.kind = "head"

Skip(s, words) ==
  [s EXCEPT !.pending = SubSeq(@, words + 1, Len(@)), !.offset = @ + words]

Fail(s) == Skip([s EXCEPT !.resyncing = TRUE,
                          !.damaged = IF s.resyncing THEN @ ELSE @ + 1], 1)

(* While it resynchronises, only a record that lies at its own number is   *)
(* one.                                                                    *)
Decodes(s, word) ==
  word.length <= Len(s.pending) /\ word.good /\ (s.resyncing => word.usn = s.offset)

Take(s, word) ==
  Skip([s EXCEPT !.resyncing = FALSE,
                 !.skipped = IF word.version = 4 THEN @ + 1 ELSE @,
                 !.out     = IF word.version = 4 THEN @ ELSE Append(@, word.record)],
       word.length)

(* A record that is not all in waits for the next chunk; at the end of the *)
(* range it never will be.                                                 *)
WaitsFault(s, word, last) == FALSE
Waits(s, word, last) == Plausible(word) /\ word.length > Len(s.pending) /\ ~last

DrainWord(s, word) ==
  IF word = ZeroWord THEN Skip(s, 1)
  ELSE IF Plausible(word) /\ Decodes(s, word) THEN Take(s, word)
  ELSE Fail(s)

RECURSIVE Drain(_, _)
Drain(s, last) ==
  IF s.pending = <<>> \/ Waits(s, Head(s.pending), last) THEN s
  ELSE Drain(DrainWord(s, Head(s.pending)), last)

Feed(s, words, offset) ==
  Drain([s EXCEPT !.pending = @ \o words,
                  !.offset = IF s.pending = <<>> THEN offset ELSE @], FALSE)

(* At the end of a range, bytes after its last whole word are damage too.  *)
StrayBytes(s, stray) ==
  IF stray /\ ~s.resyncing THEN [s EXCEPT !.damaged = @ + 1] ELSE s

FinishRange(s, stray) == ResetScanner(StrayBytes(Drain(s, TRUE), stray))

-----------------------------------------------------------------------------
(* The ring keeps the newest records.                                      *)
AddToRing(ring, records, limit) ==
  [kept      |-> LET all == ring.kept \o records
                 IN  SubSeq(all, Max({1, Len(all) - limit + 1}), Len(all)),
   truncated |-> ring.truncated \/ Len(ring.kept) + Len(records) > limit]

(* j: the journal while it is read; range 0 is none.                       *)
NoJournal == [range |-> 0, done |-> 0, scanner |-> NewScanner, readFailed |-> FALSE,
              scanned |-> 0, ring |-> [kept |-> <<>>, truncated |-> FALSE]]

Chunk(v, range, done) ==
  SubSeq(range.words, done + 1, Min({done + v.chunk, Len(range.words)}))

ChunkReads(v, range, done, chunk) ==
  v.unreadableWords \cap (range.offset + done .. range.offset + done + Len(chunk) - 1) = {}

WithRecords(v, j, scanner) ==
  [j EXCEPT !.ring = AddToRing(@, scanner.out, v.journalLimit),
            !.scanner = [scanner EXCEPT !.out = <<>>]]

ReadChunk(v, j, range, chunk) ==
  WithRecords(v, [j EXCEPT !.done = @ + Len(chunk), !.scanned = @ + Len(chunk)],
              Feed(j.scanner, chunk, range.offset + j.done))

(* The range ends, at its end or at a read that failed; the next starts.   *)
EndRange(v, j, stray, failed) ==
  WithRecords(v, [j EXCEPT !.range = @ + 1, !.done = 0, !.readFailed = @ \/ failed],
              FinishRange(j.scanner, stray))

(* One step of ReadRange: the next chunk, or the end of the range.         *)
StepRange(v, j, range, chunk) ==
  IF chunk = <<>> THEN EndRange(v, j, range.stray, FALSE)
  ELSE IF ChunkReads(v, range, j.done, chunk) THEN ReadChunk(v, j, range, chunk)
  ELSE EndRange(v, j, FALSE, TRUE)

(* Nothing at all could be read: the stream is unusable, not empty.        *)
Unusable(j) == j.readFailed /\ j.scanned = 0
=============================================================================
