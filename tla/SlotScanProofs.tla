---------------------------- MODULE SlotScanProofs ---------------------------
(***************************************************************************)
(* Proofs about SlotScan: the two passes of Mft::SlotScan on several       *)
(* threads leave the lines, the entries and the counters one thread leaves,*)
(* the bytes a thread parses stand still, and HeldRecords is called as it  *)
(* asks to be.                                                             *)
(*                                                                         *)
(* The inductive invariant relates the scanner, the batch the pool parses, *)
(* and the parses one thread would have made so far.                       *)
(***************************************************************************)
EXTENDS SlotScanLemmas

HP == INSTANCE HeldRecordsProofs

Jobs == [chunk : Nat, at : Nat]
Lefts == [parser : Parsers, set : 0..1, chunk : Nat, begin : Nat, end : Nat, slot : Nat]
Batches == [parser : Parsers, active : BOOLEAN, first : Nat, last : Nat]

\* Where the scanner may be in each pass.
AtSlot == {"window", "here", "take"}
FirstPcs == AtSlot \cup {"next", "end_first"}
AtWaiting == {"waiting_batch", "waiting_take", "waiting_here"}
SecondPcs == AtWaiting \cup {"second", "end_second", "destroy", "gone"}

\* HeldRecords is called as it asks to be.
HeldInv ==
  /\ HP!IInv
  /\ pc \in FirstPcs \cup SecondPcs
  /\ ended = (pc \in SecondPcs)
  /\ pc \in AtSlot => fresh /\ record \in Used

MediumInv == layout \in [Records -> Slot] /\ RangesUpTo(plan, RecordCount)

\* The slots before it are parsed.
Through == IF pc \in AtSlot THEN record ELSE Held!Position

\* Slot u, if it is used, was looked for in a window.
Looked(u) == u < Through \/ (u = record /\ pc \in {"here", "take"})

\* The window held is that of each slot in it, and was read.
WindowRight(w, ranges, bad) ==
  /\ w \in Ranges /\ w.last <= RecordCount
  /\ \A x \in Records : In(x, w) => WindowFor(ranges, x) = w /\ w.first \notin bad

\* So is the window that could not be read last, which a slot was looked for in.
FailedRight(w, ranges, bad) ==
  /\ w \in Ranges /\ w.last <= RecordCount
  /\ \A x \in Records : In(x, w) => WindowFor(ranges, x) = w /\ w.first \in bad
FailedWasLooked ==
  failed # NoRange => \E u \in Used : Looked(u) /\ WindowFor(plan, u) = failed

\* The ones that could not be read before it are behind the scan.
FailedBehind ==
  \A u \in Used :
    Looked(u) /\ WindowFor(plan, u) # NoRange /\ WindowFor(plan, u).first \in failing
      => WindowFor(plan, u) = failed \/ WindowFor(plan, u).last <= record

\* The slots the scanner is to parse alone lie in the window.
SerialRight ==
  /\ serial_until \in Nat
  /\ pc \in FirstPcs =>
       \A x \in Records : Held!Position <= x /\ x < serial_until => In(x, window)
  /\ pc = "window" => serial_until <= record

WindowsInv ==
  /\ WindowRight(window, plan, failing)
  /\ FailedRight(failed, plan, failing)
  /\ window = NoRange \/ buffer = window.first
  /\ FailedWasLooked
  /\ FailedBehind
  /\ SerialRight
  /\ pc \in {"here", "take"} => ~MustLoad(record)

\* The chunks of a batch b, of which n are started, d are parsed, and the ones
\* in j are being parsed.
SizeOf(b) == IF b.parser = "window" THEN ChunkSlots ELSE ChunkRecords
PlacesOf(b) == b.last - b.first
CountOf(b) == ChunksOf(PlacesOf(b), SizeOf(b))

JobOK(b, n, w) ==
  /\ w \in Jobs
  /\ w.chunk < n
  /\ w.chunk * SizeOf(b) <= w.at
  /\ w.at < (w.chunk + 1) * SizeOf(b)
  /\ w.at < PlacesOf(b)

BatchOK(b) == b \in Batches /\ b.first <= b.last /\ b.last <= RecordCount

PoolShape(b, n, d, j) ==
  /\ BatchOK(b)
  /\ n \in Nat /\ n <= CountOf(b)
  /\ d \subseteq 0..(n - 1)
  /\ j \in [Threads -> Jobs \cup {None}]
  /\ \A t \in Threads : j[t] # None => JobOK(b, n, j[t])
  /\ ~b.active => n = CountOf(b)

Running(j) == \E t \in Threads : j[t] # None
Live(b, n, j) == b.active \/ Running(j) \/ n < CountOf(b)

PoolInv ==
  /\ PoolShape(batch, next_chunk, done, job)
  /\ batch.parser = "waiting" => pc \in SecondPcs /\ batch.last <= Len(waiting)
  /\ Live(batch, next_chunk, job) /\ batch.parser = "window" =>
       /\ pc \in FirstPcs
       /\ window = [first |-> batch.first, last |-> batch.last]
  /\ pc = "take" => batch.active /\ batch.parser = "window" /\ In(record, batch)
  /\ pc = "waiting_take" => batch.active /\ batch.parser = "waiting" /\ In(index, batch)
  /\ pc \in {"window", "end_first", "waiting_batch", "end_second"} => ~batch.active

\* What the place a of batch b came to, given what the slots hold and what waits.
KindOf(slots, r) == slots[r].kind
RightAt(b, slots, ws, o, log, a) ==
  IF b.parser = "window"
  THEN \/ KindOf(slots, b.first + a) = "free"
       \/ Right(o, log, b.first + a, "parse", KindOf(slots, b.first + a) = "stream",
                KindOf(slots, b.first + a) \in {"plain", "lost"})
  ELSE o.needs \/ Right(o, log, ws[b.first + a + 1].record, "reparse", FALSE, TRUE)

\* Place a, of chunk c, is parsed.
IsParsed(b, d, j, c, a) ==
  /\ c * SizeOf(b) <= a /\ a < (c + 1) * SizeOf(b)
  /\ \/ c \in d
     \/ \E t \in Threads : j[t] # None /\ j[t].chunk = c /\ a < j[t].at

\* ls are the logs of the chunks, os the outcomes of the places.
PlacesRight(b, n, d, j, slots, ws, os, ls) ==
  \A c \in 0..(n - 1), a \in 0..(PlacesOf(b) - 1) :
    IsParsed(b, d, j, c, a) => RightAt(b, slots, ws, os[a], ls[c], a)

LogsInv ==
  /\ log_set \in [Parsers -> 0..1]
  /\ logs \in [Parsers -> [0..1 -> [Records -> Seq(Lines)]]]
  /\ outcomes \in [Parsers -> [Records -> Outcomes]]
  /\ PlacesRight(batch, next_chunk, done, job, layout, waiting, outcomes[batch.parser],
                 logs[batch.parser][log_set[batch.parser]])

\* What a thread logged for the attributes of the record parsed last stands in
\* its log, until the scanner has replayed it.
LeftStands(p, ls) ==
  LET log == ls[p.parser][p.set][p.chunk]
  IN  /\ p.chunk \in Records
      /\ p.begin + 1 = p.end
      /\ p.end <= Len(log)
      /\ log[p.end] = [what |-> "release", record |-> p.slot]

PendingInv ==
  /\ pending_release \in Lefts \cup {None}
  /\ parsed_here \in BOOLEAN
  /\ attributes \in Nat \cup {None}
  /\ attributes # None => parsed_here
  /\ pending_release # None =>
       /\ attributes = None
       /\ LeftStands(pending_release, logs)
       /\ (pending_release.parser = batch.parser
           /\ pending_release.set = log_set[batch.parser])
          => pending_release.chunk < next_chunk
       /\ pc \notin {"here", "take"} =>
            /\ pending_release.set = log_set[pending_release.parser]
            /\ pending_release.parser = "window" => In(pending_release.slot, window)
  /\ pc \in AtWaiting => pending_release = None

\* What one thread does: the slots it parses twice, those it keeps, and how it
\* parses each first.
WaitSet == {r \in Used : Waits(r)}
KeptSet == {r \in Used : IsKept(r)}
Found == [r \in Used |-> FirstParse(r)]
ParsesSoFar == ParsesOf(Used, WaitSet, Found, Through, index)

\* The record whose attributes are still to be dropped.
Due == IF pending_release # None THEN pending_release.slot ELSE attributes

\* The lines are those of the parses so far, and of the one under way.
SinksInv ==
  /\ sinks \in Seq(Lines)
  /\ pc \in {"next", "window", "end_first", "second", "end_second", "destroy"} =>
       sinks = LogOfParses(ParsesSoFar) /\ Due = DueOf(ParsesSoFar)
  /\ pc \in {"here", "take"} =>
       /\ sinks = LogOfParses(ParsesSoFar) \o LineIf("load", FirstParse(record).load)
       /\ Due = DueOf(ParsesSoFar)
  /\ pc \in AtWaiting =>
       sinks \o ClearLines = LogOfParses(ParsesSoFar) \o LineIf("release", DueOf(ParsesSoFar))
  /\ pc = "gone" =>
       sinks = LogOfParses(ParsesSoFar) \o LineIf("destroy", DueOf(ParsesSoFar))

\* The records ws wait.
RecordsOf(ws) == [i \in DOMAIN ws |-> ws[i].record]

WaitingInv ==
  /\ RecordsOf(waiting) = ChosenOf(Used, WaitSet, Through)
  /\ Len(waiting) <= Through
  /\ index \in Nat /\ index <= Len(waiting)
  /\ pc \in FirstPcs => index = 0
  /\ pc \in AtWaiting => index < Len(waiting)
  /\ pc \in {"end_second", "destroy", "gone"} => index = Len(waiting)

\* How often record r was counted, when the first k of the records rs were
\* parsed again.
CountedOnce(r) == IF r \in Used /\ r < Through THEN 1 ELSE 0
CountedAgain(rs, k, r) == IF \E j \in 1..k : rs[j] = r THEN 1 ELSE 0
CountedInv ==
  counted = [r \in Records |-> CountedOnce(r) + CountedAgain(RecordsOf(waiting), index, r)]

\* The entries es are those of the records cs, of which those in waits wait: the
\* first k of the records rs were filled in, at their places ix, and out are the
\* places of the ones that are not in kept.
Filled(ix, k, i) == \E j \in 1..k : ix[j] = i
EntryOf(cs, waits, ix, k, i) == IF cs[i] \in waits /\ ~Filled(ix, k, i) THEN None ELSE cs[i]
PlacedFor(cs, waits, ix, rs) ==
  /\ ix \in Seq(1..Len(cs)) /\ Len(ix) = Len(rs)
  /\ \A j \in 1..Len(rs) : cs[ix[j]] = rs[j]
  /\ \A i \in 1..Len(cs) : cs[i] \in waits => \E j \in 1..Len(rs) : ix[j] = i
FilledFor(es, cs, waits, kept, ix, k, out) ==
  /\ es = [i \in 1..Len(cs) |-> EntryOf(cs, waits, ix, k, i)]
  /\ out = {i \in 1..Len(cs) : Filled(ix, k, i) /\ cs[i] \notin kept}

Cands == ChosenOf(Used, WaitSet \cup KeptSet, Through)

EntriesInv ==
  /\ PlacedFor(Cands, WaitSet, entry_index, RecordsOf(waiting))
  /\ pc \notin {"destroy", "gone"} =>
       FilledFor(entries, Cands, WaitSet, KeptSet, entry_index, index, dropped)
  /\ pc \in {"destroy", "gone"} => entries = ChosenOf(Used, KeptSet, Through)

IInv ==
  /\ HeldInv /\ MediumInv /\ WindowsInv /\ PoolInv /\ LogsInv
  /\ PendingInv /\ SinksInv /\ WaitingInv /\ CountedInv /\ EntriesInv
----------------------------------------------------------------------------
(* HeldRecords. *)

\* What it is asked, in the terms of its own proofs.
LEMMA AsksRelease ==
  ASSUME NEW r, Held!ReleaseBefore(r)
  PROVE  HP!ReleaseBefore(r)
BY DEF Held!ReleaseBefore, HP!ReleaseBefore, Held!Release, HP!Release, Held!SlotsPending,
       HP!SlotsPending, Held!LiveWithout, HP!LiveWithout, Held!Passed, HP!Passed, Held!Bases,
       HP!Bases, Held!Cardinality, HP!Cardinality, Held!IsFiniteSet, HP!IsFiniteSet

LEMMA AsksFinish ==
  ASSUME Held!Finish
  PROVE  HP!Finish
BY DEF Held!Finish, HP!Finish, Held!Release, HP!Release, Held!SlotsPending, HP!SlotsPending,
       Held!LiveWithout, HP!LiveWithout, Held!Bases, HP!Bases, Held!Cardinality,
       HP!Cardinality, Held!IsFiniteSet, HP!IsFiniteSet

LEMMA AsksConfirm ==
  ASSUME NEW r, Held!Confirm(r)
  PROVE  HP!Confirm(r)
BY DEF Held!Confirm, HP!Confirm, Held!Kept, HP!Kept, Held!TakenPending, HP!TakenPending,
       Held!store, HP!store, Held!Records, HP!Records

LEMMA AsksHold ==
  ASSUME NEW r, Held!HoldWaiting(r)
  PROVE  HP!HoldWaiting(r)
BY DEF Held!HoldWaiting, HP!HoldWaiting, Held!Kept, HP!Kept, Held!TakenPending,
       HP!TakenPending, Held!store, HP!store, Held!Records, HP!Records, Held!Places,
       HP!Places, Held!Room, HP!Room, Held!Store, HP!Store, Held!Unheld, HP!Unheld,
       Held!Numbers, HP!Numbers, Held!Select, HP!Select, Held!WithoutSlot, HP!WithoutSlot

LEMMA AsksMeet ==
  ASSUME NEW r, NEW base, NEW whole, Held!MeetExtension(r, base, whole)
  PROVE  HP!MeetExtension(r, base, whole)
BY DEF Held!MeetExtension, HP!MeetExtension, Held!store, HP!store, Held!held, HP!held,
       Held!Places, HP!Places, Held!Room, HP!Room, Held!Store, HP!Store, Held!MeetLater,
       HP!MeetLater, Held!MeetFirst, HP!MeetFirst, Held!FindWaiting, HP!FindWaiting,
       Held!Listed, HP!Listed

\* The calls of one step, and what they come to.
HeldCall ==
  \/ \E r \in Records : ~ended /\ Held!Position <= r /\ Held!ReleaseBefore(r)
  \/ /\ ~ended /\ fresh
     /\ \/ \E base \in Held!Bases, whole \in BOOLEAN : Held!MeetExtension(record, base, whole)
        \/ Held!HoldWaiting(record)
        \/ Held!Confirm(record)
  \/ ~ended /\ Held!Finish
  \/ UNCHANGED held

LEMMA CallIsStep ==
  ASSUME HeldCall
  PROVE  [Held!Next]_Held!vars
<1>1. ASSUME UNCHANGED held PROVE UNCHANGED Held!vars
  BY <1>1 DEF held, Held!vars, Held!held, Held!store
<1>2. ASSUME NEW r \in Records, ~ended, Held!Position <= r, Held!ReleaseBefore(r)
      PROVE  Held!Next
  BY <1>2 DEF Held!Next, Records
<1>3. ASSUME ~ended, Held!Finish PROVE Held!Next
  BY <1>3 DEF Held!Next
<1>4. ASSUME ~ended, fresh, NEW base \in Held!Bases, NEW whole \in BOOLEAN,
             Held!MeetExtension(record, base, whole)
      PROVE  Held!Next
  BY <1>4 DEF Held!Next
<1>5. ASSUME ~ended, fresh, Held!HoldWaiting(record) \/ Held!Confirm(record) PROVE Held!Next
  BY <1>5 DEF Held!Next
<1> QED
  BY <1>1, <1>2, <1>3, <1>4, <1>5 DEF HeldCall

LEMMA CallKeeps ==
  ASSUME HP!IInv, HeldCall
  PROVE  HP!IInv'
<1>1. ASSUME UNCHANGED held PROVE UNCHANGED HP!vars
  BY <1>1 DEF held, HP!vars, HP!held, HP!store
<1>2. ASSUME NEW r \in Records, ~ended, Held!Position <= r, Held!ReleaseBefore(r)
      PROVE  HP!Next
  <2>1. HP!ReleaseBefore(r)
    BY <1>2, AsksRelease
  <2>2. HP!Position <= r /\ r \in HP!Records
    BY <1>2 DEF Held!Position, HP!Position, Records, Held!Records, HP!Records
  <2> QED
    BY <1>2, <2>1, <2>2 DEF HP!Next
<1>3. ASSUME ~ended, Held!Finish PROVE HP!Next
  <2>1. HP!Finish
    BY <1>3, AsksFinish
  <2> QED
    BY <1>3, <2>1 DEF HP!Next
<1>4. ASSUME ~ended, fresh, NEW base \in Held!Bases, NEW whole \in BOOLEAN,
             Held!MeetExtension(record, base, whole)
      PROVE  HP!Next
  <2>1. HP!MeetExtension(record, base, whole)
    BY <1>4, AsksMeet
  <2>2. base \in HP!Bases
    BY DEF Held!Bases, HP!Bases
  <2> QED
    BY <1>4, <2>1, <2>2 DEF HP!Next
<1>5. ASSUME ~ended, fresh, Held!HoldWaiting(record) PROVE HP!Next
  <2>1. HP!HoldWaiting(record)
    BY <1>5, AsksHold
  <2> QED
    BY <1>5, <2>1 DEF HP!Next
<1>6. ASSUME ~ended, fresh, Held!Confirm(record) PROVE HP!Next
  <2>1. HP!Confirm(record)
    BY <1>6, AsksConfirm
  <2> QED
    BY <1>6, <2>1 DEF HP!Next
<1>7. [HP!Next]_HP!vars
  BY <1>1, <1>2, <1>3, <1>4, <1>5, <1>6 DEF HeldCall
<1>8. RecordCount \in Nat /\ Budget \in Nat /\ None \notin Nat
  BY ScanAssumption
<1> QED
  BY <1>7, <1>8, HP!NextHolds

\* What the scan relies on of the records held.
WaitingRight(ws, bytes) ==
  \A j \in DOMAIN ws :
    /\ ws[j].record \in Records
    /\ ws[j].slot # None => bytes[ws[j].slot] = ws[j].record

LEMMA HeldFacts ==
  ASSUME HP!IInv
  PROVE  /\ record \in Records \cup {None}
         /\ Held!Position \in 0..RecordCount
         /\ Len(waiting) \in Nat /\ DOMAIN waiting = 1..Len(waiting)
         /\ waiting \in Seq(HP!Waiting)
         /\ WaitingRight(waiting, content)
<1>1. HP!TypeOK /\ HP!HeldRight
  BY DEF HP!IInv, HP!Accounts
<1>2. record \in Records \cup {None} /\ waiting \in Seq(HP!Waiting)
  BY <1>1 DEF HP!TypeOK, HP!Records, Records, Held!Records
<1>3. RecordCount \in Nat /\ None \notin Nat
  BY ScanAssumption
<1>4. Held!Position \in 0..RecordCount
  BY <1>2, <1>3 DEF Held!Position, Records, Held!Records
<1>5. Len(waiting) \in Nat /\ DOMAIN waiting = 1..Len(waiting)
  BY <1>2
<1>6. ASSUME NEW j \in DOMAIN waiting
      PROVE  /\ waiting[j].record \in Records
             /\ waiting[j].slot # None => content[waiting[j].slot] = waiting[j].record
  <2>1. waiting[j] \in HP!Waiting
    BY <1>2
  <2>2. waiting[j].record \in HP!Records /\ waiting[j].slot \in HP!SlotOrNone
    BY <2>1 DEF HP!Waiting
  <2>3. HP!Holds(waiting[j].slot, waiting[j].record)
    BY DEF HP!Holds, HP!WaitsIn
  <2>4. waiting[j].slot # None => waiting[j].slot \in HP!Slots
    BY <2>2 DEF HP!SlotOrNone
  <2>5. waiting[j].slot # None => content[waiting[j].slot] = waiting[j].record
    BY <1>1, <2>2, <2>3, <2>4 DEF HP!HeldRight
  <2> QED
    BY <2>2, <2>5 DEF HP!Records, Records, Held!Records
<1>7. WaitingRight(waiting, content)
  BY <1>6 DEF WaitingRight
<1> QED
  BY <1>2, <1>4, <1>5, <1>7

\* The same records wait.
SameWaiting == RecordsOf(waiting') = RecordsOf(waiting) /\ Len(waiting') = Len(waiting)

\* What the calls do to the records that wait.
LEMMA CallEffects ==
  ASSUME HP!IInv
  PROVE  /\ \A r : Held!ReleaseBefore(r) =>
              record' = r /\ fresh' = TRUE /\ ended' = ended /\ waiting' = waiting
         /\ \A r, base, whole : Held!MeetExtension(r, base, whole) =>
              record' = record /\ ended' = ended /\ SameWaiting
         /\ \A r : Held!HoldWaiting(r) =>
              /\ record' = record /\ ended' = ended
              /\ \E w : w.record = r /\ waiting' = Append(waiting, w)
         /\ \A r : Held!Confirm(r) => record' = record /\ ended' = ended /\ waiting' = waiting
         /\ Held!Finish => record' = record /\ ended' = TRUE /\ waiting' = waiting
<1>1. \A r : Held!ReleaseBefore(r) =>
        record' = r /\ fresh' = TRUE /\ ended' = ended /\ waiting' = waiting
  BY DEF Held!ReleaseBefore
<1>2. \A r : Held!Confirm(r) => record' = record /\ ended' = ended /\ waiting' = waiting
  BY DEF Held!Confirm
<1>3. Held!Finish => record' = record /\ ended' = TRUE /\ waiting' = waiting
  BY DEF Held!Finish
<1>4. ASSUME NEW r, Held!HoldWaiting(r)
      PROVE  /\ record' = record /\ ended' = ended
             /\ \E w : w.record = r /\ waiting' = Append(waiting, w)
  <2>1. PICK s : waiting' = Append(waiting, [record |-> r, slot |-> s,
                                   unheld_extensions |-> Held!Unheld(pending[r])])
    BY <1>4 DEF Held!HoldWaiting
  <2>2. record' = record /\ ended' = ended
    BY <1>4 DEF Held!HoldWaiting
  <2> DEFINE w == [record |-> r, slot |-> s, unheld_extensions |-> Held!Unheld(pending[r])]
  <2>3. w.record = r
    OBVIOUS
  <2> QED
    BY <2>1, <2>2, <2>3
<1>5. ASSUME NEW r, NEW base, NEW whole, Held!MeetExtension(r, base, whole)
      PROVE  record' = record /\ ended' = ended /\ SameWaiting
  <2>1. record' = record /\ ended' = ended
    BY <1>5 DEF Held!MeetExtension
  <2>2. \/ waiting' = waiting
        \/ \E i \in DOMAIN waiting : waiting' = [waiting EXCEPT ![i] = Held!Listed(waiting[i], r)]
    BY <1>5 DEF Held!MeetExtension, Held!MeetLater, Held!MeetFirst, Held!held,
                Held!FindWaiting
  <2>3. ASSUME NEW i \in DOMAIN waiting,
               waiting' = [waiting EXCEPT ![i] = Held!Listed(waiting[i], r)]
        PROVE  SameWaiting
    <3>1. waiting \in Seq(HP!Waiting)
      BY HeldFacts
    <3>2. waiting[i] \in HP!Waiting
      BY <3>1
    <3>3. Held!Listed(waiting[i], r).record = waiting[i].record
      BY <3>2 DEF Held!Listed, HP!Waiting
    <3>4. DOMAIN waiting' = DOMAIN waiting
      BY <2>3
    <3>5. \A j \in DOMAIN waiting : waiting'[j].record = waiting[j].record
      BY <2>3, <3>3
    <3>6. Len(waiting') = Len(waiting)
      <4> DEFINE x == Held!Listed(waiting[i], r)
                 T == HP!Waiting \cup {x}
      <4>1. waiting \in Seq(T) /\ x \in T
        BY <3>1
      <4>2. waiting' = [waiting EXCEPT ![i] = x]
        BY <2>3
      <4> HIDE DEF x, T
      <4>3. waiting' \in Seq(T)
        BY <4>1, <4>2
      <4> QED
        BY <3>4, <4>1, <4>3
    <3> QED
      BY <3>4, <3>5, <3>6 DEF RecordsOf, SameWaiting
  <2> QED
    BY <2>1, <2>2, <2>3 DEF SameWaiting
<1> QED
  BY <1>1, <1>2, <1>3, <1>4, <1>5
----------------------------------------------------------------------------
(* Where the scan is. *)

LEMMA Sizes ==
  /\ RecordCount \in Nat /\ FirstMapped \in Nat
  /\ ChunkSlots \in Nat \ {0} /\ ChunkRecords \in Nat \ {0} /\ BatchRecords \in Nat \ {0}
  /\ WindowSlots \in Nat \ {0}
  /\ None \notin Nat /\ None \notin Jobs /\ None \notin Lefts
BY ScanAssumption DEF Jobs, Lefts

LEMMA SlotsAre ==
  /\ Records \subseteq Nat /\ \A r : r \in Records <=> r \in Nat /\ r < RecordCount
  /\ Used \subseteq Records /\ Used \subseteq Nat /\ None \notin Records
BY Sizes DEF Records, Held!Records, Used

LEMMA WhereItIs ==
  ASSUME HeldInv
  PROVE  /\ Through \in 0..RecordCount /\ Through \in Nat
         /\ pc \in AtSlot => /\ record \in Used /\ record \in Records /\ record \in Nat
                             /\ Held!Position = record + 1 /\ Through = record /\ fresh /\ ~ended
         /\ pc \notin AtSlot => Through = Held!Position
         /\ pc \in FirstPcs <=> ~ended
         /\ Held!Position \in Nat
<1>1. record \in Records \cup {None} /\ Held!Position \in 0..RecordCount
  BY HeldFacts DEF HeldInv
<1>2. pc \in AtSlot => record \in Used /\ fresh
  BY DEF HeldInv
<1>3. pc \in FirstPcs <=> ~ended
  BY DEF HeldInv, FirstPcs, SecondPcs, AtSlot, AtWaiting
<1>4. pc \in AtSlot => pc \in FirstPcs
  BY DEF FirstPcs
<1>5. pc \in AtSlot => record \in Records /\ record \in Nat /\ record < RecordCount /\ record # None
  BY <1>2, SlotsAre
<1>6. pc \in AtSlot => Held!Position = record + 1
  BY <1>5 DEF Held!Position
<1> QED
  BY <1>1, <1>2, <1>3, <1>4, <1>5, <1>6, Sizes DEF Through

\* What the slot at hand is served from.
LEMMA HereServed ==
  ASSUME HeldInv, MediumInv, WindowsInv, pc \in {"here", "take"}
  PROVE  /\ ~MustLoad(record) /\ ~LoadFails(record) /\ LoadLines(record) = <<>>
         /\ Served(record) <=> In(record, window)
         /\ In(record, window) <=> ReadInWindow(record)
<1>1. ~MustLoad(record)
  BY DEF WindowsInv
<1>2. record \in Nat /\ record \in Records
  BY WhereItIs DEF AtSlot
<1>3. RangesUpTo(plan, RecordCount)
  BY DEF MediumInv
<1>4. In(record, window) => ReadInWindow(record)
  <2>1. In(record, window) => WindowFor(plan, record) = window /\ window.first \notin failing
    BY <1>2 DEF WindowsInv, WindowRight
  <2>2. In(record, window) => window # NoRange
    BY <1>2 DEF In, NoRange
  <2> QED
    BY <2>1, <2>2 DEF ReadInWindow
<1>5. ReadInWindow(record) => In(record, window)
  <2> SUFFICES ASSUME ReadInWindow(record), ~In(record, window) PROVE FALSE
    OBVIOUS
  <2>1. WindowFor(plan, record) # NoRange /\ WindowFor(plan, record).first \notin failing
    BY DEF ReadInWindow
  <2>2. record >= FirstMapped
    BY <1>2, <1>3, <2>1, WindowForRight
  <2>3. In(record, failed)
    BY <1>1, <2>1, <2>2 DEF MustLoad
  <2>4. WindowFor(plan, record) = failed /\ failed.first \in failing
    BY <1>2, <2>3 DEF WindowsInv, FailedRight
  <2> QED
    BY <2>1, <2>4
<1> QED
  BY <1>1, <1>4, <1>5 DEF Served, LoadFails, LoadLines

----------------------------------------------------------------------------
(* What the pool found. *)

LEMMA BatchSizes ==
  ASSUME PoolShape(batch, next_chunk, done, job)
  PROVE  /\ ChunkSize = SizeOf(batch) /\ BatchLength = PlacesOf(batch) /\ ChunkCount = CountOf(batch)
         /\ SizeOf(batch) \in Nat \ {0} /\ PlacesOf(batch) \in Nat
         /\ PlacesOf(batch) <= RecordCount /\ CountOf(batch) \in Nat /\ CountOf(batch) <= PlacesOf(batch)
         /\ batch.first \in Nat /\ batch.last \in Nat /\ batch.first <= batch.last
         /\ batch.last <= RecordCount /\ batch.active \in BOOLEAN /\ batch.parser \in Parsers
         /\ next_chunk \in Nat /\ next_chunk <= CountOf(batch)
         /\ batch = [parser |-> batch.parser, active |-> batch.active,
                     first |-> batch.first, last |-> batch.last]
<1>1. batch \in Batches /\ batch.first <= batch.last /\ batch.last <= RecordCount
  BY DEF PoolShape, BatchOK
<1>2. /\ batch.first \in Nat /\ batch.last \in Nat /\ batch.active \in BOOLEAN
      /\ batch.parser \in Parsers
      /\ batch = [parser |-> batch.parser, active |-> batch.active,
                  first |-> batch.first, last |-> batch.last]
  BY <1>1 DEF Batches
<1>3. SizeOf(batch) \in Nat \ {0}
  BY Sizes DEF SizeOf
<1>4. PlacesOf(batch) \in Nat /\ PlacesOf(batch) <= RecordCount
  BY <1>1, <1>2, Sizes DEF PlacesOf
<1>5. CountOf(batch) \in Nat /\ CountOf(batch) <= PlacesOf(batch)
  BY <1>3, <1>4, ChunksRight DEF CountOf
<1>6. ChunkSize = SizeOf(batch) /\ BatchLength = PlacesOf(batch)
  BY DEF ChunkSize, SizeOf, BatchLength, PlacesOf
<1>7. ChunkCount = CountOf(batch)
  BY <1>6 DEF ChunkCount, CountOf, ChunksOf
<1>8. next_chunk \in Nat /\ next_chunk <= CountOf(batch)
  BY DEF PoolShape
<1> QED
  BY <1>1, <1>2, <1>3, <1>4, <1>5, <1>6, <1>7, <1>8

LEMMA ChunkIsSlot ==
  ASSUME PoolShape(batch, next_chunk, done, job), NEW c \in 0..(next_chunk - 1)
  PROVE  c \in Records /\ c \in Nat
BY BatchSizes, Sizes DEF Records, Held!Records

LEMMA LogsTyped ==
  ASSUME logs \in [Parsers -> [0..1 -> [Records -> Seq(Lines)]]],
         NEW p \in Parsers, NEW s \in 0..1, NEW c \in Records
  PROVE  logs[p][s][c] \in Seq(Lines)
<1>1. logs[p] \in [0..1 -> [Records -> Seq(Lines)]]
  OBVIOUS
<1>2. logs[p][s] \in [Records -> Seq(Lines)]
  BY <1>1
<1> QED
  BY <1>2

LEMMA OutcomesTyped ==
  ASSUME outcomes \in [Parsers -> [Records -> Outcomes]], NEW p \in Parsers, NEW a \in Records
  PROVE  outcomes[p][a] \in Outcomes
<1>1. outcomes[p] \in [Records -> Outcomes]
  OBVIOUS
<1> QED
  BY <1>1

\* The outcome of a place whose chunk is parsed.
LEMMA FoundRight ==
  ASSUME PoolShape(batch, next_chunk, done, job), LogsInv, NEW i, In(i, batch), i \in Nat,
         Parsed(i)
  PROVE  /\ RightAt(batch, layout, waiting, OutcomeAt(i), LogOf(ChunkOf(i)), i - batch.first)
         /\ ChunkOf(i) \in 0..(next_chunk - 1) /\ ChunkOf(i) \in Records
         /\ OutcomeAt(i) \in Outcomes /\ LogOf(ChunkOf(i)) \in Seq(Lines)
         /\ batch.first + (i - batch.first) = i
<1> DEFINE a == i - batch.first
           c == ChunkOf(i)
<1>1. /\ SizeOf(batch) \in Nat \ {0} /\ PlacesOf(batch) \in Nat /\ PlacesOf(batch) <= RecordCount
      /\ batch.first \in Nat /\ batch.last \in Nat /\ ChunkSize = SizeOf(batch)
      /\ batch.parser \in Parsers /\ next_chunk \in Nat
  BY BatchSizes
<1>2. a \in 0..(PlacesOf(batch) - 1) /\ a \in Nat /\ batch.first + a = i
  BY <1>1 DEF In, PlacesOf
<1>3. c \in done /\ done \subseteq 0..(next_chunk - 1)
  BY DEF Parsed, PoolShape
<1>4. c = a \div SizeOf(batch)
  BY <1>1 DEF ChunkOf
<1> HIDE DEF a
<1>5. c * SizeOf(batch) <= a /\ a < (c + 1) * SizeOf(batch)
  BY <1>1, <1>2, <1>4, ChunkOfPlace
<1> HIDE DEF c
<1>6. IsParsed(batch, done, job, c, a)
  BY <1>3, <1>5 DEF IsParsed
<1>7. c \in 0..(next_chunk - 1) /\ c \in Records
  BY <1>3, ChunkIsSlot
<1>8. RightAt(batch, layout, waiting, outcomes[batch.parser][a],
              logs[batch.parser][log_set[batch.parser]][c], a)
  BY <1>2, <1>6, <1>7 DEF LogsInv, PlacesRight
<1>9. a \in Records
  BY <1>1, <1>2, SlotsAre, Sizes
<1>10. outcomes[batch.parser][a] \in Outcomes
  BY <1>1, <1>9, OutcomesTyped DEF LogsInv
<1>11. log_set[batch.parser] \in 0..1
  BY <1>1 DEF LogsInv
<1>12. logs[batch.parser][log_set[batch.parser]][c] \in Seq(Lines)
  BY <1>1, <1>7, <1>11, LogsTyped DEF LogsInv
<1> QED
  BY <1>2, <1>7, <1>8, <1>10, <1>12 DEF a, c, OutcomeAt, LogOf

\* What the scanner is told of the slot at hand.
LEMMA SlotFound ==
  ASSUME HeldInv, MediumInv, PoolInv, LogsInv, pc = "take", Parsed(record)
  PROVE  /\ Right(OutcomeAt(record), LogOf(ChunkOf(record)), record, "parse",
                  Kind(record) = "stream", Kind(record) \in {"plain", "lost"})
         /\ OutcomeAt(record) \in Outcomes
         /\ ChunkOf(record) \in 0..(next_chunk - 1) /\ ChunkOf(record) \in Records
         /\ LogOf(ChunkOf(record)) \in Seq(Lines)
<1>1. record \in Nat /\ record \in Used /\ record \in Records /\ record # None
  BY WhereItIs, Sizes DEF AtSlot
<1>2. batch.active /\ batch.parser = "window" /\ In(record, batch)
      /\ PoolShape(batch, next_chunk, done, job)
  BY DEF PoolInv
<1> DEFINE a == record - batch.first
           o == OutcomeAt(record)
           log == LogOf(ChunkOf(record))
<1>3. /\ RightAt(batch, layout, waiting, o, log, a)
      /\ ChunkOf(record) \in 0..(next_chunk - 1) /\ ChunkOf(record) \in Records
      /\ o \in Outcomes /\ log \in Seq(Lines) /\ batch.first + a = record
  BY <1>1, <1>2, FoundRight
<1> HIDE DEF a, o, log
<1>4. KindOf(layout, batch.first + a) = Kind(record) /\ Kind(record) # "free"
  BY <1>1, <1>3 DEF KindOf, Kind, Used, IsFree
<1>5. Right(o, log, record, "parse", Kind(record) = "stream", Kind(record) \in {"plain", "lost"})
  BY <1>2, <1>3, <1>4 DEF RightAt
<1> QED
  BY <1>3, <1>5 DEF o, log

\* And of the waiting record at hand.
LEMMA WaitingFound ==
  ASSUME HeldInv, PoolInv, LogsInv, pc = "waiting_take", index \in Nat, Parsed(index),
         ~OutcomeAt(index).needs
  PROVE  /\ Right(OutcomeAt(index), LogOf(ChunkOf(index)), waiting[index + 1].record, "reparse",
                  FALSE, TRUE)
         /\ OutcomeAt(index) \in Outcomes
         /\ ChunkOf(index) \in 0..(next_chunk - 1) /\ ChunkOf(index) \in Records
         /\ LogOf(ChunkOf(index)) \in Seq(Lines)
<1>1. batch.active /\ batch.parser = "waiting" /\ In(index, batch)
      /\ PoolShape(batch, next_chunk, done, job)
  BY DEF PoolInv
<1> DEFINE a == index - batch.first
           o == OutcomeAt(index)
           log == LogOf(ChunkOf(index))
<1>2. /\ RightAt(batch, layout, waiting, o, log, a)
      /\ ChunkOf(index) \in 0..(next_chunk - 1) /\ ChunkOf(index) \in Records
      /\ o \in Outcomes /\ log \in Seq(Lines) /\ batch.first + a = index
  BY <1>1, FoundRight
<1> HIDE DEF a, o, log
<1>3. Right(o, log, waiting[index + 1].record, "reparse", FALSE, TRUE)
  <2>1. batch.first + a + 1 = index + 1
    BY <1>2
  <2> QED
    BY <1>1, <1>2, <2>1 DEF RightAt, o
<1> QED
  BY <1>2, <1>3 DEF o, log
----------------------------------------------------------------------------
(* The lines left to replay. *)

LEMMA LeftTyped ==
  ASSUME LogsInv, PendingInv, pending_release # None
  PROVE  /\ pending_release.parser \in Parsers /\ pending_release.set \in 0..1
         /\ pending_release.chunk \in Records /\ pending_release.slot \in Nat
         /\ pending_release.begin \in Nat /\ pending_release.end \in Nat
         /\ logs[pending_release.parser][pending_release.set][pending_release.chunk] \in Seq(Lines)
<1>1. pending_release \in Lefts
  BY DEF PendingInv
<1>2. /\ pending_release.parser \in Parsers /\ pending_release.set \in 0..1
      /\ pending_release.slot \in Nat
      /\ pending_release.begin \in Nat /\ pending_release.end \in Nat
  BY <1>1 DEF Lefts
<1>3. pending_release.chunk \in Records
  BY DEF PendingInv, LeftStands
<1> QED
  BY <1>2, <1>3, LogsTyped DEF LogsInv

\* The line of the attributes to be dropped stands where it was left.
LEMMA LeftLineStands ==
  ASSUME LogsInv, PendingInv
  PROVE  LeftLinesStand
<1> SUFFICES ASSUME pending_release # None
             PROVE  PendingLines = Line("release", pending_release.slot)
  BY DEF LeftLinesStand
<1> DEFINE log == logs[pending_release.parser][pending_release.set][pending_release.chunk]
           b == pending_release.begin
           e == pending_release.end
<1>1. log \in Seq(Lines) /\ b \in Nat /\ e \in Nat
  BY LeftTyped
<1>2. b + 1 = e /\ e <= Len(log) /\ log[e] = [what |-> "release", record |-> pending_release.slot]
  BY DEF PendingInv, LeftStands
<1>3. PendingLines = Replay(log, b, e)
  BY DEF PendingLines
<1> HIDE DEF log, b, e
<1>4. Replay(log, b, e) = <<log[e]>>
  BY <1>1, <1>2, ReplayRight
<1> QED
  BY <1>2, <1>3, <1>4 DEF Line

\* What is logged when they are dropped.
LEMMA DueLines ==
  ASSUME LogsInv, PendingInv
  PROVE  /\ PendingLines \in Seq(Lines) /\ ClearLines \in Seq(Lines)
         /\ PendingLines \o ClearLines = LineIf("release", Due)
         /\ pending_release = None => PendingLines = <<>>
         /\ pending_release # None => ClearLines = <<>> /\ PendingLines = LineIf("release", Due)
         /\ (IF parsed_here THEN ClearLines ELSE <<>>) = ClearLines
         /\ Due \in Nat \cup {None}
         /\ (IF parsed_here THEN None ELSE attributes) = None
<1>1. attributes \in Nat \cup {None} /\ (attributes # None => parsed_here)
  BY DEF PendingInv
<1>2. pending_release # None => attributes = None /\ pending_release.slot \in Nat
                                /\ PendingLines = Line("release", pending_release.slot)
  BY LeftTyped, LeftLineStands DEF PendingInv, LeftLinesStand
<1>3. pending_release = None => PendingLines = <<>>
  BY DEF PendingLines
<1>4. ClearLines = LineIf("release", attributes)
  BY DEF ClearLines, LineIf
<1>5. Due \in Nat \cup {None}
  BY <1>1, <1>2 DEF Due
<1>6. ClearLines \in Seq(Lines) /\ LineIf("release", Due) \in Seq(Lines)
  BY <1>1, <1>4, <1>5, LineIfTyped
<1>7. CASE pending_release # None
  <2>1. Due = pending_release.slot /\ Due # None /\ attributes = None
    BY <1>2, <1>7, Sizes DEF Due
  <2>2. PendingLines = LineIf("release", Due) /\ ClearLines = <<>>
    BY <1>2, <1>4, <1>7, <2>1 DEF LineIf
  <2> DEFINE x == LineIf("release", Due)
  <2> HIDE DEF x
  <2>3. x \o <<>> = x
    BY <1>6 DEF x
  <2>4. PendingLines \o ClearLines = LineIf("release", Due)
    BY <2>2, <2>3 DEF x
  <2> QED
    BY <1>1, <1>5, <1>6, <1>7, <2>1, <2>2, <2>4
<1>8. CASE pending_release = None
  <2>1. Due = attributes /\ PendingLines = <<>>
    BY <1>3, <1>8 DEF Due
  <2> DEFINE x == ClearLines
  <2>2. x \in Seq(Lines) /\ x = LineIf("release", Due)
    BY <1>4, <1>6, <2>1
  <2> HIDE DEF x
  <2>3. <<>> \o x = x
    BY <2>2
  <2>4. (IF parsed_here THEN ClearLines ELSE <<>>) = ClearLines
    BY <1>1, <1>4 DEF LineIf
  <2>5. <<>> \in Seq(Lines)
    BY NothingTyped
  <2> QED
    BY <1>1, <1>5, <1>8, <2>1, <2>2, <2>3, <2>4, <2>5 DEF x
<1> QED
  BY <1>7, <1>8

\* To join sequences of lines.
Regrouped(a, b, c, d) == ((a \o b) \o c) \o d = (a \o (b \o c)) \o d

LEMMA JoinFour ==
  ASSUME NEW a \in Seq(Lines), NEW b \in Seq(Lines), NEW c \in Seq(Lines), NEW d
  PROVE  Regrouped(a, b, c, d)
<1> DEFINE T == Lines
<1> HIDE DEF T
<1>1. a \in Seq(T) /\ b \in Seq(T) /\ c \in Seq(T)
  BY DEF T
<1>2. (a \o b) \o c = a \o (b \o c)
  BY <1>1
<1> QED
  BY <1>2 DEF Regrouped

LEMMA JoinTwo ==
  ASSUME NEW a \in Seq(Lines), NEW b \in Seq(Lines)
  PROVE  a \o b \in Seq(Lines) /\ <<>> \o a = a /\ a \o <<>> = a
<1> DEFINE T == Lines
<1> HIDE DEF T
<1>1. a \in Seq(T) /\ b \in Seq(T)
  BY DEF T
<1>2. a \o b \in Seq(T) /\ <<>> \o a = a /\ a \o <<>> = a
  BY <1>1
<1> QED
  BY <1>2 DEF T
----------------------------------------------------------------------------
(* What the steps of the scan come to, whoever parses. *)

\* A thread starts a chunk, or parses one record of it.
WorkMove ==
  /\ \E t \in Threads : TakeChunk(t) \/ ParseOne(t)
  /\ UNCHANGED <<held, still, pc, choice, reader, output, result, second>>

LEMMA WorkMoves ==
  ASSUME TakeHelps \/ WaitingHelps \/ \E h \in Helpers : HelperStep(h)
  PROVE  WorkMove
<1>1. Scanner \in Threads /\ Helpers \subseteq Threads
  BY DEF Threads
<1>2. ASSUME NEW i, ScannerHelps(i) PROVE WorkMove
  BY <1>1, <1>2 DEF ScannerHelps, WorkMove
<1>3. ASSUME NEW h \in Helpers, HelperStep(h) PROVE WorkMove
  BY <1>1, <1>3 DEF HelperStep, WorkMove
<1> QED
  BY <1>2, <1>3 DEF TakeHelps, WaitingHelps

\* The slot at hand is parsed, and waits or not.
SlotMove ==
  /\ pc \in {"here", "take"} /\ pc' = "next"
  /\ HeldCall /\ record' = record /\ ended' = ended
  /\ counted' = [counted EXCEPT ![record] = @ + 1]
  /\ Due' = IF ParsesAttrs(record) THEN record ELSE None
  /\ sinks' = (sinks \o LineIf("release", Due)) \o Line("parse", record)
  /\ \/ /\ record \in WaitSet
        /\ \E w : w.record = record /\ waiting' = Append(waiting, w)
        /\ entry_index' = Append(entry_index, Len(entries) + 1)
        /\ entries' = Append(entries, None)
     \/ /\ record \notin WaitSet
        /\ SameWaiting
        /\ entry_index' = entry_index
        /\ entries' = IF record \in KeptSet THEN Append(entries, record) ELSE entries
  /\ UNCHANGED <<medium, choice, reader, pool, dropped, second>>

\* What a slot holds.
LEMMA KindIs ==
  ASSUME MediumInv, NEW r \in Used
  PROVE  /\ Kind(r) = layout[r].kind /\ Kind(r) \in Kinds \ {"free"}
         /\ layout[r].base \in Held!Bases
         /\ r \in WaitSet <=> HasList(r) /\ ReadInWindow(r)
         /\ r \in KeptSet <=> IsKept(r)
<1>1. r \in Records /\ r # None
  BY SlotsAre
<1>2. layout[r] \in Slot
  BY <1>1 DEF MediumInv
<1>3. layout[r].kind \in Kinds /\ layout[r].base \in Held!Bases
  BY <1>2 DEF Slot
<1> QED
  BY <1>1, <1>3 DEF Kind, Used, IsFree, WaitSet, KeptSet, Waits

LEMMA TakeParsedMoves ==
  ASSUME IInv, TakeParsed
  PROVE  SlotMove
<1>1. /\ HeldInv /\ MediumInv /\ WindowsInv /\ PoolInv /\ LogsInv /\ PendingInv /\ SinksInv
      /\ pc = "take" /\ Parsed(record) /\ ~OutcomeAt(record).needs /\ TakeOutcome(record, record)
  BY DEF IInv, TakeParsed
<1> DEFINE o == OutcomeAt(record)
           log == LogOf(ChunkOf(record))
<1>2. /\ record \in Used /\ record \in Records /\ record \in Nat /\ fresh /\ ~ended
  BY <1>1, WhereItIs DEF AtSlot
<1>3. /\ Right(o, log, record, "parse", Kind(record) = "stream", Kind(record) \in {"plain", "lost"})
      /\ o \in Outcomes /\ log \in Seq(Lines)
  BY <1>1, SlotFound
<1>4. In(record, window) /\ ReadInWindow(record)
  <2>1. window = [first |-> batch.first, last |-> batch.last] /\ In(record, batch)
    BY <1>1 DEF PoolInv, Live
  <2>2. In(record, window)
    BY <2>1 DEF In
  <2> QED
    BY <1>1, <2>2, HereServed
<1>5. /\ o.of = record /\ Kind(record) # "stream" /\ o.begin + 1 = o.end /\ o.end <= Len(log)
      /\ log[o.end] = [what |-> "parse", record |-> record]
      /\ Kind(record) \in {"plain", "lost"} => o.release = o.end + 1
      /\ Kind(record) \notin {"plain", "lost"} => o.release = o.end
  BY <1>1, <1>3 DEF Right
<1>6. /\ Kind(record) \in Kinds \ {"free"} /\ Kind(record) = layout[record].kind
      /\ layout[record].base \in Held!Bases
      /\ record \in WaitSet <=> HasList(record)
      /\ record \in KeptSet <=> IsKept(record)
  BY <1>1, <1>2, <1>4, KindIs
<1>7. ParsesAttrs(record) <=> Kind(record) \in {"plain", "lost"}
  BY <1>4, <1>5 DEF ParsesAttrs, Waits
<1>8. o.begin \in Nat /\ o.end \in Nat /\ o.release \in Nat
  BY <1>3 DEF Outcomes
<1>9. Replay(log, o.begin, o.end) = Line("parse", record)
  <2>1. Replay(log, o.begin, o.end) = <<log[o.end]>>
    BY <1>3, <1>5, <1>8, ReplayRight
  <2> QED
    BY <1>5, <2>1 DEF Line
<1>10. sinks' = (sinks \o LineIf("release", Due)) \o Line("parse", record)
  <2> DEFINE p == PendingLines
             c == ClearLines
             l == Line("parse", record)
  <2>1. sinks' = sinks \o PendingLines \o (IF parsed_here THEN ClearLines ELSE <<>>)
                 \o Replay(log, o.begin, o.end)
    BY <1>1 DEF TakeOutcome
  <2>2. /\ p \in Seq(Lines) /\ c \in Seq(Lines) /\ p \o c = LineIf("release", Due)
        /\ (IF parsed_here THEN ClearLines ELSE <<>>) = c
    BY <1>1, DueLines
  <2>3. l \in Seq(Lines)
    BY <1>2, LineTyped
  <2>4. sinks \in Seq(Lines)
    BY <1>1 DEF SinksInv
  <2>5. sinks' = ((sinks \o p) \o c) \o l
    BY <2>1, <2>2, <1>9
  <2> HIDE DEF p, c, l
  <2>6. Regrouped(sinks, p, c, l)
    BY <2>2, <2>3, <2>4, JoinFour
  <2> QED
    BY <2>2, <2>5, <2>6 DEF Regrouped, l
<1>11. Due' = IF ParsesAttrs(record) THEN record ELSE None
  <2>1. attributes' = None
    BY <1>1, DueLines DEF TakeOutcome
  <2>2. pending_release' = LeaveRelease(record, record)
    BY <1>1 DEF TakeOutcome
  <2>3. CASE ParsesAttrs(record)
    <3>1. o.release # o.end
      BY <1>5, <1>7, <1>8, <2>3
    <3>2. pending_release' = [parser |-> batch.parser, set |-> log_set[batch.parser],
            chunk |-> ChunkOf(record), begin |-> o.end, end |-> o.release, slot |-> record]
      BY <2>2, <3>1 DEF LeaveRelease
    <3>3. batch.parser \in Parsers /\ log_set[batch.parser] \in 0..1
      BY <1>1, BatchSizes DEF PoolInv, LogsInv
    <3>4. ChunkOf(record) \in Nat
      BY <1>1, SlotFound
    <3>5. pending_release' \in Lefts
      BY <1>2, <1>8, <3>2, <3>3, <3>4 DEF Lefts
    <3>6. pending_release' # None
      BY <3>5, Sizes
    <3> QED
      BY <2>3, <3>2, <3>6 DEF Due
  <2>4. CASE ~ParsesAttrs(record)
    <3>1. pending_release' = None
      BY <1>5, <1>7, <2>2, <2>4 DEF LeaveRelease
    <3> QED
      BY <2>1, <2>4, <3>1 DEF Due
  <2> QED
    BY <2>3, <2>4
<1>12. counted' = [counted EXCEPT ![record] = @ + 1]
  BY <1>1 DEF TakeOutcome
<1>13. UNCHANGED <<medium, choice, reader, pool, dropped, second>>
  BY DEF TakeParsed, still
<1> DEFINE Rest ==
      /\ HeldCall /\ record' = record /\ ended' = ended /\ pc' = "next"
      /\ \/ /\ record \in WaitSet
            /\ \E w : w.record = record /\ waiting' = Append(waiting, w)
            /\ entry_index' = Append(entry_index, Len(entries) + 1)
            /\ entries' = Append(entries, None)
         \/ /\ record \notin WaitSet
            /\ SameWaiting
            /\ entry_index' = entry_index
            /\ entries' = IF record \in KeptSet THEN Append(entries, record) ELSE entries
<1>14. HP!IInv
  BY <1>1 DEF HeldInv
<1>15. ASSUME HasList(record), Held!HoldWaiting(record),
              entry_index' = Append(entry_index, Len(entries) + 1),
              entries' = Append(entries, None), pc' = AfterListed
       PROVE  Rest
  <2>1. HeldCall
    BY <1>2, <1>15 DEF HeldCall
  <2>2. /\ record' = record /\ ended' = ended
        /\ \E w : w.record = record /\ waiting' = Append(waiting, w)
    BY <1>14, <1>15, CallEffects
  <2>3. pc' = "next"
    BY <1>15 DEF AfterListed
  <2> QED
    BY <1>6, <1>15, <2>1, <2>2, <2>3
<1>16. ASSUME Kind(record) = "extension",
              Held!MeetExtension(record, layout[record].base, HeldSlot(record)),
              UNCHANGED <<entries, entry_index>>, pc' = "next"
       PROVE  Rest
  <2>1. HeldSlot(record) \in BOOLEAN
    BY DEF HeldSlot, In
  <2>2. HeldCall
    BY <1>2, <1>6, <1>16, <2>1 DEF HeldCall
  <2>3. record' = record /\ ended' = ended /\ SameWaiting
    BY <1>14, <1>16, CallEffects
  <2>4. record \notin WaitSet /\ record \notin KeptSet
    BY <1>6, <1>16 DEF HasList, IsKept
  <2> QED
    BY <1>16, <2>2, <2>3, <2>4
<1>17. ASSUME ~HasList(record), Kind(record) # "extension", UNCHANGED <<held, entry_index>>,
              entries' = IF IsKept(record) THEN Append(entries, record) ELSE entries, pc' = "next"
       PROVE  Rest
  <2>1. HeldCall
    BY <1>17 DEF HeldCall
  <2>2. record' = record /\ ended' = ended /\ waiting' = waiting
    BY <1>17 DEF held
  <2>3. SameWaiting
    BY <2>2 DEF SameWaiting
  <2> QED
    BY <1>6, <1>17, <2>1, <2>2, <2>3
<1> HIDE DEF Rest
<1>18. Rest
  BY <1>5, <1>15, <1>16, <1>17 DEF TakeParsed
<1> QED
  BY <1>1, <1>10, <1>11, <1>12, <1>13, <1>18 DEF Rest, SlotMove

LEMMA ParseHereMoves ==
  ASSUME IInv, ParseHere
  PROVE  SlotMove
<1> DEFINE waits == HasList(record) /\ Served(record)
           attrs == Kind(record) \in {"plain", "lost", "stream"} \/ (HasList(record) /\ ~waits)
<1>1. /\ HeldInv /\ MediumInv /\ WindowsInv /\ PoolInv /\ LogsInv /\ PendingInv /\ SinksInv
      /\ pc = "here"
  BY DEF IInv, ParseHere
<1>2. /\ record \in Used /\ record \in Records /\ record \in Nat /\ fresh /\ ~ended
  BY <1>1, WhereItIs DEF AtSlot
<1>3. /\ ~MustLoad(record) /\ LoadLines(record) = <<>>
      /\ Served(record) <=> ReadInWindow(record)
  BY <1>1, HereServed
<1>4. /\ Kind(record) \in Kinds \ {"free"} /\ Kind(record) = layout[record].kind
      /\ layout[record].base \in Held!Bases
      /\ record \in WaitSet <=> HasList(record) /\ ReadInWindow(record)
      /\ record \in KeptSet <=> IsKept(record)
  BY <1>1, <1>2, KindIs
<1>5. record \in WaitSet <=> waits
  BY <1>3, <1>4
<1>6. ParsesAttrs(record) <=> attrs
  BY <1>3 DEF ParsesAttrs, Waits
<1>7. ParseOnScanner(PendingLines \o LoadLines(record), "parse", record, attrs)
  BY DEF ParseHere
<1>8. sinks' = (sinks \o LineIf("release", Due)) \o Line("parse", record)
  <2> DEFINE p == PendingLines
             c == ClearLines
             l == Line("parse", record)
  <2>1. sinks' = sinks \o (PendingLines \o LoadLines(record)) \o ClearLines \o Line("parse", record)
    BY <1>7 DEF ParseOnScanner
  <2>2. p \in Seq(Lines) /\ c \in Seq(Lines) /\ p \o c = LineIf("release", Due)
    BY <1>1, DueLines
  <2>3. l \in Seq(Lines)
    BY <1>2, LineTyped
  <2>4. sinks \in Seq(Lines)
    BY <1>1 DEF SinksInv
  <2>5. p \o <<>> = p
    BY <2>2, JoinTwo
  <2>6. sinks' = ((sinks \o p) \o c) \o l
    BY <2>1, <2>5, <1>3
  <2> HIDE DEF p, c, l
  <2>7. Regrouped(sinks, p, c, l)
    BY <2>2, <2>3, <2>4, JoinFour
  <2> QED
    BY <2>2, <2>6, <2>7 DEF Regrouped, l
<1>9. Due' = IF ParsesAttrs(record) THEN record ELSE None
  BY <1>6, <1>7 DEF Due, ParseOnScanner
<1>10. counted' = [counted EXCEPT ![record] = @ + 1] /\ pc' = "next"
  BY <1>7 DEF ParseOnScanner, ParseHere
<1>11. UNCHANGED <<medium, choice, reader, pool, dropped, second>>
  BY <1>3 DEF ParseHere, ServeWindow
<1> DEFINE Rest ==
      /\ HeldCall /\ record' = record /\ ended' = ended
      /\ \/ /\ record \in WaitSet
            /\ \E w : w.record = record /\ waiting' = Append(waiting, w)
            /\ entry_index' = Append(entry_index, Len(entries) + 1)
            /\ entries' = Append(entries, None)
         \/ /\ record \notin WaitSet
            /\ SameWaiting
            /\ entry_index' = entry_index
            /\ entries' = IF record \in KeptSet THEN Append(entries, record) ELSE entries
<1>12. HP!IInv
  BY <1>1 DEF HeldInv
<1>13. ASSUME waits, Held!HoldWaiting(record),
              entry_index' = Append(entry_index, Len(entries) + 1),
              entries' = Append(entries, None)
       PROVE  Rest
  <2>1. HeldCall
    BY <1>2, <1>13 DEF HeldCall
  <2>2. /\ record' = record /\ ended' = ended
        /\ \E w : w.record = record /\ waiting' = Append(waiting, w)
    BY <1>12, <1>13, CallEffects
  <2> QED
    BY <1>5, <1>13, <2>1, <2>2
<1>14. ASSUME HasList(record), ~waits, Held!Confirm(record), UNCHANGED entry_index,
              entries' = IF IsKept(record) THEN Append(entries, record) ELSE entries
       PROVE  Rest
  <2>1. HeldCall
    BY <1>2, <1>14 DEF HeldCall
  <2>2. record' = record /\ ended' = ended /\ waiting' = waiting
    BY <1>12, <1>14, CallEffects
  <2>3. SameWaiting
    BY <2>2 DEF SameWaiting
  <2> QED
    BY <1>4, <1>5, <1>14, <2>1, <2>2, <2>3
<1>15. ASSUME Kind(record) = "extension",
              Held!MeetExtension(record, layout[record].base, Served(record)),
              UNCHANGED <<entries, entry_index>>
       PROVE  Rest
  <2>1. Served(record) \in BOOLEAN
    BY DEF Served, In, MustLoad, LoadFails
  <2>2. HeldCall
    BY <1>2, <1>4, <1>15, <2>1 DEF HeldCall
  <2>3. record' = record /\ ended' = ended /\ SameWaiting
    BY <1>12, <1>15, CallEffects
  <2>4. record \notin WaitSet /\ record \notin KeptSet
    BY <1>4, <1>15 DEF HasList, IsKept
  <2> QED
    BY <1>15, <2>2, <2>3, <2>4
<1>16. ASSUME ~HasList(record), Kind(record) # "extension", UNCHANGED <<held, entry_index>>,
              entries' = IF IsKept(record) THEN Append(entries, record) ELSE entries
       PROVE  Rest
  <2>1. HeldCall
    BY <1>16 DEF HeldCall
  <2>2. record' = record /\ ended' = ended /\ waiting' = waiting
    BY <1>16 DEF held
  <2>3. SameWaiting
    BY <2>2 DEF SameWaiting
  <2> QED
    BY <1>4, <1>5, <1>16, <2>1, <2>2, <2>3
<1> HIDE DEF Rest
<1>17. Rest
  BY <1>13, <1>14, <1>15, <1>16 DEF ParseHere
<1> QED
  BY <1>1, <1>8, <1>9, <1>10, <1>11, <1>17 DEF Rest, SlotMove

\* The waiting record at hand is parsed, and its entry filled in.
WaitingMove ==
  LET r == waiting[index + 1].record
  IN  /\ pc \in {"waiting_take", "waiting_here"} /\ pc' = "second"
      /\ UNCHANGED <<held, medium, choice, reader, pool, entry_index, on_threads>>
      /\ counted' = [counted EXCEPT ![r] = @ + 1]
      /\ Due' = r
      /\ sinks' = (sinks \o ClearLines) \o Line("reparse", r)
      /\ entries' = [entries EXCEPT ![entry_index[index + 1]] = r]
      /\ dropped' = IF IsKept(r) THEN dropped ELSE dropped \cup {entry_index[index + 1]}
      /\ index' = index + 1

LEMMA WaitingIs ==
  ASSUME HeldInv, WaitingInv, pc \in AtWaiting
  PROVE  /\ index \in Nat /\ index < Len(waiting) /\ index + 1 \in DOMAIN waiting
         /\ waiting[index + 1].record \in Records /\ waiting[index + 1].record \in Nat
         /\ waiting[index + 1].slot # None =>
              content[waiting[index + 1].slot] = waiting[index + 1].record
<1>1. index \in Nat /\ index < Len(waiting)
  BY DEF WaitingInv
<1>2. Len(waiting) \in Nat /\ DOMAIN waiting = 1..Len(waiting) /\ WaitingRight(waiting, content)
  BY HeldFacts DEF HeldInv
<1>3. index + 1 \in DOMAIN waiting
  BY <1>1, <1>2
<1> QED
  BY <1>1, <1>2, <1>3, SlotsAre DEF WaitingRight

LEMMA TakeWaitingMoves ==
  ASSUME IInv, TakeWaiting
  PROVE  WaitingMove
<1> DEFINE r == waiting[index + 1].record
           o == OutcomeAt(index)
           log == LogOf(ChunkOf(index))
<1>1. /\ HeldInv /\ PoolInv /\ LogsInv /\ PendingInv /\ SinksInv /\ WaitingInv
      /\ pc = "waiting_take" /\ Parsed(index) /\ ~OutcomeAt(index).needs
      /\ TakeOutcome(index, r) /\ FillEntry(o.of)
  BY DEF IInv, TakeWaiting
<1>2. index \in Nat /\ r \in Records /\ r \in Nat
  BY <1>1, WaitingIs DEF AtWaiting
<1>3. /\ Right(o, log, r, "reparse", FALSE, TRUE) /\ o \in Outcomes /\ log \in Seq(Lines)
  BY <1>1, <1>2, WaitingFound
<1>4. /\ o.of = r /\ o.begin + 1 = o.end /\ o.end <= Len(log)
      /\ log[o.end] = [what |-> "reparse", record |-> r]
      /\ o.release = o.end + 1
  BY <1>3 DEF Right
<1>5. o.begin \in Nat /\ o.end \in Nat /\ o.release \in Nat
  BY <1>3 DEF Outcomes
<1>6. Replay(log, o.begin, o.end) = Line("reparse", r)
  <2>1. Replay(log, o.begin, o.end) = <<log[o.end]>>
    BY <1>3, <1>4, <1>5, ReplayRight
  <2> QED
    BY <1>4, <2>1 DEF Line
<1>7. pending_release = None
  BY <1>1 DEF PendingInv, AtWaiting
<1>8. sinks' = (sinks \o ClearLines) \o Line("reparse", r)
  <2>1. sinks' = sinks \o PendingLines \o (IF parsed_here THEN ClearLines ELSE <<>>)
                 \o Replay(log, o.begin, o.end)
    BY <1>1 DEF TakeOutcome
  <2>2. (IF parsed_here THEN ClearLines ELSE <<>>) = ClearLines /\ PendingLines = <<>>
    BY <1>1, <1>7, DueLines
  <2>3. sinks \in Seq(Lines)
    BY <1>1 DEF SinksInv
  <2>4. sinks \o <<>> = sinks
    BY <2>3, JoinTwo
  <2> QED
    BY <1>6, <2>1, <2>2, <2>4
<1>9. Due' = r
  <2>1. pending_release' = [parser |-> batch.parser, set |-> log_set[batch.parser],
          chunk |-> ChunkOf(index), begin |-> o.end, end |-> o.release, slot |-> r]
    <3>1. o.release # o.end
      BY <1>4, <1>5
    <3> QED
      BY <1>1, <3>1 DEF TakeOutcome, LeaveRelease
  <2>2. batch.parser \in Parsers /\ log_set[batch.parser] \in 0..1
    BY <1>1, BatchSizes DEF PoolInv, LogsInv
  <2>3. ChunkOf(index) \in Nat
    BY <1>1, <1>2, WaitingFound, SlotsAre
  <2>4. pending_release' \in Lefts
    BY <1>2, <1>5, <2>1, <2>2, <2>3 DEF Lefts
  <2>5. pending_release' # None
    BY <2>4, Sizes
  <2> QED
    BY <2>1, <2>5 DEF Due
<1>10. counted' = [counted EXCEPT ![r] = @ + 1]
  BY <1>1 DEF TakeOutcome
<1>11. /\ entries' = [entries EXCEPT ![entry_index[index + 1]] = r]
       /\ dropped' = IF IsKept(r) THEN dropped ELSE dropped \cup {entry_index[index + 1]}
       /\ index' = index + 1 /\ pc' = "second" /\ UNCHANGED <<entry_index, on_threads>>
  BY <1>1, <1>4 DEF FillEntry
<1>12. UNCHANGED <<held, medium, choice, reader, pool>>
  BY DEF TakeWaiting, still
<1> QED
  BY <1>1, <1>8, <1>9, <1>10, <1>11, <1>12 DEF WaitingMove

LEMMA ParseWaitingHereMoves ==
  ASSUME IInv, ParseWaitingHere
  PROVE  WaitingMove
<1> DEFINE r == waiting[index + 1].record
<1>1. /\ HeldInv /\ LogsInv /\ PendingInv /\ SinksInv /\ WaitingInv
      /\ pc = "waiting_here" /\ ParseOnScanner(<<>>, "reparse", r, TRUE)
      /\ UNCHANGED <<held, medium, choice, reader, pool>>
  BY DEF IInv, ParseWaitingHere
<1>2. r \in Nat /\ (waiting[index + 1].slot # None => content[waiting[index + 1].slot] = r)
  BY <1>1, WaitingIs DEF AtWaiting
<1>3. FillEntry(r)
  <2>1. FillEntry(IF waiting[index + 1].slot = None THEN r ELSE content[waiting[index + 1].slot])
    BY DEF ParseWaitingHere
  <2> QED
    BY <1>2, <2>1
<1>4. sinks' = (sinks \o ClearLines) \o Line("reparse", r)
  <2>1. sinks' = sinks \o <<>> \o ClearLines \o Line("reparse", r)
    BY <1>1 DEF ParseOnScanner
  <2>2. sinks \in Seq(Lines)
    BY <1>1 DEF SinksInv
  <2>3. sinks \o <<>> = sinks
    BY <2>2, JoinTwo
  <2> QED
    BY <2>1, <2>3
<1>5. Due' = r /\ counted' = [counted EXCEPT ![r] = @ + 1]
  BY <1>1 DEF ParseOnScanner, Due
<1>6. /\ entries' = [entries EXCEPT ![entry_index[index + 1]] = r]
      /\ dropped' = IF IsKept(r) THEN dropped ELSE dropped \cup {entry_index[index + 1]}
      /\ index' = index + 1 /\ pc' = "second" /\ UNCHANGED <<entry_index, on_threads>>
  BY <1>3 DEF FillEntry
<1> QED
  BY <1>1, <1>4, <1>5, <1>6 DEF WaitingMove
----------------------------------------------------------------------------
(* Every step keeps the invariant: HeldRecords. *)

LEMMA SameVolume ==
  ASSUME UNCHANGED medium
  PROVE  /\ Used' = Used /\ WaitSet' = WaitSet /\ KeptSet' = KeptSet /\ Found' = Found
         /\ UNCHANGED <<layout, plan, failing>>
         /\ MediumInv => MediumInv'
<1>1. UNCHANGED <<layout, plan, failing>>
  BY DEF medium
<1>2. \A r : Kind(r)' = Kind(r) /\ IsFree(r)' = IsFree(r)
  BY <1>1 DEF Kind, IsFree
<1>3. Used' = Used
  BY <1>2 DEF Used
<1>4. \A r : Waits(r)' = Waits(r) /\ IsKept(r)' = IsKept(r)
  BY <1>1, <1>2 DEF Waits, HasList, ReadInWindow, IsKept
<1>5. WaitSet' = WaitSet /\ KeptSet' = KeptSet
  BY <1>3, <1>4 DEF WaitSet, KeptSet
<1>6. \A r : FirstParse(r)' = FirstParse(r)
  <2>1. \A r : FailsFirst(r)' = FailsFirst(r)
    BY <1>1, <1>3 DEF FailsFirst
  <2>2. \A r : ParsesAttrs(r)' = ParsesAttrs(r)
    BY <1>2, <1>4 DEF ParsesAttrs, HasList
  <2> QED
    BY <1>1, <2>1, <2>2 DEF FirstParse
<1>7. Found' = Found
  BY <1>3, <1>6 DEF Found
<1>8. MediumInv => MediumInv'
  BY <1>1 DEF MediumInv
<1> QED
  BY <1>1, <1>3, <1>5, <1>7, <1>8

\* The steps, as the proofs take them apart.
Steps ==
  \/ WorkMove \/ NextSlot \/ BeginWindow \/ TakeRefused
  \/ (TakeParsed \/ ParseHere) /\ SlotMove
  \/ LeaveLoop \/ EndFirstPass \/ NextWaiting \/ BeginBatch \/ WaitingRefused
  \/ (TakeWaiting \/ ParseWaitingHere) /\ WaitingMove
  \/ LeaveSecondPass \/ EndSecondPass \/ Destroy
  \/ UNCHANGED vars

LEMMA StepsAre ==
  ASSUME IInv, [Next]_vars
  PROVE  Steps
<1>1. ASSUME ScannerStep PROVE Steps
  BY <1>1, WorkMoves, TakeParsedMoves, ParseHereMoves, TakeWaitingMoves, ParseWaitingHereMoves
     DEF ScannerStep, Steps
<1>2. ASSUME NEW h \in Helpers, HelperStep(h) PROVE Steps
  BY <1>2, WorkMoves DEF Steps
<1>3. ASSUME Gone \/ UNCHANGED vars PROVE Steps
  BY <1>3 DEF Gone, Steps
<1> QED
  BY <1>1, <1>2, <1>3 DEF Next

LEMMA MediumStays ==
  ASSUME Steps
  PROVE  UNCHANGED medium
BY DEF Steps, WorkMove, NextSlot, BeginWindow, TakeRefused, SlotMove, LeaveLoop, EndFirstPass,
       NextWaiting, BeginBatch, WaitingRefused, WaitingMove, LeaveSecondPass, EndSecondPass,
       Destroy, vars, still

\* Where a step may take the scan, when it makes no call.
LEMMA NoCall ==
  ASSUME HeldInv, UNCHANGED <<medium, held>>, pc' \in FirstPcs \cup SecondPcs,
         pc' \in AtSlot => pc \in AtSlot, pc \in FirstPcs <=> pc' \in FirstPcs
  PROVE  HeldInv' /\ HeldCall
<1>1. HeldCall
  BY DEF HeldCall
<1>2. HP!IInv'
  BY <1>1, CallKeeps DEF HeldInv
<1>3. Used' = Used /\ UNCHANGED <<record, fresh, ended>>
  BY SameVolume DEF held
<1>4. ended' = (pc' \in SecondPcs)
  BY <1>3 DEF HeldInv, FirstPcs, SecondPcs, AtSlot, AtWaiting
<1>5. pc' \in AtSlot => fresh' /\ record' \in Used'
  BY <1>3 DEF HeldInv
<1> QED
  BY <1>1, <1>2, <1>4, <1>5 DEF HeldInv

LEMMA NextSlotCalls ==
  ASSUME HeldInv, NextSlot
  PROVE  /\ HeldInv' /\ HeldCall
         /\ record' = Held!Position /\ record' \in Records /\ waiting' = waiting
         /\ IsFree(record') => pc' = "next"
         /\ ~IsFree(record') => record' \in Used
<1> DEFINE r == Held!Position
<1>1. r \in Nat /\ r < RecordCount /\ Held!ReleaseBefore(r) /\ pc = "next" /\ ~ended
  BY WhereItIs DEF NextSlot, FirstPcs
<1>2. r \in Records
  BY <1>1, SlotsAre
<1>3. HeldCall
  BY <1>1, <1>2, SlotsAre DEF HeldCall
<1>4. HP!IInv' /\ HP!IInv
  BY <1>3, CallKeeps DEF HeldInv
<1>5. record' = r /\ fresh' = TRUE /\ ended' = ended /\ waiting' = waiting
  BY <1>1, <1>4, CallEffects
<1>6. pc' \in AtSlot \cup {"next"} /\ (IsFree(r) => pc' = "next") /\ (pc' \in AtSlot => ~IsFree(r))
  BY DEF NextSlot, AtSlot
<1>7. UNCHANGED medium
  BY DEF NextSlot, still
<1>8. Used' = Used /\ (~IsFree(r) => r \in Used)
  BY <1>2, <1>7, SameVolume DEF Used
<1>9. ended' = (pc' \in SecondPcs) /\ pc' \in FirstPcs
  <2>1. pc' \in FirstPcs /\ pc' \notin SecondPcs /\ pc \notin SecondPcs
    BY <1>1, <1>6 DEF FirstPcs, SecondPcs, AtSlot, AtWaiting
  <2>2. ended = (pc \in SecondPcs)
    BY DEF HeldInv
  <2> QED
    BY <1>5, <2>1, <2>2
<1>10. HeldInv'
  BY <1>4, <1>5, <1>6, <1>8, <1>9 DEF HeldInv
<1> QED
  BY <1>2, <1>3, <1>5, <1>6, <1>8, <1>10

LEMMA EndFirstPassCalls ==
  ASSUME HeldInv, EndFirstPass
  PROVE  HeldInv' /\ HeldCall /\ record' = record /\ waiting' = waiting
<1>1. ~ended /\ Held!Finish /\ pc' = "second"
  BY WhereItIs DEF EndFirstPass, FirstPcs
<1>2. HeldCall
  BY <1>1 DEF HeldCall
<1>3. HP!IInv' /\ HP!IInv
  BY <1>2, CallKeeps DEF HeldInv
<1>4. record' = record /\ ended' = TRUE /\ waiting' = waiting
  BY <1>1, <1>3, CallEffects
<1>5. HeldInv'
  <2>1. pc' \in SecondPcs /\ pc' \notin AtSlot
    BY <1>1 DEF SecondPcs, AtSlot
  <2> QED
    BY <1>3, <1>4, <2>1 DEF HeldInv
<1> QED
  BY <1>2, <1>4, <1>5

LEMMA SlotMoveCalls ==
  ASSUME HeldInv, SlotMove
  PROVE  HeldInv' /\ HeldCall
<1>1. HeldCall /\ pc' = "next" /\ record' = record /\ ended' = ended /\ ~ended
  BY WhereItIs DEF SlotMove, AtSlot
<1>2. HP!IInv'
  BY <1>1, CallKeeps DEF HeldInv
<1>3. HeldInv'
  <2>1. pc' \in FirstPcs /\ pc' \notin SecondPcs /\ pc' \notin AtSlot
    BY <1>1 DEF FirstPcs, SecondPcs, AtSlot, AtWaiting
  <2>2. pc \notin SecondPcs
    BY DEF SlotMove, SecondPcs, AtWaiting
  <2>3. ended = (pc \in SecondPcs)
    BY DEF HeldInv
  <2> QED
    BY <1>1, <1>2, <2>1, <2>2, <2>3 DEF HeldInv
<1> QED
  BY <1>1, <1>3

LEMMA HeldStays ==
  ASSUME IInv, Steps
  PROVE  HeldInv' /\ HeldCall
<1>1. HeldInv
  BY DEF IInv
<1>2. UNCHANGED medium
  BY MediumStays
<1>3. CASE WorkMove \/ UNCHANGED vars
  <2>1. UNCHANGED <<held, pc>>
    BY <1>3 DEF WorkMove, vars
  <2>2. pc \in FirstPcs \cup SecondPcs
    BY <1>1 DEF HeldInv
  <2> QED
    BY <1>1, <1>2, <2>1, <2>2, NoCall
<1>4. CASE NextSlot
  BY <1>1, <1>4, NextSlotCalls
<1>5. CASE BeginWindow
  <2>1. UNCHANGED held /\ pc = "window" /\ pc' \in {"here", "take"}
    BY <1>5 DEF BeginWindow
  <2>2. pc' \in AtSlot /\ pc \in AtSlot /\ pc' \in FirstPcs /\ pc \in FirstPcs
    BY <2>1 DEF AtSlot, FirstPcs
  <2> QED
    BY <1>1, <1>2, <2>1, <2>2, NoCall
<1>6. CASE TakeRefused
  <2>1. UNCHANGED held /\ pc = "take" /\ pc' = "here"
    BY <1>6 DEF TakeRefused
  <2>2. pc' \in AtSlot /\ pc \in AtSlot /\ pc' \in FirstPcs /\ pc \in FirstPcs
    BY <2>1 DEF AtSlot, FirstPcs
  <2> QED
    BY <1>1, <1>2, <2>1, <2>2, NoCall
<1>7. CASE SlotMove
  BY <1>1, <1>7, SlotMoveCalls
<1>8. CASE LeaveLoop
  <2>1. UNCHANGED held /\ pc = "next" /\ pc' = "end_first"
    BY <1>8 DEF LeaveLoop
  <2>2. pc' \notin AtSlot /\ pc' \in FirstPcs /\ pc \in FirstPcs
    BY <2>1 DEF AtSlot, FirstPcs
  <2> QED
    BY <1>1, <1>2, <2>1, <2>2, NoCall
<1>9. CASE EndFirstPass
  BY <1>1, <1>9, EndFirstPassCalls
<1>10. CASE \/ NextWaiting \/ BeginBatch \/ WaitingRefused \/ WaitingMove \/ LeaveSecondPass
            \/ EndSecondPass \/ Destroy
  <2>1. /\ UNCHANGED held
        /\ pc \in {"second", "waiting_batch", "waiting_take", "waiting_here", "end_second", "destroy"}
        /\ pc' \in {"second", "waiting_batch", "waiting_take", "waiting_here", "end_second",
                    "destroy", "gone"}
    BY <1>10 DEF NextWaiting, BeginBatch, WaitingRefused, WaitingMove, LeaveSecondPass,
                 EndSecondPass, Destroy
  <2>2. pc' \notin AtSlot /\ pc' \notin FirstPcs /\ pc \notin FirstPcs /\ pc' \in SecondPcs
    BY <2>1 DEF AtSlot, FirstPcs, SecondPcs, AtWaiting
  <2> QED
    BY <1>1, <1>2, <2>1, <2>2, NoCall
<1> QED
  BY <1>3, <1>4, <1>5, <1>6, <1>7, <1>8, <1>9, <1>10 DEF Steps
----------------------------------------------------------------------------
(* Every step keeps the invariant: the windows. *)

\* The scan stays where it is.
LEMMA WindowsKept ==
  ASSUME HeldInv, HeldInv', WindowsInv,
         UNCHANGED <<medium, reader, serial_until, record>>,
         pc' \in {"here", "take"} => pc \in {"here", "take"},
         pc' = "window" <=> pc = "window",
         pc \in {"here", "take"} => pc' \in {"here", "take", "next"},
         pc' \in FirstPcs => pc \in FirstPcs
  PROVE  WindowsInv'
<1>1. /\ UNCHANGED <<layout, plan, failing, window, failed, buffer, serial_until, record>>
      /\ Used' = Used
  BY SameVolume DEF reader
<1>2. Held!Position' = Held!Position
  BY <1>1 DEF Held!Position
<1>3. ASSUME NEW u \in Used PROVE Looked(u)' <=> Looked(u)
  <2>1. u \in Nat
    BY SlotsAre
  <2>2. CASE pc \in {"here", "take"}
    <3>1. Through = record /\ Held!Position = record + 1 /\ record \in Nat
      BY <2>2, WhereItIs DEF AtSlot
    <3>2. Looked(u) <=> u < record + 1
      BY <2>1, <2>2, <3>1 DEF Looked
    <3>3. CASE pc' = "next"
      <4>1. Through' = record + 1
        BY <3>1, <3>3, <1>2 DEF Through, AtSlot
      <4> QED
        BY <3>2, <3>3, <4>1 DEF Looked
    <3>4. CASE pc' \in {"here", "take"}
      <4>1. Through' = record
        BY <3>4, <1>1 DEF Through, AtSlot
      <4> QED
        BY <1>1, <2>1, <3>1, <3>2, <3>4, <4>1 DEF Looked
    <3> QED
      BY <2>2, <3>3, <3>4
  <2>3. CASE pc \notin {"here", "take"}
    <3>1. Through' = Through
      BY <1>1, <1>2, <2>3 DEF Through, AtSlot
    <3> QED
      BY <1>1, <2>3, <3>1 DEF Looked
  <2> QED
    BY <2>2, <2>3
<1>4. WindowRight(window, plan, failing)' /\ FailedRight(failed, plan, failing)'
      /\ (window = NoRange \/ buffer = window.first)'
  BY <1>1 DEF WindowsInv, WindowRight, FailedRight
<1>5. FailedWasLooked'
  BY <1>1, <1>3 DEF WindowsInv, FailedWasLooked
<1>6. FailedBehind'
  BY <1>1, <1>3 DEF WindowsInv, FailedBehind
<1>7. SerialRight'
  BY <1>1, <1>2 DEF WindowsInv, SerialRight
<1>8. pc' \in {"here", "take"} => ~MustLoad(record)'
  <2>1. MustLoad(record)' = MustLoad(record)
    BY <1>1 DEF MustLoad
  <2> QED
    BY <2>1 DEF WindowsInv
<1> QED
  BY <1>4, <1>5, <1>6, <1>7, <1>8 DEF WindowsInv

\* The scan goes on to the next slot.
LEMMA NextSlotWindows ==
  ASSUME HeldInv, MediumInv, WindowsInv, PoolInv, NextSlot
  PROVE  WindowsInv'
<1> DEFINE r == Held!Position
<1>1. /\ r \in Nat /\ r < RecordCount /\ pc = "next" /\ Through = r
      /\ UNCHANGED <<layout, plan, failing, window, failed, buffer, serial_until>>
      /\ pc' = IF IsFree(r) THEN "next"
               ELSE IF r < serial_until THEN "here"
               ELSE IF Covers(r) THEN "take" ELSE "window"
  BY WhereItIs DEF NextSlot, still, medium, reader, choice, AtSlot
<1>2. record' = r /\ r \in Records /\ Used' = Used /\ (~IsFree(r) => r \in Used)
  <2>1. UNCHANGED medium
    BY DEF NextSlot, still
  <2> QED
    BY <2>1, <1>1, NextSlotCalls, SameVolume, SlotsAre DEF Used
<1>3. Held!Position' = r + 1
  BY <1>1, <1>2, Sizes DEF Held!Position
<1> HIDE DEF r
<1>4. pc' \in {"here", "take"} => In(r, window) /\ r \in Used
  <2>1. ASSUME pc' = "here" PROVE In(r, window)
    <3>1. r < serial_until
      BY <1>1, <2>1
    <3> QED
      BY <1>1, <1>2, <3>1 DEF WindowsInv, SerialRight, FirstPcs, r
  <2>2. ASSUME pc' = "take" PROVE In(r, window)
    <3>1. batch.active /\ In(r, batch)
      BY <1>1, <2>2 DEF Covers
    <3>2. batch.parser = "window"
      <4>1. pc \notin SecondPcs
        BY <1>1 DEF SecondPcs, AtWaiting
      <4>2. batch.parser \in Parsers
        BY BatchSizes DEF PoolInv
      <4> QED
        BY <4>1, <4>2 DEF PoolInv, Parsers
    <3>3. window = [first |-> batch.first, last |-> batch.last]
      BY <3>1, <3>2 DEF PoolInv, Live
    <3> QED
      BY <3>1, <3>3 DEF In
  <2> QED
    BY <1>1, <1>2, <2>1, <2>2
<1>5. ASSUME NEW u \in Used
      PROVE  Looked(u)' <=> (Looked(u) \/ (u = r /\ pc' \in {"here", "take"}))
  <2>1. u \in Nat /\ (Looked(u) <=> u < r)
    BY <1>1, SlotsAre DEF Looked
  <2>2. CASE pc' \in AtSlot
    <3>1. Through' = r
      BY <1>2, <2>2 DEF Through
    <3> QED
      BY <1>2, <2>1, <3>1 DEF Looked
  <2>3. CASE pc' = "next"
    <3>1. IsFree(r)
      BY <1>1, <2>3
    <3>2. Through' = r + 1
      BY <1>3, <2>3 DEF Through, AtSlot
    <3>3. u # r
      BY <3>1 DEF Used
    <3> QED
      BY <1>1, <2>1, <2>3, <3>2, <3>3 DEF Looked
  <2> QED
    BY <1>1, <2>2, <2>3 DEF AtSlot
<1>6. WindowRight(window, plan, failing)' /\ FailedRight(failed, plan, failing)'
      /\ (window = NoRange \/ buffer = window.first)'
  BY <1>1 DEF WindowsInv, WindowRight, FailedRight
<1>7. FailedWasLooked'
  BY <1>1, <1>2, <1>5 DEF WindowsInv, FailedWasLooked
<1>8. In(r, window) => WindowFor(plan, r) = window /\ window.first \notin failing
  BY <1>2 DEF WindowsInv, WindowRight
<1>9. FailedBehind'
  <2> SUFFICES ASSUME NEW u \in Used, Looked(u)', WindowFor(plan, u) # NoRange,
                      WindowFor(plan, u).first \in failing
               PROVE  WindowFor(plan, u) = failed \/ WindowFor(plan, u).last <= r
    BY <1>1, <1>2 DEF FailedBehind
  <2>1. Looked(u)
    BY <1>4, <1>5, <1>8
  <2>2. WindowFor(plan, u) = failed \/ WindowFor(plan, u).last <= record
    BY <2>1 DEF WindowsInv, FailedBehind
  <2>3. record \in Nat /\ record < r
    <3>1. u < r /\ u \in Nat
      BY <1>1, <2>1, SlotsAre DEF Looked
    <3>2. record \in Records \cup {None}
      BY HeldFacts DEF HeldInv
    <3> QED
      BY <3>1, <3>2, SlotsAre DEF Held!Position, r
  <2>4. WindowFor(plan, u).last \in Nat
    BY SlotsAre, WindowForRight DEF MediumInv, Ranges
  <2> QED
    BY <1>1, <2>2, <2>3, <2>4
<1>10. SerialRight'
  <2>1. serial_until \in Nat
    BY DEF WindowsInv, SerialRight
  <2>2. \A x \in Records : r <= x /\ x < serial_until => In(x, window)
    BY <1>1 DEF WindowsInv, SerialRight, FirstPcs, r
  <2>3. \A x \in Records : r + 1 <= x => r <= x
    BY <1>1, SlotsAre
  <2>4. pc' = "window" => serial_until <= r
    BY <1>1, <2>1
  <2> QED
    BY <1>1, <1>2, <1>3, <2>1, <2>2, <2>3, <2>4 DEF SerialRight
<1>11. pc' \in {"here", "take"} => ~MustLoad(record)'
  BY <1>1, <1>2, <1>4 DEF MustLoad
<1> QED
  BY <1>6, <1>7, <1>9, <1>10, <1>11 DEF WindowsInv

\* What ServeWindow() comes to for the slot at hand.
LEMMA WindowServes ==
  ASSUME HeldInv, MediumInv, WindowsInv, pc = "window"
  PROVE  LoadFails(record) <=> FailsFirst(record)
<1> DEFINE w == WindowFor(plan, record)
<1>1. /\ record \in Used /\ record \in Records /\ record \in Nat /\ Through = record
      /\ RangesUpTo(plan, RecordCount)
  BY WhereItIs DEF AtSlot, MediumInv
<1>2. w \in Ranges /\ (w # NoRange => In(record, w) /\ record >= FirstMapped)
  BY <1>1, WindowForRight
<1>3. \A u \in Used : u < record <=> Looked(u)
  BY <1>1 DEF Looked
<1> HIDE DEF w
<1>4. ASSUME LoadFails(record) PROVE FailsFirst(record)
  <2>1. w # NoRange /\ w.first \in failing /\ ~In(record, failed)
    BY <1>4 DEF LoadFails, MustLoad, w
  <2>2. ASSUME NEW u \in Used, u < record, WindowFor(plan, u) = w PROVE FALSE
    <3>1. w = failed \/ w.last <= record
      BY <1>3, <2>1, <2>2 DEF WindowsInv, FailedBehind
    <3>2. In(record, w)
      BY <1>2, <2>1
    <3>3. w.last \in Nat
      BY <1>2 DEF Ranges
    <3> QED
      BY <1>1, <2>1, <3>1, <3>2, <3>3 DEF In
  <2> QED
    BY <2>1, <2>2 DEF FailsFirst, w
<1>5. ASSUME FailsFirst(record) PROVE LoadFails(record)
  <2>1. /\ w # NoRange /\ w.first \in failing
        /\ \A u \in Used : u < record => WindowFor(plan, u) # w
    BY <1>5 DEF FailsFirst, w
  <2>2. ~In(record, failed)
    <3> SUFFICES ASSUME In(record, failed) PROVE FALSE
      OBVIOUS
    <3>1. failed # NoRange
      BY <1>1 DEF In, NoRange
    <3>2. PICK u \in Used : Looked(u) /\ WindowFor(plan, u) = failed
      BY <3>1 DEF WindowsInv, FailedWasLooked
    <3>3. w = failed
      BY <1>1 DEF WindowsInv, FailedRight, w
    <3> QED
      BY <1>3, <2>1, <3>2, <3>3
  <2>3. ~In(record, window)
    BY <1>1, <2>1 DEF WindowsInv, WindowRight, w
  <2>4. record >= FirstMapped
    BY <1>2, <2>1
  <2> QED
    BY <2>1, <2>2, <2>3, <2>4 DEF LoadFails, MustLoad, w
<1> QED
  BY <1>4, <1>5

LEMMA BeginWindowServes ==
  ASSUME HeldInv, MediumInv, WindowsInv, BeginWindow
  PROVE  /\ window' \in Ranges /\ window'.last <= RecordCount
         /\ WindowRight(window', plan, failing) /\ FailedRight(failed', plan, failing)
         /\ window' = NoRange \/ buffer' = window'.first
         /\ Served(record) <=> In(record, window')
         /\ LoadLines(record) = LineIf("load", FirstParse(record).load)
         /\ \/ ~MustLoad(record) /\ UNCHANGED reader
            \/ /\ MustLoad(record) /\ LoadFails(record)
               /\ failed' = WindowFor(plan, record) /\ window' = NoRange
            \/ /\ MustLoad(record) /\ ~LoadFails(record)
               /\ failed' = failed /\ window' = WindowFor(plan, record)
<1> DEFINE w == WindowFor(plan, record)
<1>1. /\ record \in Used /\ record \in Records /\ record \in Nat
      /\ RangesUpTo(plan, RecordCount) /\ pc = "window" /\ ServeWindow(record)
  BY WhereItIs DEF BeginWindow, AtSlot, MediumInv
<1>2. /\ w \in Ranges /\ w.last <= RecordCount
      /\ w # NoRange => In(record, w)
  BY <1>1, WindowForRight
<1>3. \A x \in Records : In(x, w) => WindowFor(plan, x) = w
  BY <1>1, SlotsAre, WindowForSame
<1>4. LoadLines(record) = LineIf("load", FirstParse(record).load)
  <2>1. w.first \in Nat /\ w.first # None
    BY <1>2, Sizes DEF Ranges
  <2>2. LoadFails(record) <=> FailsFirst(record)
    BY <1>1, WindowServes
  <2>3. FirstParse(record).load = IF FailsFirst(record) THEN w.first ELSE None
    BY DEF FirstParse
  <2> QED
    BY <2>1, <2>2, <2>3 DEF LoadLines, LineIf
<1>5. NoRange \in Ranges /\ NoRange.last <= RecordCount /\ \A x \in Nat : ~In(x, NoRange)
  BY Sizes DEF NoRange, Ranges, In
<1>6. WindowRight(NoRange, plan, failing)
  BY <1>5, SlotsAre DEF WindowRight
<1>7. CASE ~MustLoad(record)
  <2>1. UNCHANGED <<window, failed, buffer>>
    BY <1>1, <1>7 DEF ServeWindow, reader
  <2>2. Served(record) <=> In(record, window)
    BY <1>7 DEF Served
  <2> QED
    BY <1>4, <1>7, <2>1, <2>2 DEF WindowsInv, WindowRight, reader
<1>8. CASE MustLoad(record) /\ LoadFails(record)
  <2>1. window' = NoRange /\ failed' = w /\ w # NoRange /\ w.first \in failing
        /\ ~In(record, window)
    BY <1>1, <1>8 DEF ServeWindow, MustLoad, LoadFails
  <2>2. FailedRight(w, plan, failing)
    BY <1>2, <1>3, <2>1 DEF FailedRight
  <2>3. ~Served(record)
    BY <1>8, <2>1 DEF Served
  <2> QED
    BY <1>1, <1>4, <1>5, <1>6, <1>8, <2>1, <2>2, <2>3
<1>9. CASE MustLoad(record) /\ ~LoadFails(record)
  <2>1. window' = w /\ failed' = failed /\ buffer' = w.first /\ w # NoRange
        /\ w.first \notin failing
    BY <1>1, <1>9 DEF ServeWindow, MustLoad, LoadFails
  <2>2. WindowRight(w, plan, failing)
    BY <1>2, <1>3, <2>1 DEF WindowRight
  <2>3. Served(record) /\ In(record, w)
    BY <1>2, <1>9, <2>1 DEF Served
  <2> QED
    BY <1>2, <1>4, <1>9, <2>1, <2>2, <2>3 DEF WindowsInv
<1> QED
  BY <1>7, <1>8, <1>9

LEMMA BeginWindowWindows ==
  ASSUME HeldInv, MediumInv, WindowsInv, BeginWindow
  PROVE  WindowsInv'
<1> DEFINE w == WindowFor(plan, record)
<1>1. /\ record \in Used /\ record \in Records /\ record \in Nat /\ Through = record
      /\ Held!Position = record + 1
      /\ RangesUpTo(plan, RecordCount) /\ pc = "window" /\ pc' \in {"here", "take"}
  BY WhereItIs DEF BeginWindow, AtSlot, MediumInv
<1>2. /\ UNCHANGED <<layout, plan, failing, record>> /\ Used' = Used
      /\ Held!Position' = record + 1
  <2>1. UNCHANGED <<held, medium>>
    BY DEF BeginWindow
  <2> QED
    BY <1>1, <2>1, SameVolume DEF held, Held!Position
<1>3. /\ window' \in Ranges /\ WindowRight(window', plan, failing)
      /\ FailedRight(failed', plan, failing)
      /\ window' = NoRange \/ buffer' = window'.first
      /\ Served(record) <=> In(record, window')
      /\ \/ ~MustLoad(record) /\ UNCHANGED reader
         \/ MustLoad(record) /\ LoadFails(record) /\ failed' = w /\ window' = NoRange
         \/ MustLoad(record) /\ ~LoadFails(record) /\ failed' = failed /\ window' = w
  BY BeginWindowServes
<1>4. w \in Ranges /\ (w # NoRange => In(record, w))
  BY <1>1, WindowForRight
<1>5. MustLoad(record) => w # NoRange /\ ~In(record, failed) /\ ~In(record, window)
  BY DEF MustLoad
<1>6. LoadFails(record) <=> w.first \in failing /\ MustLoad(record)
  BY DEF LoadFails
<1>7. \A u \in Used : /\ Looked(u) <=> u < record
                      /\ Looked(u)' <=> (u < record \/ u = record)
  <2>1. Through' = record
    BY <1>1, <1>2 DEF Through, AtSlot
  <2> QED
    BY <1>1, <1>2, <2>1 DEF Looked
<1>8. WindowRight(window, plan, failing)' /\ FailedRight(failed, plan, failing)'
      /\ (window = NoRange \/ buffer = window.first)'
  BY <1>2, <1>3
<1> HIDE DEF w
<1>9. FailedWasLooked'
  <2>1. failed' = failed \/ failed' = w
    BY <1>3 DEF reader
  <2>2. CASE failed' = failed
    BY <1>2, <1>7, <2>2 DEF WindowsInv, FailedWasLooked
  <2>3. CASE failed' = w
    BY <1>1, <1>2, <1>7, <2>3 DEF FailedWasLooked, w
  <2> QED
    BY <2>1, <2>2, <2>3
<1>10. FailedBehind'
  <2> SUFFICES ASSUME NEW u \in Used, Looked(u)', WindowFor(plan, u) # NoRange,
                      WindowFor(plan, u).first \in failing
               PROVE  WindowFor(plan, u) = failed' \/ WindowFor(plan, u).last <= record
    BY <1>2 DEF FailedBehind
  <2> DEFINE v == WindowFor(plan, u)
  <2>1. u \in Nat /\ v \in Ranges /\ In(u, v)
    BY <1>1, SlotsAre, WindowForRight
  <2>2. CASE u < record
    <3>1. v = failed \/ v.last <= record
      BY <1>7, <2>2 DEF WindowsInv, FailedBehind
    <3>2. CASE v = failed /\ failed' # failed
      <4>1. ~In(record, failed)
        BY <1>3, <1>5, <3>2 DEF reader
      <4>2. failed.first <= u /\ failed.first \in Nat /\ failed.last \in Nat
        BY <2>1, <3>2 DEF In, Ranges
      <4>3. failed.last <= record
        BY <1>1, <2>1, <2>2, <4>1, <4>2 DEF In
      <4> QED
        BY <3>2, <4>3
    <3> QED
      BY <3>1, <3>2
  <2>3. CASE u = record
    <3>1. v = w
      BY <2>3 DEF w
    <3>2. CASE MustLoad(record)
      <4>1. LoadFails(record)
        BY <1>6, <3>1, <3>2
      <4> QED
        BY <1>3, <3>1, <3>2, <4>1
    <3>3. CASE ~MustLoad(record)
      <4>1. In(record, failed) \/ In(record, window)
        <5>1. record >= FirstMapped
          BY <1>1, <2>3, WindowForRight
        <5> QED
          BY <2>3, <3>3, <5>1 DEF MustLoad
      <4>2. ~In(record, window)
        BY <1>1, <2>3 DEF WindowsInv, WindowRight
      <4>3. w = failed
        BY <1>1, <4>1, <4>2 DEF WindowsInv, FailedRight, w
      <4> QED
        BY <1>3, <3>1, <3>3, <4>3 DEF reader
    <3> QED
      BY <3>2, <3>3
  <2> QED
    BY <1>7, <2>2, <2>3
<1>11. SerialRight'
  <2>1. serial_until \in Nat /\ serial_until <= record
    BY <1>1 DEF WindowsInv, SerialRight
  <2>2. serial_until' = serial_until \/ (serial_until' = window'.last /\ In(record, window'))
    BY <1>3 DEF BeginWindow
  <2>3. window'.first \in Nat /\ window'.last \in Nat
    BY <1>3 DEF Ranges
  <2>4. serial_until' \in Nat
    BY <2>1, <2>2, <2>3
  <2>5. ASSUME NEW x \in Records, record + 1 <= x, x < serial_until' PROVE In(x, window')
    <3>1. x \in Nat
      BY SlotsAre
    <3>2. serial_until' = window'.last /\ In(record, window')
      BY <1>1, <2>1, <2>2, <2>5, <3>1
    <3> QED
      BY <1>1, <2>3, <2>5, <3>1, <3>2 DEF In
  <2> QED
    BY <1>1, <1>2, <2>4, <2>5 DEF SerialRight
<1>12. ~MustLoad(record)'
  <2>1. MustLoad(record)' <=> /\ record >= FirstMapped /\ ~In(record, failed')
                              /\ ~In(record, window') /\ w # NoRange
    BY <1>2 DEF MustLoad, w
  <2>2. CASE ~MustLoad(record)
    BY <1>3, <2>1, <2>2 DEF MustLoad, reader, w
  <2>3. CASE MustLoad(record)
    BY <1>3, <1>4, <1>5, <2>1, <2>3
  <2> QED
    BY <2>2, <2>3
<1> QED
  BY <1>8, <1>9, <1>10, <1>11, <1>12 DEF WindowsInv

LEMMA WindowsStay ==
  ASSUME IInv, Steps
  PROVE  WindowsInv'
<1>1. HeldInv /\ MediumInv /\ WindowsInv /\ PoolInv
  BY DEF IInv
<1>2. UNCHANGED medium /\ HeldInv'
  BY MediumStays, HeldStays
<1>3. CASE WorkMove \/ UNCHANGED vars
  <2>1. UNCHANGED <<reader, serial_until, record, pc>>
    BY <1>3 DEF WorkMove, vars, held, choice
  <2> QED
    BY <1>1, <1>2, <2>1, WindowsKept
<1>4. CASE NextSlot
  BY <1>1, <1>4, NextSlotWindows
<1>5. CASE BeginWindow
  BY <1>1, <1>5, BeginWindowWindows
<1>6. CASE TakeRefused
  <2>1. UNCHANGED <<reader, serial_until, record>> /\ pc = "take" /\ pc' = "here"
    BY <1>6 DEF TakeRefused, held, choice
  <2>2. pc \in FirstPcs
    BY <2>1 DEF FirstPcs, AtSlot
  <2> QED
    BY <1>1, <1>2, <2>1, <2>2, WindowsKept
<1>7. CASE SlotMove
  <2>1. UNCHANGED <<reader, serial_until, record>> /\ pc \in {"here", "take"} /\ pc' = "next"
    BY <1>7 DEF SlotMove, choice
  <2>2. pc \in FirstPcs
    BY <2>1 DEF FirstPcs, AtSlot
  <2> QED
    BY <1>1, <1>2, <2>1, <2>2, WindowsKept
<1>8. CASE LeaveLoop
  <2>1. UNCHANGED <<reader, serial_until, record>> /\ pc = "next" /\ pc' = "end_first"
    BY <1>8 DEF LeaveLoop, held, choice
  <2>2. pc \in FirstPcs
    BY <2>1 DEF FirstPcs, AtSlot
  <2> QED
    BY <1>1, <1>2, <2>1, <2>2, WindowsKept
<1>9. CASE EndFirstPass
  <2>1. record' = record
    BY <1>1, <1>9, EndFirstPassCalls
  <2>2. UNCHANGED <<reader, serial_until>> /\ pc = "end_first" /\ pc' = "second"
    BY <1>9 DEF EndFirstPass, choice
  <2>3. pc' \notin FirstPcs
    BY <2>2 DEF FirstPcs, AtSlot
  <2> QED
    BY <1>1, <1>2, <2>1, <2>2, <2>3, WindowsKept
<1>10. CASE \/ NextWaiting \/ BeginBatch \/ WaitingRefused \/ WaitingMove \/ LeaveSecondPass
            \/ EndSecondPass \/ Destroy
  <2>1. /\ UNCHANGED <<reader, serial_until, record>>
        /\ pc \in {"second", "waiting_batch", "waiting_take", "waiting_here", "end_second", "destroy"}
        /\ pc' \in {"second", "waiting_batch", "waiting_take", "waiting_here", "end_second",
                    "destroy", "gone"}
    BY <1>10 DEF NextWaiting, BeginBatch, WaitingRefused, WaitingMove, LeaveSecondPass,
                 EndSecondPass, Destroy, held, choice
  <2>2. pc' \notin FirstPcs
    BY <2>1 DEF FirstPcs, AtSlot
  <2> QED
    BY <1>1, <1>2, <2>1, <2>2, WindowsKept
<1> QED
  BY <1>3, <1>4, <1>5, <1>6, <1>7, <1>8, <1>9, <1>10 DEF Steps
----------------------------------------------------------------------------
(* Every step keeps the invariant: the pool. *)

\* The chunk a thread parses.
LEMMA JobRight ==
  ASSUME PoolShape(batch, next_chunk, done, job), NEW t \in Threads, job[t] # None
  PROVE  /\ job[t] \in Jobs /\ job[t].chunk \in 0..(next_chunk - 1) /\ job[t].at \in Nat
         /\ job[t] = [chunk |-> job[t].chunk, at |-> job[t].at]
         /\ job[t].chunk \in Nat
         /\ job[t].chunk * SizeOf(batch) <= job[t].at
         /\ job[t].at < (job[t].chunk + 1) * SizeOf(batch)
         /\ job[t].at < PlacesOf(batch)
         /\ job[t].chunk * SizeOf(batch) \in Nat /\ (job[t].chunk + 1) * SizeOf(batch) \in Nat
<1>1. JobOK(batch, next_chunk, job[t])
  BY DEF PoolShape
<1>2. /\ job[t] \in Jobs /\ job[t].chunk < next_chunk
      /\ job[t].chunk * SizeOf(batch) <= job[t].at
      /\ job[t].at < (job[t].chunk + 1) * SizeOf(batch)
      /\ job[t].at < PlacesOf(batch)
  BY <1>1 DEF JobOK
<1>3. job[t].chunk \in Nat /\ job[t].at \in Nat
      /\ job[t] = [chunk |-> job[t].chunk, at |-> job[t].at]
  BY <1>2 DEF Jobs
<1>4. next_chunk \in Nat /\ SizeOf(batch) \in Nat \ {0}
  BY BatchSizes
<1>5. job[t].chunk * SizeOf(batch) \in Nat /\ (job[t].chunk + 1) * SizeOf(batch) \in Nat
  <2> DEFINE c == job[t].chunk
             size == SizeOf(batch)
  <2>1. c \in Nat /\ size \in Nat
    BY <1>3, <1>4
  <2> HIDE DEF c, size
  <2>2. c * size \in Nat /\ (c + 1) * size \in Nat
    BY <2>1
  <2> QED
    BY <2>2 DEF c, size
<1> QED
  BY <1>2, <1>3, <1>4, <1>5

LEMMA TakeChunkShape ==
  ASSUME PoolShape(batch, next_chunk, done, job), NEW t \in Threads, TakeChunk(t)
  PROVE  PoolShape(batch, next_chunk, done, job)' /\ UNCHANGED batch
<1> DEFINE n == next_chunk
           size == SizeOf(batch)
           w == [chunk |-> n, at |-> n * size]
<1>1. /\ job[t] = None /\ job' = [job EXCEPT ![t] = w] /\ next_chunk' = n + 1
      /\ n < CountOf(batch) /\ UNCHANGED <<batch, done>>
  BY BatchSizes DEF TakeChunk
<1>2. n \in Nat /\ size \in Nat \ {0} /\ PlacesOf(batch) \in Nat /\ CountOf(batch) \in Nat
  BY BatchSizes
<1>3. n * size \in Nat /\ (n + 1) * size = n * size + size /\ n * size < PlacesOf(batch)
  BY <1>1, <1>2, ChunksRight DEF CountOf
<1>4. w \in Jobs /\ w.chunk = n /\ w.at = n * size
  BY <1>2, <1>3 DEF Jobs
<1> HIDE DEF w
<1>5. JobOK(batch, n + 1, w)
  BY <1>2, <1>3, <1>4 DEF JobOK
<1>6. ASSUME NEW u \in Threads, job'[u] # None PROVE JobOK(batch, n + 1, job'[u])
  <2>1. CASE u = t
    BY <1>1, <1>5, <2>1 DEF PoolShape
  <2>2. CASE u # t
    <3>1. job'[u] = job[u] /\ JobOK(batch, n, job[u])
      BY <1>1, <1>6, <2>2 DEF PoolShape
    <3>2. job[u].chunk \in Nat
      BY <3>1 DEF JobOK, Jobs
    <3> QED
      BY <1>2, <3>1, <3>2 DEF JobOK
  <2> QED
    BY <2>1, <2>2
<1>7. job' \in [Threads -> Jobs \cup {None}]
  BY <1>1, <1>4 DEF PoolShape
<1>8. /\ BatchOK(batch) /\ done \subseteq 0..n
      /\ ~batch.active => n = CountOf(batch)
  BY <1>2 DEF PoolShape
<1>9. n + 1 \in Nat /\ n + 1 <= CountOf(batch) /\ (n + 1) - 1 = n /\ batch.active
  <2>1. batch.active
    BY <1>1, <1>2, <1>8
  <2> QED
    BY <1>1, <1>2, <2>1
<1> QED
  BY <1>1, <1>6, <1>7, <1>8, <1>9 DEF PoolShape

\* One turn of ParseChunk(), as far as the chunks are concerned.
LEMMA ParseOneJob ==
  ASSUME PoolShape(batch, next_chunk, done, job), NEW t \in Threads, ParseOne(t)
  PROVE  LET w == job[t]
         IN  /\ w # None /\ UNCHANGED <<batch, next_chunk, log_set>>
             /\ \/ /\ w.at + 1 < (w.chunk + 1) * SizeOf(batch) /\ w.at + 1 < PlacesOf(batch)
                   /\ job' = [job EXCEPT ![t].at = w.at + 1] /\ done' = done
                \/ /\ \/ w.at + 1 >= (w.chunk + 1) * SizeOf(batch)
                      \/ w.at + 1 >= PlacesOf(batch)
                   /\ job' = [job EXCEPT ![t] = None] /\ done' = done \cup {w.chunk}
<1> DEFINE w == job[t]
<1>1. w # None /\ UNCHANGED <<batch, next_chunk, log_set>>
  BY DEF ParseOne
<1>2. /\ w.at \in Nat /\ (w.chunk + 1) * SizeOf(batch) \in Nat
      /\ PlacesOf(batch) \in Nat
  BY <1>1, JobRight, BatchSizes
<1>3. ChunkEnd(w.chunk) = Min({(w.chunk + 1) * SizeOf(batch), PlacesOf(batch)})
  BY BatchSizes DEF ChunkEnd
<1>4. IF w.at + 1 < ChunkEnd(w.chunk)
      THEN job' = [job EXCEPT ![t].at = w.at + 1] /\ done' = done
      ELSE job' = [job EXCEPT ![t] = None] /\ done' = done \cup {w.chunk}
  BY DEF ParseOne
<1> DEFINE e == (w.chunk + 1) * SizeOf(batch)
           n == PlacesOf(batch)
<1>5. ChunkEnd(w.chunk) = IF e <= n THEN e ELSE n
  BY <1>2, <1>3, MinOfTwo
<1>6. e \in Nat /\ n \in Nat
  BY <1>2
<1> HIDE DEF e, n
<1>7. w.at + 1 < ChunkEnd(w.chunk) <=> w.at + 1 < e /\ w.at + 1 < n
  BY <1>2, <1>5, <1>6
<1> QED
  BY <1>1, <1>2, <1>4, <1>6, <1>7 DEF e, n

LEMMA ParseOneShape ==
  ASSUME PoolShape(batch, next_chunk, done, job), NEW t \in Threads, ParseOne(t)
  PROVE  PoolShape(batch, next_chunk, done, job)'
<1> DEFINE w == job[t]
           size == SizeOf(batch)
<1>1. w # None /\ UNCHANGED <<batch, next_chunk>>
  BY ParseOneJob
<1>2. /\ w \in Jobs /\ w.chunk \in 0..(next_chunk - 1) /\ w.at \in Nat /\ w.chunk \in Nat
      /\ w = [chunk |-> w.chunk, at |-> w.at]
      /\ w.chunk * size <= w.at /\ w.chunk * size \in Nat /\ next_chunk \in Nat
  BY <1>1, JobRight, BatchSizes
<1>3. job \in [Threads -> Jobs \cup {None}] /\ done \subseteq 0..(next_chunk - 1)
  BY DEF PoolShape
<1>4. CASE /\ w.at + 1 < (w.chunk + 1) * size /\ w.at + 1 < PlacesOf(batch)
           /\ job' = [job EXCEPT ![t].at = w.at + 1] /\ done' = done
  <2> DEFINE v == [chunk |-> w.chunk, at |-> w.at + 1]
  <2>1. job' = [job EXCEPT ![t] = v]
    <3>1. job' = [job EXCEPT ![t] = [w EXCEPT !.at = w.at + 1]]
      BY <1>3, <1>4
    <3>2. [w EXCEPT !.at = w.at + 1] = v
      BY <1>2
    <3> QED
      BY <3>1, <3>2
  <2>2. v \in Jobs /\ v.chunk = w.chunk /\ v.at = w.at + 1
    BY <1>2 DEF Jobs
  <2> HIDE DEF v
  <2>3. JobOK(batch, next_chunk, v)
    BY <1>2, <1>4, <2>2 DEF JobOK
  <2>4. job' \in [Threads -> Jobs \cup {None}]
    BY <1>3, <2>1, <2>2
  <2>5. ASSUME NEW u \in Threads, job'[u] # None PROVE JobOK(batch, next_chunk, job'[u])
    <3>1. u # t => job'[u] = job[u]
      BY <1>3, <2>1
    <3>2. u = t => job'[u] = v
      BY <1>3, <2>1
    <3> QED
      BY <2>3, <2>5, <3>1, <3>2 DEF PoolShape
  <2> QED
    BY <1>1, <1>4, <2>4, <2>5 DEF PoolShape
<1>5. CASE job' = [job EXCEPT ![t] = None] /\ done' = done \cup {w.chunk}
  <2>1. job' \in [Threads -> Jobs \cup {None}]
    BY <1>3, <1>5
  <2>2. done' \subseteq 0..(next_chunk - 1)
    BY <1>2, <1>3, <1>5
  <2>3. ASSUME NEW u \in Threads, job'[u] # None PROVE JobOK(batch, next_chunk, job'[u])
    <3>1. u # t /\ job'[u] = job[u]
      BY <1>3, <1>5, <2>3
    <3> QED
      BY <2>3, <3>1 DEF PoolShape
  <2> QED
    BY <1>1, <2>1, <2>2, <2>3 DEF PoolShape
<1> QED
  BY <1>4, <1>5, ParseOneJob

LEMMA DropShape ==
  ASSUME PoolShape(batch, next_chunk, done, job), DropUnstarted
  PROVE  /\ PoolShape(batch, next_chunk, done, job)'
         /\ ~batch'.active /\ batch'.parser = batch.parser
         /\ batch'.first = batch.first /\ batch'.last = batch.last /\ UNCHANGED <<done, job>>
         /\ next_chunk' = CountOf(batch) /\ CountOf(batch') = CountOf(batch)
         /\ SizeOf(batch') = SizeOf(batch) /\ PlacesOf(batch') = PlacesOf(batch)
<1>1. /\ next_chunk \in Nat /\ CountOf(batch) \in Nat /\ next_chunk <= CountOf(batch)
      /\ ChunkCount = CountOf(batch)
      /\ batch = [parser |-> batch.parser, active |-> batch.active,
                  first |-> batch.first, last |-> batch.last]
  BY BatchSizes
<1>2. batch' = [batch EXCEPT !.active = FALSE] /\ UNCHANGED <<done, job>>
      /\ next_chunk' = IF batch.active THEN ChunkCount ELSE next_chunk
  BY DEF DropUnstarted
<1>3. batch' = [parser |-> batch.parser, active |-> FALSE, first |-> batch.first,
                last |-> batch.last]
  BY <1>1, <1>2
<1>4. /\ ~batch'.active /\ batch'.parser = batch.parser
      /\ batch'.first = batch.first /\ batch'.last = batch.last
  BY <1>3
<1>5. next_chunk' = CountOf(batch)
  BY <1>1, <1>2 DEF PoolShape
<1>6. SizeOf(batch') = SizeOf(batch) /\ PlacesOf(batch') = PlacesOf(batch)
      /\ CountOf(batch') = CountOf(batch)
  BY <1>4 DEF SizeOf, PlacesOf, CountOf
<1>7. BatchOK(batch')
  <2>1. BatchOK(batch)
    BY DEF PoolShape
  <2> QED
    BY <1>3, <1>4, <2>1 DEF BatchOK, Batches
<1>8. ASSUME NEW u \in Threads, job[u] # None PROVE JobOK(batch', next_chunk', job[u])
  <2>1. JobOK(batch, next_chunk, job[u])
    BY <1>8 DEF PoolShape
  <2>2. job[u].chunk \in Nat
    BY <2>1 DEF JobOK, Jobs
  <2> QED
    BY <1>1, <1>5, <1>6, <2>1, <2>2 DEF JobOK
<1>9. done \subseteq 0..(next_chunk' - 1)
  BY <1>1, <1>5 DEF PoolShape
<1>10. PoolShape(batch, next_chunk, done, job)'
  <2>1. next_chunk' \in Nat /\ next_chunk' <= CountOf(batch') /\ next_chunk' = CountOf(batch')
    BY <1>1, <1>5, <1>6
  <2>2. done' \subseteq 0..(next_chunk' - 1)
    BY <1>2, <1>9
  <2>3. job' \in [Threads -> Jobs \cup {None}]
    BY <1>2 DEF PoolShape
  <2>4. \A u \in Threads : job'[u] # None => JobOK(batch', next_chunk', job'[u])
    BY <1>2, <1>8
  <2> QED
    BY <1>7, <2>1, <2>2, <2>3, <2>4 DEF PoolShape
<1> QED
  BY <1>2, <1>4, <1>5, <1>6, <1>10

LEMMA BeginShape ==
  ASSUME PoolShape(batch, next_chunk, done, job), Quiet, NEW p \in Parsers, NEW range,
         Begin(p, range), range.first \in Nat, range.last \in Nat, range.first <= range.last,
         range.last <= RecordCount
  PROVE  /\ PoolShape(batch, next_chunk, done, job)' /\ next_chunk' = 0
         /\ batch'.active /\ batch'.parser = p /\ batch'.first = range.first
         /\ batch'.last = range.last
<1>1. /\ batch' = [parser |-> p, active |-> TRUE, first |-> range.first, last |-> range.last]
      /\ next_chunk' = 0 /\ done' = {} /\ job' = job
  BY DEF Begin
<1>2. /\ batch'.active /\ batch'.parser = p /\ batch'.first = range.first
      /\ batch'.last = range.last
  BY <1>1
<1>3. batch' \in Batches
  BY <1>1 DEF Batches
<1>4. BatchOK(batch')
  BY <1>2, <1>3 DEF BatchOK
<1>5. CountOf(batch') \in Nat
  <2>1. SizeOf(batch') \in Nat \ {0}
    BY Sizes DEF SizeOf
  <2>2. PlacesOf(batch') \in Nat
    BY <1>2 DEF PlacesOf
  <2> QED
    BY <2>1, <2>2, ChunksRight DEF CountOf
<1>6. job \in [Threads -> Jobs \cup {None}] /\ \A u \in Threads : job[u] = None
  BY DEF PoolShape, Quiet
<1>7. PoolShape(batch, next_chunk, done, job)'
  BY <1>1, <1>2, <1>4, <1>5, <1>6 DEF PoolShape
<1> QED
  BY <1>1, <1>2, <1>7

\* In the first pass the threads parse windows.
LEMMA FirstParser ==
  ASSUME PoolInv, pc \in FirstPcs
  PROVE  batch.parser = "window"
<1>1. batch.parser \in Parsers
  BY BatchSizes DEF PoolInv
<1>2. pc \notin SecondPcs
  BY DEF FirstPcs, SecondPcs, AtSlot, AtWaiting
<1> QED
  BY <1>1, <1>2 DEF PoolInv, Parsers

\* Once the batch is ended and the threads are waited for, nothing of it goes on.
LEMMA NothingGoesOn ==
  ASSUME PoolShape(batch, next_chunk, done, job), ~batch.active, EndReturns
  PROVE  Quiet /\ ~Live(batch, next_chunk, job)
<1>1. Quiet
  BY DEF EndReturns, Ended
<1>2. next_chunk = CountOf(batch) /\ CountOf(batch) \in Nat
  BY BatchSizes DEF PoolShape
<1> QED
  BY <1>1, <1>2 DEF Live, Running, Quiet

LEMMA WorkMovePool ==
  ASSUME PoolInv, WorkMove
  PROVE  PoolInv'
<1>1. PICK t \in Threads : TakeChunk(t) \/ ParseOne(t)
  BY DEF WorkMove
<1>2. UNCHANGED <<pc, window, waiting, record, index>>
  BY DEF WorkMove, held, reader, second
<1>3. PoolShape(batch, next_chunk, done, job)
  BY DEF PoolInv
<1>4. PoolShape(batch, next_chunk, done, job)' /\ UNCHANGED batch
  BY <1>1, <1>3, TakeChunkShape, ParseOneShape, ParseOneJob
<1>5. Live(batch, next_chunk, job)
  <2>1. CASE TakeChunk(t)
    BY <1>3, <2>1, BatchSizes DEF TakeChunk, Live
  <2>2. CASE ParseOne(t)
    BY <2>2 DEF ParseOne, Live, Running
  <2> QED
    BY <1>1, <2>1, <2>2
<1> QED
  BY <1>2, <1>4, <1>5 DEF PoolInv

LEMMA DropPool ==
  ASSUME PoolInv, DropUnstarted, UNCHANGED <<window, waiting>>,
         batch.parser = "waiting" => pc' \in SecondPcs,
         batch.parser = "window" /\ Running(job) => pc' \in FirstPcs,
         pc' \notin {"take", "waiting_take"}
  PROVE  PoolInv'
<1>1. PoolShape(batch, next_chunk, done, job)
  BY DEF PoolInv
<1>2. /\ PoolShape(batch, next_chunk, done, job)'
      /\ ~batch'.active /\ batch'.parser = batch.parser
      /\ batch'.first = batch.first /\ batch'.last = batch.last /\ UNCHANGED <<done, job>>
      /\ next_chunk' = CountOf(batch) /\ CountOf(batch') = CountOf(batch)
      /\ CountOf(batch) \in Nat
  BY <1>1, DropShape, BatchSizes
<1>3. Live(batch', next_chunk', job') => Running(job) /\ Live(batch, next_chunk, job)
  BY <1>2 DEF Live
<1> QED
  BY <1>2, <1>3 DEF PoolInv

LEMMA NextSlotPool ==
  ASSUME HeldInv, PoolInv, NextSlot
  PROVE  PoolInv'
<1>1. pc = "next" /\ pc \in FirstPcs
  BY DEF NextSlot, FirstPcs
<1>2. batch.parser = "window"
  BY <1>1, FirstParser
<1>3. waiting' = waiting /\ UNCHANGED <<window, index>> /\ record' = Held!Position
  BY NextSlotCalls DEF NextSlot, reader, second
<1>4. pc' \in FirstPcs /\ pc' \notin {"waiting_take", "end_first", "waiting_batch", "end_second"}
  BY DEF NextSlot, FirstPcs, AtSlot
<1>5. CASE pc' = "window"
  <2>1. DropUnstarted
    BY <1>5 DEF NextSlot
  <2> QED
    BY <1>2, <1>3, <1>4, <1>5, <2>1, DropPool
<1>6. CASE pc' # "window"
  <2>1. UNCHANGED <<batch, next_chunk, done, job>>
    BY <1>6 DEF NextSlot, pool
  <2>2. pc' = "take" => batch.active /\ In(record', batch)
    BY <1>3 DEF NextSlot, Covers
  <2> QED
    BY <1>2, <1>3, <1>4, <1>6, <2>1, <2>2 DEF PoolInv
<1> QED
  BY <1>5, <1>6

LEMMA BeginWindowPool ==
  ASSUME HeldInv, MediumInv, WindowsInv, PoolInv, BeginWindow
  PROVE  PoolInv'
<1>1. pc = "window" /\ pc \in FirstPcs /\ EndReturns /\ pc' \in {"here", "take"}
  BY DEF BeginWindow, FirstPcs, AtSlot
<1>2. PoolShape(batch, next_chunk, done, job) /\ ~batch.active /\ batch.parser = "window"
  BY <1>1, FirstParser DEF PoolInv
<1>3. Quiet /\ ~Live(batch, next_chunk, job)
  BY <1>1, <1>2, NothingGoesOn
<1>4. UNCHANGED <<record, waiting, index>>
  BY DEF BeginWindow, held, second
<1>5. /\ window' \in Ranges /\ window'.last <= RecordCount
      /\ Served(record) <=> In(record, window')
  BY BeginWindowServes
<1>6. pc' \in FirstPcs
  BY <1>1 DEF FirstPcs, AtSlot
<1>7. ASSUME UNCHANGED pool, pc' = "here" PROVE PoolInv'
  <2>1. UNCHANGED <<batch, next_chunk, done, job>>
    BY <1>7 DEF pool
  <2> QED
    BY <1>2, <1>3, <1>7, <2>1 DEF PoolInv
<1>8. ASSUME Served(record), Begin("window", window'), pc' = "take" PROVE PoolInv'
  <2>1. In(record, window') /\ record \in Nat
    BY <1>1, <1>5, <1>8, WhereItIs DEF AtSlot
  <2>2. /\ window'.first \in Nat /\ window'.last \in Nat
        /\ window' = [first |-> window'.first, last |-> window'.last]
    BY <1>5 DEF Ranges
  <2>3. window'.first <= window'.last
    BY <2>1, <2>2 DEF In
  <2>4. /\ PoolShape(batch, next_chunk, done, job)'
        /\ batch'.active /\ batch'.parser = "window" /\ batch'.first = window'.first
        /\ batch'.last = window'.last
    <3> DEFINE range == window'
    <3>1. /\ Begin("window", range) /\ range.first \in Nat /\ range.last \in Nat
          /\ range.first <= range.last /\ range.last <= RecordCount
      BY <1>5, <1>8, <2>2, <2>3
    <3>2. "window" \in Parsers
      BY DEF Parsers
    <3> HIDE DEF range
    <3>3. /\ PoolShape(batch, next_chunk, done, job)'
          /\ batch'.active /\ batch'.parser = "window" /\ batch'.first = range.first
          /\ batch'.last = range.last
      BY <1>2, <1>3, <3>1, <3>2, BeginShape
    <3> QED
      BY <3>3 DEF range
  <2>5. In(record', batch')
    BY <1>4, <2>1, <2>4 DEF In
  <2>6. window' = [first |-> batch'.first, last |-> batch'.last]
    BY <2>2, <2>4
  <2> QED
    BY <1>6, <1>8, <2>4, <2>5, <2>6 DEF PoolInv
<1> QED
  BY <1>7, <1>8 DEF BeginWindow

LEMMA NextWaitingPool ==
  ASSUME HeldInv, PoolInv, NextWaiting
  PROVE  PoolInv'
<1>1. pc = "second" /\ pc \notin FirstPcs /\ UNCHANGED <<window, waiting, index>>
  BY DEF NextWaiting, FirstPcs, AtSlot, held, reader, second
<1>2. pc' \in SecondPcs /\ pc' \in {"waiting_here", "waiting_take", "waiting_batch"}
  BY DEF NextWaiting, SecondPcs, AtWaiting
<1>3. batch.parser = "window" => ~Live(batch, next_chunk, job)
  BY <1>1 DEF PoolInv
<1>4. CASE pc' = "waiting_batch"
  <2>1. DropUnstarted
    BY <1>4 DEF NextWaiting
  <2>2. batch.parser = "window" => ~Running(job)
    BY <1>3 DEF Live
  <2> QED
    BY <1>1, <1>2, <1>4, <2>1, <2>2, DropPool
<1>5. CASE pc' # "waiting_batch"
  <2>1. UNCHANGED <<batch, next_chunk, done, job>>
    BY <1>5 DEF NextWaiting, pool
  <2>2. pc' = "waiting_take" => batch.active /\ batch.parser = "waiting" /\ In(index, batch)
    BY DEF NextWaiting, Covers
  <2> QED
    BY <1>1, <1>2, <1>3, <1>5, <2>1, <2>2 DEF PoolInv
<1> QED
  BY <1>4, <1>5

LEMMA BeginBatchPool ==
  ASSUME HeldInv, PoolInv, WaitingInv, BeginBatch
  PROVE  PoolInv'
<1> DEFINE range == [first |-> index, last |-> Min({index + BatchRecords, Len(waiting)})]
<1>1. /\ pc = "waiting_batch" /\ pc' = "waiting_take" /\ EndReturns /\ Begin("waiting", range)
      /\ UNCHANGED <<index, waiting>>
  BY DEF BeginBatch, second, held
<1>2. PoolShape(batch, next_chunk, done, job) /\ ~batch.active
  BY <1>1 DEF PoolInv
<1>3. Quiet
  BY <1>1, <1>2, NothingGoesOn
<1>4. index \in Nat /\ index < Len(waiting) /\ Len(waiting) <= RecordCount /\ Len(waiting) \in Nat
  <2>1. index \in Nat /\ index < Len(waiting) /\ Len(waiting) <= Through
    BY <1>1 DEF WaitingInv, AtWaiting
  <2>2. Len(waiting) \in Nat /\ Through \in 0..RecordCount
    BY HeldFacts, WhereItIs DEF HeldInv
  <2> QED
    BY <2>1, <2>2, Sizes
<1>5. Min({index + BatchRecords, Len(waiting)})
        = IF index + BatchRecords <= Len(waiting) THEN index + BatchRecords ELSE Len(waiting)
  BY <1>4, Sizes, MinOfTwo
<1>6. /\ range.first = index /\ range.last \in Nat /\ index < range.last
      /\ range.last <= Len(waiting)
  BY <1>4, <1>5, Sizes
<1> HIDE DEF range
<1>7. range.first \in Nat /\ range.first <= range.last /\ range.last <= RecordCount
  BY <1>4, <1>6, Sizes
<1>8. "waiting" \in Parsers
  BY DEF Parsers
<1>9. /\ PoolShape(batch, next_chunk, done, job)'
      /\ batch'.active /\ batch'.parser = "waiting" /\ batch'.first = range.first
      /\ batch'.last = range.last
  BY <1>1, <1>2, <1>3, <1>6, <1>7, <1>8, BeginShape
<1>10. In(index', batch') /\ pc' \in SecondPcs
  BY <1>1, <1>4, <1>6, <1>9 DEF In, SecondPcs, AtWaiting
<1> QED
  BY <1>1, <1>6, <1>9, <1>10 DEF PoolInv

LEMMA PoolStays ==
  ASSUME IInv, Steps
  PROVE  PoolInv'
<1>1. HeldInv /\ MediumInv /\ WindowsInv /\ PoolInv /\ WaitingInv
  BY DEF IInv
<1>2. CASE WorkMove
  BY <1>1, <1>2, WorkMovePool
<1>3. CASE NextSlot
  BY <1>1, <1>3, NextSlotPool
<1>4. CASE BeginWindow
  BY <1>1, <1>4, BeginWindowPool
<1>5. CASE TakeRefused
  <2>1. UNCHANGED <<batch, next_chunk, done, job, window, waiting, index, record>>
        /\ pc = "take" /\ pc' = "here" /\ pc' \in FirstPcs
    BY <1>5 DEF TakeRefused, pool, held, reader, second, FirstPcs, AtSlot
  <2>2. batch.parser = "window"
    BY <1>1, <2>1 DEF PoolInv
  <2> QED
    BY <1>1, <2>1, <2>2 DEF PoolInv
<1>6. CASE SlotMove
  <2>1. UNCHANGED <<batch, next_chunk, done, job, window, index, record>>
        /\ pc \in {"here", "take"} /\ pc' = "next" /\ pc' \in FirstPcs /\ pc \in FirstPcs
    BY <1>6 DEF SlotMove, pool, reader, second, FirstPcs, AtSlot
  <2>2. batch.parser = "window"
    BY <1>1, <2>1, FirstParser
  <2> QED
    BY <1>1, <2>1, <2>2 DEF PoolInv
<1>7. CASE LeaveLoop
  <2>1. DropUnstarted /\ UNCHANGED <<window, waiting>> /\ pc = "next" /\ pc \in FirstPcs
        /\ pc' = "end_first" /\ pc' \in FirstPcs
    BY <1>7 DEF LeaveLoop, held, reader, FirstPcs
  <2>2. batch.parser = "window"
    BY <1>1, <2>1, FirstParser
  <2> QED
    BY <1>1, <2>1, <2>2, DropPool
<1>8. CASE EndFirstPass
  <2>1. /\ UNCHANGED <<batch, next_chunk, done, job, window, index>>
        /\ pc = "end_first" /\ pc' = "second" /\ pc \in FirstPcs /\ EndReturns
    BY <1>8 DEF EndFirstPass, pool, reader, FirstPcs
  <2>2. batch.parser = "window" /\ PoolShape(batch, next_chunk, done, job) /\ ~batch.active
    BY <1>1, <2>1, FirstParser DEF PoolInv
  <2>3. ~Live(batch, next_chunk, job)
    BY <2>1, <2>2, NothingGoesOn
  <2> QED
    BY <2>1, <2>2, <2>3 DEF PoolInv
<1>9. CASE NextWaiting
  BY <1>1, <1>9, NextWaitingPool
<1>10. CASE BeginBatch
  BY <1>1, <1>10, BeginBatchPool
<1>11. CASE WaitingRefused \/ WaitingMove
  <2>1. /\ UNCHANGED <<batch, next_chunk, done, job, window, waiting>>
        /\ pc \in {"waiting_take", "waiting_here"} /\ pc' \in {"waiting_here", "second"}
    BY <1>11 DEF WaitingRefused, WaitingMove, pool, reader, held
  <2>2. pc \notin FirstPcs /\ pc' \in SecondPcs
    BY <2>1 DEF FirstPcs, SecondPcs, AtSlot, AtWaiting
  <2> QED
    BY <1>1, <2>1, <2>2 DEF PoolInv
<1>12. CASE LeaveSecondPass
  <2>1. /\ DropUnstarted /\ UNCHANGED <<window, waiting>> /\ pc = "second"
        /\ pc' = "end_second"
    BY <1>12 DEF LeaveSecondPass, held, reader
  <2>2. pc \notin FirstPcs /\ pc' \in SecondPcs
    BY <2>1 DEF FirstPcs, SecondPcs, AtSlot
  <2>3. batch.parser = "window" => ~Running(job)
    BY <1>1, <2>2 DEF PoolInv, Live
  <2> QED
    BY <1>1, <2>1, <2>2, <2>3, DropPool
<1>13. CASE EndSecondPass \/ Destroy
  <2>1. /\ UNCHANGED <<batch, next_chunk, done, job, window, waiting>>
        /\ pc \in {"end_second", "destroy"} /\ pc' \in {"destroy", "gone"}
    BY <1>13 DEF EndSecondPass, Destroy, pool, reader, held
  <2>2. pc \notin FirstPcs /\ pc' \in SecondPcs
    BY <2>1 DEF FirstPcs, SecondPcs, AtSlot
  <2> QED
    BY <1>1, <2>1, <2>2 DEF PoolInv
<1>14. CASE UNCHANGED vars
  <2>1. UNCHANGED <<batch, next_chunk, done, job, window, waiting, index, record, pc>>
    BY <1>14 DEF vars, pool, reader, held, second
  <2> QED
    BY <1>1, <2>1 DEF PoolInv
<1> QED
  BY <1>2, <1>3, <1>4, <1>5, <1>6, <1>7, <1>8, <1>9, <1>10, <1>11, <1>12, <1>13, <1>14 DEF Steps
----------------------------------------------------------------------------
(* Every step keeps the invariant: the logs and the outcomes. *)

AllLogs == [Parsers -> [0..1 -> [Records -> Seq(Lines)]]]
AllOutcomes == [Parsers -> [Records -> Outcomes]]

\* L2 is L with x for the log of chunk c, and O2 is O with o for place a.
LogReplaced(L2, L, p, s, c, x) ==
  /\ L2 \in AllLogs
  /\ L2[p][s][c] = x
  /\ \A q \in Parsers, e \in 0..1, d \in Records :
       q # p \/ e # s \/ d # c => L2[q][e][d] = L[q][e][d]
OutcomeReplaced(O2, O, p, a, o) ==
  /\ O2 \in AllOutcomes
  /\ O2[p][a] = o
  /\ \A q \in Parsers, b \in Records : q # p \/ b # a => O2[q][b] = O[q][b]

LEMMA ReplaceLog ==
  ASSUME NEW L \in AllLogs, NEW p \in Parsers, NEW s \in 0..1, NEW c \in Records,
         NEW x \in Seq(Lines)
  PROVE  LogReplaced([L EXCEPT ![p][s][c] = x], L, p, s, c, x)
<1> DEFINE S == 0..1
           T == Seq(Lines)
           L2 == [L EXCEPT ![p][s][c] = x]
<1>1. L \in [Parsers -> [S -> [Records -> T]]] /\ s \in S /\ x \in T
  BY DEF AllLogs
<1> HIDE DEF S, T
<1>2. \A q \in Parsers : L[q] \in [S -> [Records -> T]]
  BY <1>1
<1>3. \A q \in Parsers, e \in S : L[q][e] \in [Records -> T]
  BY <1>2
<1>4. L2 = [L EXCEPT ![p] = [L[p] EXCEPT ![s] = [L[p][s] EXCEPT ![c] = x]]]
  OBVIOUS
<1> HIDE DEF L2
<1>5. [L[p][s] EXCEPT ![c] = x] \in [Records -> T]
  BY <1>1, <1>3
<1>6. [L[p] EXCEPT ![s] = [L[p][s] EXCEPT ![c] = x]] \in [S -> [Records -> T]]
  BY <1>1, <1>2, <1>5
<1>7. L2 \in [Parsers -> [S -> [Records -> T]]]
  BY <1>1, <1>4, <1>6
<1>8. \A q \in Parsers : L2[q] = IF q = p THEN [L[p] EXCEPT ![s] = [L[p][s] EXCEPT ![c] = x]] ELSE L[q]
  BY <1>1, <1>4
<1>9. \A e \in S : L2[p][e] = IF e = s THEN [L[p][s] EXCEPT ![c] = x] ELSE L[p][e]
  BY <1>1, <1>2, <1>8
<1>10. \A d \in Records : L2[p][s][d] = IF d = c THEN x ELSE L[p][s][d]
  BY <1>1, <1>3, <1>9
<1>11. L2[p][s][c] = x
  BY <1>10
<1>12. \A q \in Parsers, e \in S, d \in Records :
         q # p \/ e # s \/ d # c => L2[q][e][d] = L[q][e][d]
  BY <1>8, <1>9, <1>10
<1> QED
  BY <1>7, <1>11, <1>12 DEF LogReplaced, AllLogs, L2, S, T

LEMMA ReplaceOutcome ==
  ASSUME NEW O \in AllOutcomes, NEW p \in Parsers, NEW a \in Records, NEW o \in Outcomes
  PROVE  OutcomeReplaced([O EXCEPT ![p][a] = o], O, p, a, o)
<1> DEFINE O2 == [O EXCEPT ![p][a] = o]
<1> HIDE DEF Outcomes
<1>1. O \in [Parsers -> [Records -> Outcomes]]
  BY DEF AllOutcomes
<1>2. \A q \in Parsers : O[q] \in [Records -> Outcomes]
  BY <1>1
<1>3. O2 = [O EXCEPT ![p] = [O[p] EXCEPT ![a] = o]]
  OBVIOUS
<1> HIDE DEF O2
<1>4. [O[p] EXCEPT ![a] = o] \in [Records -> Outcomes]
  BY <1>2
<1>5. O2 \in [Parsers -> [Records -> Outcomes]]
  BY <1>1, <1>3, <1>4
<1>6. \A q \in Parsers : O2[q] = IF q = p THEN [O[p] EXCEPT ![a] = o] ELSE O[q]
  BY <1>1, <1>3
<1>7. \A b \in Records : O2[p][b] = IF b = a THEN o ELSE O[p][b]
  BY <1>2, <1>6
<1> QED
  BY <1>5, <1>6, <1>7 DEF OutcomeReplaced, AllOutcomes, O2

LEMMA ReplaceNothing ==
  ASSUME NEW L \in AllLogs, NEW p \in Parsers, NEW s \in 0..1, NEW c \in Records,
         NEW O \in AllOutcomes, NEW a \in Records
  PROVE  LogReplaced(L, L, p, s, c, L[p][s][c]) /\ OutcomeReplaced(O, O, p, a, O[p][a])
BY DEF LogReplaced, OutcomeReplaced

\* A place that is parsed lies in a chunk that was started.
LEMMA ParsedIsStarted ==
  ASSUME PoolShape(batch, next_chunk, done, job), NEW c, NEW a,
         IsParsed(batch, done, job, c, a)
  PROVE  c \in 0..(next_chunk - 1)
<1>1. c \in done \/ \E t \in Threads : job[t] # None /\ job[t].chunk = c
  BY DEF IsParsed
<1> QED
  BY <1>1, JobRight DEF PoolShape

LEMMA TakeChunkLogs ==
  ASSUME PoolInv, LogsInv, NEW t \in Threads, TakeChunk(t),
         UNCHANGED <<layout, waiting>>
  PROVE  LogsInv'
<1> DEFINE n == next_chunk
           size == SizeOf(batch)
           p == batch.parser
           s == log_set[p]
           w == [chunk |-> n, at |-> n * size]
<1>1. PoolShape(batch, next_chunk, done, job)
  BY DEF PoolInv
<1>2. /\ n \in Nat /\ size \in Nat \ {0} /\ PlacesOf(batch) \in Nat /\ CountOf(batch) \in Nat
      /\ p \in Parsers /\ s \in 0..1 /\ CountOf(batch) <= PlacesOf(batch)
      /\ PlacesOf(batch) <= RecordCount /\ ChunkSize = size /\ ChunkCount = CountOf(batch)
  BY <1>1, BatchSizes DEF LogsInv
<1>3. /\ job' = [job EXCEPT ![t] = w] /\ next_chunk' = n + 1 /\ n < CountOf(batch)
      /\ logs' = [logs EXCEPT ![p][s][n] = <<>>]
      /\ UNCHANGED <<batch, done, log_set, outcomes>>
  BY <1>2 DEF TakeChunk
<1>4. n \in Records
  BY <1>2, <1>3, SlotsAre, Sizes
<1>5. LogReplaced(logs', logs, p, s, n, <<>>)
  BY <1>2, <1>3, <1>4, NothingTyped, ReplaceLog DEF LogsInv, AllLogs
<1>6. w.chunk = n /\ w.at = n * size /\ n * size \in Nat
  BY <1>2, ChunksRight
<1> HIDE DEF w, p, s, n
<1>7. ASSUME NEW c \in 0..(next_chunk' - 1), NEW a \in 0..(PlacesOf(batch) - 1),
             IsParsed(batch, done, job', c, a)
      PROVE  RightAt(batch, layout, waiting, outcomes[p][a], logs'[p][s][c], a)
  <2>1. IsParsed(batch, done, job, c, a)
    <3>1. c * size <= a /\ a < (c + 1) * size
      BY <1>7 DEF IsParsed
    <3>2. ASSUME NEW u \in Threads, job'[u] # None, job'[u].chunk = c, a < job'[u].at
          PROVE  job[u] # None /\ job[u].chunk = c /\ a < job[u].at
      <4>1. CASE u = t
        <5>1. job'[u] = w
          BY <1>1, <1>3, <4>1 DEF PoolShape
        <5>2. c = n /\ a < n * size /\ n * size <= a
          BY <1>6, <3>1, <3>2, <5>1
        <5> QED
          BY <1>6, <5>2
      <4>2. CASE u # t
        BY <1>1, <1>3, <3>2, <4>2 DEF PoolShape
      <4> QED
        BY <4>1, <4>2
    <3>3. c \in done \/ \E u \in Threads : job'[u] # None /\ job'[u].chunk = c /\ a < job'[u].at
      BY <1>7 DEF IsParsed
    <3> QED
      BY <3>1, <3>2, <3>3 DEF IsParsed
  <2>2. c \in 0..(n - 1) /\ c \in Records /\ c # n
    BY <1>1, <1>2, <2>1, ParsedIsStarted, ChunkIsSlot DEF n
  <2>3. RightAt(batch, layout, waiting, outcomes[p][a], logs[p][s][c], a)
    BY <2>1, <2>2 DEF LogsInv, PlacesRight, p, s, n
  <2>4. logs'[p][s][c] = logs[p][s][c]
    BY <1>2, <1>5, <2>2 DEF LogReplaced, p, s
  <2> QED
    BY <2>3, <2>4
<1>8. PlacesRight(batch, next_chunk', done, job', layout, waiting, outcomes[p], logs'[p][s])
  BY <1>7 DEF PlacesRight
<1>9. logs' \in AllLogs
  BY <1>5 DEF LogReplaced
<1> QED
  BY <1>3, <1>8, <1>9 DEF LogsInv, AllLogs, p, s

\* What one turn of ParseChunk() leaves: its outcome is right.
ParsedPlace(o, log, x, a) ==
  /\ o \in Outcomes
  /\ x \in Seq(Lines)
  /\ log \o x \in Seq(Lines)
  /\ RightAt(batch, layout, waiting, o, log \o x, a)

LEMMA WindowParsed ==
  ASSUME MediumInv, NEW a \in Nat, NEW log \in Seq(Lines), buffer = batch.first,
         batch.parser = "window", batch.first \in Nat, batch.first + a \in Records
  PROVE  LET f == WindowOutcome(a, log)
         IN  ParsedPlace(f.outcome, log, f.lines, a)
<1> DEFINE r == batch.first + a
           base == Kind(r) \in {"plain", "lost"}
           needs == NeedsVolume(r)
           f == WindowOutcome(a, log)
<1>1. r \in Nat /\ buffer # None /\ r # None /\ Kind(r) = KindOf(layout, r)
  BY Sizes DEF Kind, KindOf
<1>2. f.outcome = Outcome(r, log, needs, base) /\ f.lines = ParseLines("parse", r, base)
  BY <1>1 DEF WindowOutcome, ParseLines
<1>3. needs = (KindOf(layout, r) = "stream") /\ base = (KindOf(layout, r) \in {"plain", "lost"})
  BY <1>1 DEF NeedsVolume
<1>4. needs \in BOOLEAN /\ base \in BOOLEAN
  BY DEF NeedsVolume
<1> HIDE DEF r, base, needs, f
<1>5. /\ Outcome(r, log, needs, base) \in Outcomes
      /\ log \o ParseLines("parse", r, base) \in Seq(Lines)
      /\ ParseLines("parse", r, base) \in Seq(Lines)
      /\ Right(Outcome(r, log, needs, base), log \o ParseLines("parse", r, base), r, "parse",
               needs, base)
  BY <1>1, <1>4, RightNew
<1>6. Right(f.outcome, log \o f.lines, r, "parse", KindOf(layout, r) = "stream",
            KindOf(layout, r) \in {"plain", "lost"})
  BY <1>2, <1>3, <1>5
<1>7. RightAt(batch, layout, waiting, f.outcome, log \o f.lines, a)
  BY <1>6 DEF RightAt, r
<1> QED
  BY <1>2, <1>5, <1>7 DEF ParsedPlace, f

LEMMA LeftIsTyped ==
  LeftToScanner \in Outcomes /\ LeftToScanner.needs = TRUE
BY DEF LeftToScanner, NoOutcome, Outcomes

LEMMA WaitingParsed ==
  ASSUME HeldInv, NEW a \in Nat, NEW log \in Seq(Lines), NEW refused \in BOOLEAN,
         batch.parser = "waiting", batch.first \in Nat, batch.first + a + 1 \in DOMAIN waiting
  PROVE  LET f == WaitingOutcome(a, log, refused)
         IN  ParsedPlace(f.outcome, log, f.lines, a)
<1> DEFINE w == waiting[batch.first + a + 1]
           f == WaitingOutcome(a, log, refused)
<1>1. WaitingRight(waiting, content)
  BY HeldFacts DEF HeldInv
<1>2. w.record \in Nat /\ (w.slot # None => content[w.slot] = w.record)
  BY <1>1, SlotsAre DEF WaitingRight
<1> DEFINE r == w.record
           x == ParseLines("reparse", r, TRUE)
           o == Outcome(r, log, FALSE, TRUE)
<1>3. o \in Outcomes /\ x \in Seq(Lines) /\ log \o x \in Seq(Lines) /\ Right(o, log \o x, r, "reparse", FALSE, TRUE)
  BY <1>2, RightNew
<1>4. HasReads(w, IsFar(w.record)) => f = [outcome |-> LeftToScanner, lines |-> <<>>]
  BY DEF WaitingOutcome
<1>5. ~HasReads(w, IsFar(w.record)) =>
        f = [outcome |-> IF refused THEN LeftToScanner ELSE o, lines |-> x]
  <2>1. ~HasReads(w, IsFar(w.record)) => w.slot # None
    BY DEF HasReads
  <2> QED
    BY <1>2, <2>1 DEF WaitingOutcome, ParseLines
<1>6. log \o <<>> = log
  BY JoinTwo
<1>7. \/ f.outcome = LeftToScanner /\ (f.lines = <<>> \/ f.lines = x)
      \/ f.outcome = o /\ f.lines = x
  <2> HIDE DEF o, x, f
  <2> QED
    BY <1>4, <1>5
<1>8. /\ f.outcome \in Outcomes /\ f.lines \in Seq(Lines) /\ log \o f.lines \in Seq(Lines)
      /\ f.outcome.needs \/ Right(f.outcome, log \o f.lines, r, "reparse", FALSE, TRUE)
  <2> HIDE DEF o, x, f, Outcomes, Lines
  <2>1. CASE f.outcome = LeftToScanner /\ f.lines = <<>>
    BY <1>6, <2>1, LeftIsTyped, NothingTyped
  <2>2. CASE f.outcome = LeftToScanner /\ f.lines = x
    BY <1>3, <2>2, LeftIsTyped
  <2>3. CASE f.outcome = o /\ f.lines = x
    BY <1>3, <2>3
  <2> QED
    BY <1>7, <2>1, <2>2, <2>3
<1>9. RightAt(batch, layout, waiting, f.outcome, log \o f.lines, a)
  <2> HIDE DEF f
  <2> QED
    BY <1>8 DEF RightAt
<1> QED
  BY <1>8, <1>9 DEF ParsedPlace

\* One turn of ParseChunk(), as far as the logs are concerned.
LEMMA ParseOneFinds ==
  ASSUME HeldInv, MediumInv, WindowsInv, PoolInv, LogsInv, NEW t \in Threads, ParseOne(t)
  PROVE  LET p == batch.parser
             s == log_set[p]
             c == job[t].chunk
             a == job[t].at
         IN  \E o, x : /\ ParsedPlace(o, logs[p][s][c], x, a)
                       /\ LogReplaced(logs', logs, p, s, c, logs[p][s][c] \o x)
                       /\ OutcomeReplaced(outcomes', outcomes, p, a, o)
<1> DEFINE p == batch.parser
           s == log_set[p]
           c == job[t].chunk
           a == job[t].at
           log == logs[p][s][c]
           skip == p = "window" /\ IsFree(batch.first + a)
<1>1. job[t] # None /\ PoolShape(batch, next_chunk, done, job) /\ Running(job)
  BY DEF PoolInv, ParseOne, Running
<1>2. /\ c \in 0..(next_chunk - 1) /\ a \in Nat /\ a < PlacesOf(batch)
  BY <1>1, JobRight
<1>3. /\ p \in Parsers /\ s \in 0..1 /\ c \in Records /\ batch.first \in Nat /\ batch.last \in Nat
      /\ batch.last <= RecordCount /\ batch.first <= batch.last
  BY <1>1, <1>2, BatchSizes, ChunkIsSlot DEF LogsInv
<1>4. batch.first + a < batch.last /\ batch.first + a \in Nat
  BY <1>2, <1>3 DEF PlacesOf
<1>5. batch.first + a \in Records /\ a \in Records
  BY <1>2, <1>3, <1>4, SlotsAre, Sizes
<1>6. logs \in AllLogs /\ outcomes \in AllOutcomes /\ log \in Seq(Lines)
  BY <1>3, LogsTyped DEF LogsInv, AllLogs, AllOutcomes
<1>7. PICK refused \in BOOLEAN :
        LET found == IF p = "window" THEN WindowOutcome(a, log)
                     ELSE WaitingOutcome(a, log, refused)
        IN  /\ outcomes' = IF skip THEN outcomes ELSE [outcomes EXCEPT ![p][a] = found.outcome]
            /\ logs' = IF skip THEN logs ELSE [logs EXCEPT ![p][s][c] = @ \o found.lines]
  BY DEF ParseOne, LogOf
<1> DEFINE found == IF p = "window" THEN WindowOutcome(a, log)
                    ELSE WaitingOutcome(a, log, refused)
<1>8. CASE skip
  <2>1. logs' = logs /\ outcomes' = outcomes
    BY <1>7, <1>8
  <2>2. log \o <<>> = log /\ <<>> \in Seq(Lines)
    BY <1>6, JoinTwo, NothingTyped
  <2>3. LogReplaced(logs', logs, p, s, c, log) /\ OutcomeReplaced(outcomes', outcomes, p, a, outcomes[p][a])
    BY <1>3, <1>5, <1>6, <2>1, ReplaceNothing
  <2>4. outcomes[p][a] \in Outcomes
    BY <1>3, <1>5, OutcomesTyped DEF LogsInv
  <2>5. KindOf(layout, batch.first + a) = "free"
    <3>1. batch.first + a # None
      BY <1>4, Sizes
    <3> QED
      BY <1>8, <3>1 DEF IsFree, Kind, KindOf
  <2>7. ParsedPlace(outcomes[p][a], log, <<>>, a)
    BY <1>6, <1>8, <2>2, <2>4, <2>5 DEF ParsedPlace, RightAt
  <2> HIDE DEF log
  <2>8. LogReplaced(logs', logs, p, s, c, log \o <<>>)
    BY <2>2, <2>3
  <2> QED
    BY <2>2, <2>3, <2>7, <2>8 DEF log
<1>9. CASE ~skip
  <2>1. ParsedPlace(found.outcome, log, found.lines, a)
    <3>1. CASE p = "window"
      <4>1. window = [first |-> batch.first, last |-> batch.last]
        BY <1>1, <3>1 DEF PoolInv, Live
      <4>2. window # NoRange
        BY <1>3, <1>4, <4>1 DEF NoRange
      <4>3. buffer = batch.first
        BY <4>1, <4>2 DEF WindowsInv
      <4> QED
        BY <1>2, <1>3, <1>5, <1>6, <3>1, <4>3, WindowParsed
    <3>2. CASE p = "waiting"
      <4>1. batch.last <= Len(waiting)
        BY <3>2 DEF PoolInv
      <4>2. Len(waiting) \in Nat /\ DOMAIN waiting = 1..Len(waiting)
        BY HeldFacts DEF HeldInv
      <4>3. batch.first + a + 1 \in DOMAIN waiting
        BY <1>2, <1>3, <1>4, <4>1, <4>2
      <4>4. found = WaitingOutcome(a, log, refused)
        BY <3>2
      <4> QED
        BY <1>2, <1>3, <1>6, <1>7, <3>2, <4>3, <4>4, WaitingParsed
    <3> QED
      BY <1>3, <3>1, <3>2 DEF Parsers
  <2> DEFINE o == found.outcome
             x == found.lines
  <2>2. outcomes' = [outcomes EXCEPT ![p][a] = o] /\ logs' = [logs EXCEPT ![p][s][c] = @ \o x]
    BY <1>7, <1>9
  <2>3. logs' = [logs EXCEPT ![p][s][c] = log \o x]
    BY <1>6, <2>2
  <2> HIDE DEF found, o, x
  <2>5. o \in Outcomes /\ log \o x \in Seq(Lines)
    BY <2>1 DEF ParsedPlace, o, x
  <2>6. LogReplaced(logs', logs, p, s, c, log \o x)
    BY <1>3, <1>6, <2>3, <2>5, ReplaceLog
  <2>7. OutcomeReplaced(outcomes', outcomes, p, a, o)
    BY <1>3, <1>5, <1>6, <2>2, <2>5, ReplaceOutcome
  <2> QED
    BY <2>1, <2>6, <2>7 DEF o, x
<1> QED
  BY <1>8, <1>9

LEMMA RightAtGrows ==
  ASSUME NEW log \in Seq(Lines), NEW x \in Seq(Lines), NEW o \in Outcomes, NEW a,
         RightAt(batch, layout, waiting, o, log, a)
  PROVE  RightAt(batch, layout, waiting, o, log \o x, a)
<1> DEFINE T == Lines
<1>1. log \in Seq(T) /\ x \in Seq(T)
  OBVIOUS
<1> HIDE DEF T
<1>2. \A r, what, needs, attrs :
        Right(o, log, r, what, needs, attrs) => Right(o, log \o x, r, what, needs, attrs)
  BY <1>1, RightGrows
<1> QED
  BY <1>2 DEF RightAt

\* A place lies in one chunk.
LEMMA OneChunk ==
  ASSUME NEW size \in Nat \ {0}, NEW c \in Nat, NEW d \in Nat, NEW a \in Nat,
         c * size <= a, a < (c + 1) * size, d * size <= a, a < (d + 1) * size
  PROVE  c = d
<1>1. (c + 1) * size = c * size + size /\ (d + 1) * size = d * size + size
  BY ChunksRight
<1>2. a \div size = c
  BY <1>1, DivUnique
<1>3. a \div size = d
  BY <1>1, DivUnique
<1> QED
  BY <1>2, <1>3

LEMMA ParseOneLogs ==
  ASSUME HeldInv, MediumInv, WindowsInv, PoolInv, LogsInv, NEW t \in Threads, ParseOne(t),
         UNCHANGED <<layout, waiting>>
  PROVE  LogsInv'
<1> DEFINE p == batch.parser
           s == log_set[p]
           w == job[t]
           size == SizeOf(batch)
<1>1. PoolShape(batch, next_chunk, done, job) /\ w # None
  BY DEF PoolInv, ParseOne
<1>2. /\ w.chunk \in 0..(next_chunk - 1) /\ w.chunk \in Nat /\ w.at \in Nat
      /\ w.chunk * size <= w.at /\ w.at < (w.chunk + 1) * size /\ w.at < PlacesOf(batch)
      /\ w.chunk * size \in Nat /\ (w.chunk + 1) * size \in Nat
  BY <1>1, JobRight
<1>3. /\ p \in Parsers /\ s \in 0..1 /\ w.chunk \in Records /\ size \in Nat \ {0}
      /\ PlacesOf(batch) \in Nat /\ PlacesOf(batch) <= RecordCount
  BY <1>1, <1>2, BatchSizes, ChunkIsSlot DEF LogsInv
<1>4. PICK o, x : /\ ParsedPlace(o, logs[p][s][w.chunk], x, w.at)
                  /\ LogReplaced(logs', logs, p, s, w.chunk, logs[p][s][w.chunk] \o x)
                  /\ OutcomeReplaced(outcomes', outcomes, p, w.at, o)
  BY ParseOneFinds
<1>5. /\ UNCHANGED <<batch, next_chunk, log_set>>
      /\ \/ /\ job' = [job EXCEPT ![t].at = w.at + 1] /\ done' = done
         \/ /\ w.at + 1 >= (w.chunk + 1) * size \/ w.at + 1 >= PlacesOf(batch)
            /\ job' = [job EXCEPT ![t] = None] /\ done' = done \cup {w.chunk}
  BY <1>1, ParseOneJob
<1>6. job \in [Threads -> Jobs \cup {None}] /\ w = [chunk |-> w.chunk, at |-> w.at]
  BY <1>1, JobRight DEF PoolShape
<1>7. logs'[p][s][w.chunk] = logs[p][s][w.chunk] \o x /\ outcomes'[p][w.at] = o
  BY <1>4 DEF LogReplaced, OutcomeReplaced
<1> DEFINE Old(c, a) == IsParsed(batch, done, job, c, a)
<1>8. ASSUME NEW c \in 0..(next_chunk - 1), NEW a \in 0..(PlacesOf(batch) - 1),
             IsParsed(batch, done', job', c, a)
      PROVE  Old(c, a) \/ (c = w.chunk /\ a = w.at)
  <2>1. c * size <= a /\ a < (c + 1) * size /\ a \in Nat /\ a < PlacesOf(batch)
    BY <1>3, <1>8 DEF IsParsed
  <2>2. c \in done' \/ \E u \in Threads : job'[u] # None /\ job'[u].chunk = c /\ a < job'[u].at
    BY <1>8 DEF IsParsed
  <2>3. ASSUME NEW u \in Threads, job'[u] # None, job'[u].chunk = c, a < job'[u].at
        PROVE  Old(c, a) \/ (c = w.chunk /\ a = w.at)
    <3>1. CASE u # t
      <4>1. job'[u] = job[u]
        BY <1>5, <1>6, <3>1
      <4> QED
        BY <2>1, <2>3, <4>1 DEF IsParsed
    <3>2. CASE u = t
      <4>1. job' = [job EXCEPT ![t].at = w.at + 1]
        BY <1>5, <1>6, <2>3, <3>2
      <4>2. job'[t] = [w EXCEPT !.at = w.at + 1]
        BY <1>6, <4>1
      <4>3. c = w.chunk /\ a < w.at + 1
        BY <1>6, <2>3, <3>2, <4>2
      <4>4. a < w.at \/ a = w.at
        BY <1>2, <2>1, <4>3
      <4> QED
        BY <1>1, <2>1, <4>3, <4>4 DEF IsParsed
    <3> QED
      BY <3>1, <3>2
  <2>4. ASSUME c \in done', c \notin done PROVE Old(c, a) \/ (c = w.chunk /\ a = w.at)
    <3>1. c = w.chunk /\ (w.at + 1 >= (w.chunk + 1) * size \/ w.at + 1 >= PlacesOf(batch))
      BY <1>5, <2>4
    <3>2. a <= w.at
      <4> DEFINE e == (w.chunk + 1) * size
                 n == PlacesOf(batch)
      <4>1. e \in Nat /\ n \in Nat /\ a < e /\ a < n /\ (w.at + 1 >= e \/ w.at + 1 >= n)
        BY <1>2, <1>3, <2>1, <3>1
      <4> HIDE DEF e, n
      <4> QED
        BY <1>2, <2>1, <4>1
    <3>3. a < w.at \/ a = w.at
      BY <1>2, <2>1, <3>2
    <3> QED
      BY <1>1, <2>1, <3>1, <3>3 DEF IsParsed
  <2>5. c \in done => Old(c, a)
    BY <2>1 DEF IsParsed
  <2> QED
    BY <2>2, <2>3, <2>4, <2>5
<1>9. ASSUME NEW c \in 0..(next_chunk - 1), NEW a \in 0..(PlacesOf(batch) - 1),
             IsParsed(batch, done', job', c, a)
      PROVE  RightAt(batch, layout, waiting, outcomes'[p][a], logs'[p][s][c], a)
  <2>1. c \in Records /\ c \in Nat /\ a \in Records /\ a \in Nat
    BY <1>1, <1>3, <1>9, ChunkIsSlot, SlotsAre, Sizes
  <2>2. c * size <= a /\ a < (c + 1) * size
    BY <1>9 DEF IsParsed
  <2>3. CASE c = w.chunk /\ a = w.at
    BY <1>4, <1>7, <2>3 DEF ParsedPlace
  <2>4. CASE Old(c, a) /\ a # w.at
    <3>1. RightAt(batch, layout, waiting, outcomes[p][a], logs[p][s][c], a)
      BY <1>9, <2>4 DEF LogsInv, PlacesRight
    <3>2. outcomes'[p][a] = outcomes[p][a]
      BY <1>3, <1>4, <2>1, <2>4 DEF OutcomeReplaced
    <3>3. CASE c # w.chunk
      <4>1. logs'[p][s][c] = logs[p][s][c]
        BY <1>3, <1>4, <2>1, <3>3 DEF LogReplaced
      <4> QED
        BY <3>1, <3>2, <4>1
    <3>4. CASE c = w.chunk
      <4>1. logs[p][s][c] \in Seq(Lines) /\ outcomes[p][a] \in Outcomes
        BY <1>3, <2>1, LogsTyped, OutcomesTyped DEF LogsInv
      <4>2. x \in Seq(Lines) /\ logs'[p][s][c] = logs[p][s][c] \o x
        BY <1>4, <1>7, <3>4 DEF ParsedPlace
      <4>3. RightAt(batch, layout, waiting, outcomes[p][a], logs[p][s][c] \o x, a)
        BY <3>1, <4>1, <4>2, RightAtGrows
      <4> QED
        BY <3>2, <4>2, <4>3
    <3> QED
      BY <3>3, <3>4
  <2>5. CASE a = w.at
    <3>1. c = w.chunk
      BY <1>2, <1>3, <2>1, <2>2, <2>5, OneChunk
    <3> QED
      BY <2>3, <2>5, <3>1
  <2> QED
    BY <1>8, <1>9, <2>3, <2>4, <2>5
<1>10. PlacesRight(batch, next_chunk, done', job', layout, waiting, outcomes'[p], logs'[p][s])
  BY <1>9 DEF PlacesRight
<1>11. logs' \in AllLogs /\ outcomes' \in AllOutcomes
  BY <1>4 DEF LogReplaced, OutcomeReplaced
<1> QED
  BY <1>5, <1>10, <1>11 DEF LogsInv, AllLogs, AllOutcomes

\* What is parsed stays right while no thread starts or parses.
LEMMA LogsSame ==
  ASSUME PoolInv, LogsInv, UNCHANGED <<layout, logs, outcomes, log_set, done, job>>,
         batch'.parser = batch.parser, batch'.first = batch.first, batch'.last = batch.last,
         batch.parser = "window" \/ waiting' = waiting
  PROVE  LogsInv'
<1> DEFINE p == batch.parser
           s == log_set[p]
<1>1. PoolShape(batch, next_chunk, done, job)
  BY DEF PoolInv
<1>2. PlacesOf(batch') = PlacesOf(batch) /\ SizeOf(batch') = SizeOf(batch)
  BY DEF PlacesOf, SizeOf
<1>3. ASSUME NEW c, NEW a \in 0..(PlacesOf(batch) - 1), IsParsed(batch', done, job, c, a)
      PROVE  RightAt(batch', layout, waiting', outcomes[p][a], logs[p][s][c], a)
  <2>1. IsParsed(batch, done, job, c, a)
    BY <1>2, <1>3 DEF IsParsed
  <2>2. c \in 0..(next_chunk - 1)
    BY <1>1, <2>1, ParsedIsStarted
  <2>3. RightAt(batch, layout, waiting, outcomes[p][a], logs[p][s][c], a)
    BY <2>1, <2>2 DEF LogsInv, PlacesRight
  <2> QED
    BY <2>3 DEF RightAt
<1>4. PlacesRight(batch', next_chunk', done, job, layout, waiting', outcomes[p], logs[p][s])
  BY <1>2, <1>3 DEF PlacesRight
<1> QED
  BY <1>4 DEF LogsInv

LEMMA DropLogs ==
  ASSUME PoolInv, LogsInv, UNCHANGED layout, DropUnstarted \/ UNCHANGED pool,
         batch.parser = "window" \/ waiting' = waiting
  PROVE  LogsInv'
<1>1. PoolShape(batch, next_chunk, done, job)
  BY DEF PoolInv
<1>2. CASE DropUnstarted
  <2>1. UNCHANGED <<logs, outcomes, log_set>>
    BY <1>2 DEF DropUnstarted
  <2>2. /\ batch'.parser = batch.parser /\ batch'.first = batch.first
        /\ batch'.last = batch.last /\ UNCHANGED <<done, job>>
    BY <1>1, <1>2, DropShape
  <2> QED
    BY <2>1, <2>2, LogsSame
<1>3. CASE UNCHANGED pool
  BY <1>3, LogsSame DEF pool
<1> QED
  BY <1>2, <1>3

LEMMA BeginLogs ==
  ASSUME LogsInv, NEW p \in Parsers, NEW range, Begin(p, range)
  PROVE  LogsInv'
<1>1. /\ log_set' = [log_set EXCEPT ![p] = OtherSet(p)] /\ UNCHANGED <<logs, outcomes>>
      /\ next_chunk' = 0
  BY DEF Begin
<1>2. log_set' \in [Parsers -> 0..1]
  <2>1. log_set[p] \in 0..1 /\ log_set \in [Parsers -> 0..1]
    BY DEF LogsInv
  <2>2. OtherSet(p) \in 0..1
    BY <2>1 DEF OtherSet
  <2> HIDE DEF OtherSet
  <2> QED
    BY <1>1, <2>1, <2>2
<1>3. 0..(next_chunk' - 1) = {}
  BY <1>1
<1>4. PlacesRight(batch, next_chunk, done, job, layout, waiting, outcomes[batch.parser],
                  logs[batch.parser][log_set[batch.parser]])'
  BY <1>3 DEF PlacesRight
<1> QED
  BY <1>1, <1>2, <1>4 DEF LogsInv

LEMMA LogsStay ==
  ASSUME IInv, Steps
  PROVE  LogsInv'
<1>1. HeldInv /\ MediumInv /\ WindowsInv /\ PoolInv /\ LogsInv
  BY DEF IInv
<1>2. UNCHANGED layout
  BY MediumStays, SameVolume
<1>3. CASE WorkMove
  <2>1. PICK t \in Threads : TakeChunk(t) \/ ParseOne(t)
    BY <1>3 DEF WorkMove
  <2>2. waiting' = waiting
    BY <1>3 DEF WorkMove, held
  <2> QED
    BY <1>1, <1>2, <2>1, <2>2, TakeChunkLogs, ParseOneLogs
<1>4. CASE NextSlot \/ LeaveLoop
  <2>1. pc \in FirstPcs /\ (DropUnstarted \/ UNCHANGED pool)
    BY <1>4 DEF NextSlot, LeaveLoop, FirstPcs
  <2>2. batch.parser = "window"
    BY <1>1, <2>1, FirstParser
  <2> QED
    BY <1>1, <1>2, <2>1, <2>2, DropLogs
<1>5. CASE SlotMove \/ TakeRefused \/ EndFirstPass
  <2>1. pc \in FirstPcs /\ UNCHANGED pool
    BY <1>5 DEF SlotMove, TakeRefused, EndFirstPass, FirstPcs, AtSlot
  <2>2. batch.parser = "window"
    BY <1>1, <2>1, FirstParser
  <2> QED
    BY <1>1, <1>2, <2>1, <2>2, DropLogs
<1>6. CASE BeginWindow
  <2>1. CASE UNCHANGED pool
    <3>1. waiting' = waiting
      BY <1>6 DEF BeginWindow, held
    <3> QED
      BY <1>1, <1>2, <2>1, <3>1, DropLogs
  <2>2. CASE Begin("window", window')
    <3>1. "window" \in Parsers
      BY DEF Parsers
    <3> DEFINE range == window'
    <3>2. Begin("window", range)
      BY <2>2
    <3> HIDE DEF range
    <3> QED
      BY <1>1, <3>1, <3>2, BeginLogs
  <2> QED
    BY <1>6, <2>1, <2>2 DEF BeginWindow
<1>7. CASE BeginBatch
  <2>1. "waiting" \in Parsers
    BY DEF Parsers
  <2> DEFINE range == [first |-> index, last |-> Min({index + BatchRecords, Len(waiting)})]
  <2>2. Begin("waiting", range)
    BY <1>7 DEF BeginBatch
  <2> HIDE DEF range
  <2> QED
    BY <1>1, <2>1, <2>2, BeginLogs
<1>8. CASE \/ NextWaiting \/ WaitingRefused \/ WaitingMove \/ LeaveSecondPass
           \/ EndSecondPass \/ Destroy \/ UNCHANGED vars
  <2>1. waiting' = waiting /\ (DropUnstarted \/ UNCHANGED pool)
    BY <1>8 DEF NextWaiting, WaitingRefused, WaitingMove, LeaveSecondPass, EndSecondPass, Destroy,
                vars, held, pool
  <2> QED
    BY <1>1, <1>2, <2>1, DropLogs
<1> QED
  BY <1>3, <1>4, <1>5, <1>6, <1>7, <1>8 DEF Steps
----------------------------------------------------------------------------
(* Every step keeps the invariant: the lines left to replay. *)

\* What a step leaves alone keeps the lines left, when their log still has them.
LEMMA PendingKept ==
  ASSUME PendingInv, UNCHANGED <<pending_release, parsed_here, attributes, log_set, window>>,
         batch'.parser = batch.parser, next_chunk \in Nat, next_chunk' \in Nat,
         next_chunk <= next_chunk',
         pending_release # None => LeftStands(pending_release, logs'),
         pc' \notin {"here", "take"} => pc \notin {"here", "take"},
         pc' \in AtWaiting => pc \in AtWaiting
  PROVE  PendingInv'
<1>1. pending_release # None => pending_release.chunk \in Nat
  BY Sizes DEF PendingInv, Lefts
<1>2. pending_release # None /\ pending_release.parser = batch'.parser
        /\ pending_release.set = log_set[batch'.parser]
        => pending_release.chunk < next_chunk'
  BY <1>1 DEF PendingInv
<1> QED
  BY <1>2 DEF PendingInv

\* So does a step that clears them, or has none.
LEMMA PendingNone ==
  ASSUME pending_release' = None, parsed_here' \in BOOLEAN, attributes' \in Nat \cup {None},
         attributes' # None => parsed_here'
  PROVE  PendingInv'
BY DEF PendingInv

\* What LeaveRelease() of a parsed place comes to.
LeftOf(p, r) ==
  /\ p \in Lefts /\ p # None
  /\ LeftStands(p, logs)
  /\ p.parser = batch.parser /\ p.set = log_set[batch.parser] /\ p.chunk < next_chunk
  /\ p.slot = r

LEMMA LeaveRight ==
  ASSUME PoolInv, LogsInv, NEW i, NEW r \in Nat, NEW what, NEW needs, NEW attrs \in BOOLEAN,
         Right(OutcomeAt(i), LogOf(ChunkOf(i)), r, what, needs, attrs),
         OutcomeAt(i) \in Outcomes, ChunkOf(i) \in 0..(next_chunk - 1), ChunkOf(i) \in Records
  PROVE  LeaveRelease(i, r) = None \/ LeftOf(LeaveRelease(i, r), r)
<1> DEFINE o == OutcomeAt(i)
           log == LogOf(ChunkOf(i))
           p == LeaveRelease(i, r)
<1>1. batch.parser \in Parsers /\ log_set[batch.parser] \in 0..1 /\ next_chunk \in Nat
  BY BatchSizes DEF PoolInv, LogsInv
<1>2. o.begin \in Nat /\ o.end \in Nat /\ o.release \in Nat
  BY DEF Outcomes
<1> SUFFICES ASSUME o.release # o.end PROVE LeftOf(p, r)
  BY DEF LeaveRelease
<1>3. o.release = o.end + 1 /\ o.release <= Len(log)
      /\ log[o.release] = [what |-> "release", record |-> r]
  BY DEF Right
<1>4. p = [parser |-> batch.parser, set |-> log_set[batch.parser],
           chunk |-> ChunkOf(i), begin |-> o.end, end |-> o.release, slot |-> r]
  BY DEF LeaveRelease
<1>5. ChunkOf(i) \in Nat /\ ChunkOf(i) < next_chunk
  BY <1>1
<1>6. p \in Lefts
  BY <1>1, <1>2, <1>4, <1>5 DEF Lefts
<1>7. p # None
  BY <1>6, Sizes
<1>8. LeftStands(p, logs)
  <2>1. logs[p.parser][p.set][p.chunk] = log
    BY <1>4 DEF LogOf
  <2>2. p.chunk \in Records /\ p.begin = o.end /\ p.end = o.release /\ p.slot = r
    BY <1>4
  <2> HIDE DEF p, o, log
  <2> QED
    BY <1>3, <2>1, <2>2 DEF LeftStands
<1> QED
  BY <1>4, <1>5, <1>6, <1>7, <1>8 DEF LeftOf

\* The threads do not write over them.
LEMMA WorkLeftStands ==
  ASSUME HeldInv, MediumInv, WindowsInv, PoolInv, LogsInv, PendingInv, NEW t \in Threads,
         TakeChunk(t) \/ ParseOne(t), pending_release # None
  PROVE  LeftStands(pending_release, logs')
<1> DEFINE l == pending_release
           p == batch.parser
           s == log_set[p]
           log == logs[l.parser][l.set][l.chunk]
<1>1. /\ l.parser \in Parsers /\ l.set \in 0..1 /\ l.chunk \in Records
      /\ l.begin \in Nat /\ l.end \in Nat /\ log \in Seq(Lines)
  BY LeftTyped
<1>2. /\ l.begin + 1 = l.end /\ l.end <= Len(log)
      /\ log[l.end] = [what |-> "release", record |-> l.slot]
  BY DEF PendingInv, LeftStands
<1>3. PoolShape(batch, next_chunk, done, job) /\ p \in Parsers /\ s \in 0..1 /\ next_chunk \in Nat
  BY BatchSizes DEF PoolInv, LogsInv
<1>4. CASE TakeChunk(t)
  <2>1. logs' = [logs EXCEPT ![p][s][next_chunk] = <<>>] /\ next_chunk < CountOf(batch)
    BY <1>3, <1>4, BatchSizes DEF TakeChunk
  <2>2. next_chunk \in Records
    BY <1>3, <2>1, BatchSizes, SlotsAre, Sizes
  <2>3. LogReplaced(logs', logs, p, s, next_chunk, <<>>)
    BY <1>3, <2>1, <2>2, NothingTyped, ReplaceLog DEF LogsInv, AllLogs
  <2>4. l.parser = p /\ l.set = s => l.chunk < next_chunk
    BY DEF PendingInv
  <2>5. l.parser # p \/ l.set # s \/ l.chunk # next_chunk
    BY <1>3, <2>4
  <2>6. logs'[l.parser][l.set][l.chunk] = log
    BY <1>1, <2>3, <2>5 DEF LogReplaced
  <2> QED
    BY <1>1, <1>2, <2>6 DEF LeftStands
<1>5. CASE ParseOne(t)
  <2> DEFINE c == job[t].chunk
  <2>1. PICK o, x : /\ ParsedPlace(o, logs[p][s][c], x, job[t].at)
                    /\ LogReplaced(logs', logs, p, s, c, logs[p][s][c] \o x)
    BY <1>5, ParseOneFinds
  <2>2. CASE l.parser = p /\ l.set = s /\ l.chunk = c
    <3>1. logs'[l.parser][l.set][l.chunk] = log \o x /\ x \in Seq(Lines)
      BY <2>1, <2>2 DEF LogReplaced, ParsedPlace
    <3> DEFINE q == log \o x
               T == Lines
    <3>2. log \in Seq(T) /\ x \in Seq(T)
      BY <1>1, <3>1
    <3> HIDE DEF log, T
    <3>3. l.end <= Len(q) /\ q[l.end] = log[l.end]
      <4>1. l.end \in 1..Len(log)
        BY <1>1, <1>2, <3>2
      <4> QED
        BY <3>2, <4>1
    <3> HIDE DEF q
    <3>4. logs'[l.parser][l.set][l.chunk] = q
      BY <3>1 DEF q
    <3> QED
      BY <1>1, <1>2, <3>3, <3>4 DEF LeftStands
  <2>3. CASE l.parser # p \/ l.set # s \/ l.chunk # c
    <3>1. logs'[l.parser][l.set][l.chunk] = log
      BY <1>1, <2>1, <2>3 DEF LogReplaced
    <3> QED
      BY <1>1, <1>2, <3>1 DEF LeftStands
  <2> QED
    BY <2>2, <2>3
<1> QED
  BY <1>4, <1>5

LEMMA StartedGrows ==
  ASSUME PoolInv, DropUnstarted \/ UNCHANGED pool
  PROVE  /\ batch'.parser = batch.parser /\ UNCHANGED <<log_set, logs>>
         /\ next_chunk \in Nat /\ next_chunk' \in Nat /\ next_chunk <= next_chunk'
<1>1. PoolShape(batch, next_chunk, done, job)
  BY DEF PoolInv
<1>2. next_chunk \in Nat /\ CountOf(batch) \in Nat /\ next_chunk <= CountOf(batch)
  BY <1>1, BatchSizes
<1>3. CASE UNCHANGED pool
  BY <1>2, <1>3 DEF pool
<1>4. CASE DropUnstarted
  <2>1. batch'.parser = batch.parser /\ next_chunk' = CountOf(batch)
    BY <1>1, <1>4, DropShape
  <2>2. UNCHANGED <<log_set, logs>>
    BY <1>4 DEF DropUnstarted
  <2> QED
    BY <1>2, <2>1, <2>2
<1> QED
  BY <1>3, <1>4

LEMMA SlotMovePending ==
  ASSUME HeldInv, MediumInv, WindowsInv, PoolInv, LogsInv, PendingInv,
         TakeParsed \/ ParseHere, SlotMove
  PROVE  PendingInv'
<1>1. /\ record \in Nat /\ pc \in {"here", "take"} /\ pc' = "next"
      /\ UNCHANGED <<pool, reader>>
  BY WhereItIs DEF SlotMove, AtSlot
<1>2. CASE TakeParsed
  <2>1. pc = "take" /\ Parsed(record) /\ TakeOutcome(record, record)
    BY <1>2 DEF TakeParsed
  <2>2. /\ attributes' = None /\ parsed_here' = FALSE
        /\ pending_release' = LeaveRelease(record, record)
    BY <2>1, DueLines DEF TakeOutcome
  <2> DEFINE attrs == Kind(record) \in {"plain", "lost"}
             needs == Kind(record) = "stream"
             l == LeaveRelease(record, record)
  <2>3. Right(OutcomeAt(record), LogOf(ChunkOf(record)), record, "parse", needs, attrs)
        /\ OutcomeAt(record) \in Outcomes
        /\ ChunkOf(record) \in 0..(next_chunk - 1) /\ ChunkOf(record) \in Records
    BY <2>1, SlotFound
  <2>4. attrs \in BOOLEAN
    OBVIOUS
  <2> HIDE DEF attrs, needs
  <2>5. l = None \/ LeftOf(l, record)
    BY <1>1, <2>3, <2>4, LeaveRight
  <2> HIDE DEF l
  <2>6. CASE l = None
    BY <2>2, <2>6, PendingNone DEF l
  <2>7. CASE LeftOf(l, record)
    <3>1. batch.parser = "window" /\ In(record, batch)
          /\ window = [first |-> batch.first, last |-> batch.last]
      BY <2>1 DEF PoolInv, Live
    <3>2. In(record, window)
      BY <3>1 DEF In
    <3>3. UNCHANGED <<batch, next_chunk, log_set, logs, window>>
      BY <1>1 DEF pool, reader
    <3>4. pending_release' = l /\ l # None
      BY <2>2, <2>7 DEF l, LeftOf
    <3>5. pc' \notin AtWaiting
      BY <1>1 DEF AtWaiting
    <3> QED
      BY <2>2, <2>7, <3>1, <3>2, <3>3, <3>4, <3>5 DEF LeftOf, PendingInv
  <2> QED
    BY <2>5, <2>6, <2>7
<1>3. CASE ParseHere
  <2>1. \E before : \E b \in BOOLEAN : ParseOnScanner(before, "parse", record, b)
    <3> DEFINE waits == HasList(record) /\ Served(record)
               attrs == Kind(record) \in {"plain", "lost", "stream"} \/ (HasList(record) /\ ~waits)
    <3>1. ParseOnScanner(PendingLines \o LoadLines(record), "parse", record, attrs)
      BY <1>3 DEF ParseHere
    <3>2. attrs \in BOOLEAN
      BY DEF HasList
    <3> QED
      BY <3>1, <3>2
  <2>2. PICK attrs \in BOOLEAN : /\ attributes' = IF attrs THEN record ELSE None
                                 /\ parsed_here' = (attrs \/ parsed_here)
                                 /\ pending_release' = None
    BY <2>1 DEF ParseOnScanner
  <2>3. parsed_here \in BOOLEAN
    BY DEF PendingInv
  <2>4. parsed_here' \in BOOLEAN
    BY <2>2, <2>3
  <2>5. attributes' \in Nat \cup {None} /\ (attributes' # None => parsed_here')
    BY <1>1, <2>2
  <2> QED
    BY <2>2, <2>4, <2>5, PendingNone
<1> QED
  BY <1>2, <1>3

LEMMA WaitingMovePending ==
  ASSUME HeldInv, PoolInv, LogsInv, PendingInv, WaitingInv,
         TakeWaiting \/ ParseWaitingHere, WaitingMove
  PROVE  PendingInv'
<1> DEFINE r == waiting[index + 1].record
<1>1. /\ pc \in AtWaiting /\ pc' = "second" /\ UNCHANGED <<pool, reader>>
  BY DEF WaitingMove, AtWaiting
<1>2. r \in Nat /\ index \in Nat
  BY <1>1, WaitingIs
<1>3. CASE TakeWaiting
  <2>1. pc = "waiting_take" /\ Parsed(index) /\ ~OutcomeAt(index).needs /\ TakeOutcome(index, r)
    BY <1>3 DEF TakeWaiting
  <2>2. /\ attributes' = None /\ parsed_here' = FALSE
        /\ pending_release' = LeaveRelease(index, r)
    BY <2>1, DueLines DEF TakeOutcome
  <2> DEFINE l == LeaveRelease(index, r)
  <2>3. Right(OutcomeAt(index), LogOf(ChunkOf(index)), r, "reparse", FALSE, TRUE)
        /\ OutcomeAt(index) \in Outcomes
        /\ ChunkOf(index) \in 0..(next_chunk - 1) /\ ChunkOf(index) \in Records
    BY <1>2, <2>1, WaitingFound
  <2> HIDE DEF r
  <2>4. l = None \/ LeftOf(l, r)
    BY <1>2, <2>3, LeaveRight
  <2> HIDE DEF l
  <2>5. CASE l = None
    BY <2>2, <2>5, PendingNone DEF l
  <2>6. CASE LeftOf(l, r)
    <3>1. batch.parser = "waiting"
      BY <2>1 DEF PoolInv
    <3>2. UNCHANGED <<batch, next_chunk, log_set, logs>>
      BY <1>1 DEF pool
    <3>3. pending_release' = l /\ l # None
      BY <2>2, <2>6 DEF l, LeftOf
    <3>4. pc' \notin AtWaiting
      BY <1>1 DEF AtWaiting
    <3> QED
      BY <2>2, <2>6, <3>1, <3>2, <3>3, <3>4 DEF LeftOf, PendingInv
  <2> QED
    BY <2>4, <2>5, <2>6
<1>4. CASE ParseWaitingHere
  <2>1. /\ attributes' = r /\ parsed_here' = TRUE /\ pending_release' = None
    BY <1>4 DEF ParseWaitingHere, ParseOnScanner
  <2> QED
    BY <1>2, <2>1, PendingNone
<1> QED
  BY <1>3, <1>4

LEMMA PendingStays ==
  ASSUME IInv, Steps
  PROVE  PendingInv'
<1>1. /\ HeldInv /\ MediumInv /\ WindowsInv /\ PoolInv /\ LogsInv /\ PendingInv /\ WaitingInv
      /\ PoolInv'
  BY PoolStays DEF IInv
<1>2. pending_release # None => LeftStands(pending_release, logs)
  BY <1>1 DEF PendingInv
<1>3. parsed_here \in BOOLEAN /\ attributes \in Nat \cup {None} /\ (attributes # None => parsed_here)
  BY <1>1 DEF PendingInv
<1>4. CASE WorkMove
  <2>1. PICK t \in Threads : TakeChunk(t) \/ ParseOne(t)
    BY <1>4 DEF WorkMove
  <2>2. UNCHANGED <<pending_release, parsed_here, attributes, window, pc>>
    BY <1>4 DEF WorkMove, output, reader
  <2>3. UNCHANGED <<log_set, batch>> /\ (next_chunk' = next_chunk + 1 \/ next_chunk' = next_chunk)
    BY <2>1 DEF TakeChunk, ParseOne
  <2>4. next_chunk \in Nat
    BY <1>1, BatchSizes DEF PoolInv
  <2>5. next_chunk' \in Nat /\ next_chunk <= next_chunk'
    BY <2>3, <2>4
  <2>6. pending_release # None => LeftStands(pending_release, logs')
    BY <1>1, <2>1, WorkLeftStands
  <2> QED
    BY <1>1, <2>2, <2>3, <2>4, <2>5, <2>6, PendingKept
<1>5. CASE NextSlot \/ TakeRefused \/ LeaveLoop \/ EndFirstPass \/ LeaveSecondPass \/ EndSecondPass
           \/ WaitingRefused \/ UNCHANGED vars
  <2>1. UNCHANGED <<pending_release, parsed_here, attributes, window>>
    BY <1>5 DEF NextSlot, TakeRefused, LeaveLoop, EndFirstPass, LeaveSecondPass, EndSecondPass,
                WaitingRefused, vars, output, reader
  <2>2. DropUnstarted \/ UNCHANGED pool
    BY <1>5 DEF NextSlot, TakeRefused, LeaveLoop, EndFirstPass, LeaveSecondPass, EndSecondPass,
                WaitingRefused, vars, pool
  <2>3. /\ batch'.parser = batch.parser /\ UNCHANGED <<log_set, logs>>
        /\ next_chunk \in Nat /\ next_chunk' \in Nat /\ next_chunk <= next_chunk'
    BY <1>1, <2>2, StartedGrows
  <2>4. /\ pc' \notin {"here", "take"} => pc \notin {"here", "take"}
        /\ pc' \in AtWaiting => pc \in AtWaiting
    BY <1>5 DEF NextSlot, TakeRefused, LeaveLoop, EndFirstPass, LeaveSecondPass, EndSecondPass,
                WaitingRefused, vars, AtWaiting
  <2> QED
    BY <1>1, <1>2, <2>1, <2>3, <2>4, PendingKept
<1>6. CASE BeginWindow
  <2>1. UNCHANGED <<pending_release, parsed_here, attributes>> /\ pc = "window"
        /\ pc' \in {"here", "take"}
    BY <1>6 DEF BeginWindow
  <2>2. pending_release # None /\ pending_release.parser = batch'.parser
          /\ pending_release.set = log_set'[batch'.parser]
          => pending_release.chunk < next_chunk'
    <3>1. CASE UNCHANGED pool
      BY <1>1, <3>1 DEF pool, PendingInv
    <3>2. CASE Begin("window", window')
      <4>1. batch'.parser = "window" /\ log_set' = [log_set EXCEPT !["window"] = OtherSet("window")]
        BY <3>2 DEF Begin
      <4>2. "window" \in Parsers /\ log_set \in [Parsers -> 0..1]
        BY <1>1 DEF Parsers, LogsInv
      <4>3. log_set'["window"] = 1 - log_set["window"] /\ log_set["window"] \in 0..1
        BY <4>1, <4>2 DEF OtherSet
      <4>4. pending_release # None => pending_release.set = log_set[pending_release.parser]
        BY <1>1, <2>1 DEF PendingInv
      <4> QED
        BY <4>1, <4>3, <4>4
    <3> QED
      BY <1>6, <3>1, <3>2 DEF BeginWindow
  <2>3. logs' = logs
    BY <1>6 DEF BeginWindow, Begin, pool
  <2>4. pc' \notin AtWaiting
    BY <2>1 DEF AtWaiting
  <2> QED
    BY <1>1, <2>1, <2>2, <2>3, <2>4 DEF PendingInv
<1>7. CASE (TakeParsed \/ ParseHere) /\ SlotMove
  BY <1>1, <1>7, SlotMovePending
<1>8. CASE NextWaiting
  <2>1. pending_release' = None /\ UNCHANGED <<parsed_here, attributes>>
    BY <1>8 DEF NextWaiting
  <2> QED
    BY <1>3, <2>1, PendingNone
<1>9. CASE BeginBatch
  <2>1. UNCHANGED <<pending_release, parsed_here, attributes>> /\ pc \in AtWaiting
    BY <1>9 DEF BeginBatch, output, AtWaiting
  <2>2. pending_release = None
    BY <1>1, <2>1 DEF PendingInv
  <2> QED
    BY <1>3, <2>1, <2>2, PendingNone
<1>10. CASE (TakeWaiting \/ ParseWaitingHere) /\ WaitingMove
  BY <1>1, <1>10, WaitingMovePending
<1>11. CASE Destroy
  <2>1. pending_release' = None /\ attributes' = None /\ UNCHANGED parsed_here
    BY <1>11 DEF Destroy
  <2> QED
    BY <1>3, <2>1, PendingNone
<1> QED
  BY <1>4, <1>5, <1>6, <1>7, <1>8, <1>9, <1>10, <1>11 DEF Steps
----------------------------------------------------------------------------
(* Every step keeps the invariant: the records that wait, and the counters. *)

\* What is chosen stands in record order.
Increases(c) == \A i, j \in 1..Len(c) : i < j => c[i] < c[j]

LEMMA ChosenIncreases ==
  ASSUME NEW used \in SUBSET Nat, NEW some \in SUBSET used, NEW p \in Nat
  PROVE  Increases(ChosenOf(used, some, p))
<1> DEFINE Wrong == {k \in Nat : ~Increases(ChosenOf(used, some, k))}
<1> SUFFICES ASSUME Wrong # {} PROVE FALSE
  OBVIOUS
<1>1. PICK d \in Wrong : \A k \in Wrong : d <= k
  BY LeastNatural
<1>2. d # 0
  <2>1. ChosenOf(used, some, 0) = <<>>
    BY ChosenNext
  <2>2. Increases(<<>>)
    BY DEF Increases
  <2> QED
    BY <2>1, <2>2
<1>3. PICK e \in Nat : e + 1 = d /\ e \notin Wrong
  <2>1. d - 1 \in Nat /\ (d - 1) + 1 = d /\ ~(d <= d - 1)
    BY <1>2
  <2> QED
    BY <1>1, <2>1
<1> DEFINE c == ChosenOf(used, some, e)
<1>4. Increases(c) /\ ~Increases(ChosenOf(used, some, d))
  BY <1>3
<1> HIDE DEF Wrong
<1>5. ChosenOf(used, some, e + 1) = IF e \in some THEN Append(c, e) ELSE c
  BY ChosenNext
<1>6. c \in Seq(Nat) /\ \A i \in 1..Len(c) : c[i] < e
  BY SeenTyped, ChosenElements
<1> HIDE DEF c
<1>7. Increases(Append(c, e))
  <2> DEFINE a == Append(c, e)
  <2>1. Len(c) \in Nat /\ Len(a) = Len(c) + 1 /\ a[Len(c) + 1] = e
        /\ \A i \in 1..Len(c) : a[i] = c[i]
    BY <1>6
  <2> HIDE DEF a
  <2>2. ASSUME NEW i \in 1..Len(a), NEW j \in 1..Len(a), i < j PROVE a[i] < a[j]
    <3>1. i \in 1..Len(c)
      BY <2>1, <2>2
    <3>2. CASE j \in 1..Len(c)
      BY <1>4, <2>1, <2>2, <3>1, <3>2 DEF Increases
    <3>3. CASE j = Len(c) + 1
      BY <1>6, <2>1, <3>1, <3>3
    <3> QED
      BY <2>1, <3>2, <3>3
  <2> QED
    BY <2>2 DEF Increases, a
<1> QED
  BY <1>3, <1>4, <1>5, <1>7

\* How far a step takes the scan.
LEMMA ThroughMoves ==
  ASSUME IInv, Steps
  PROVE  \/ /\ SlotMove /\ record \in Used /\ record \in Nat /\ Through = record
            /\ Through' = record + 1
         \/ /\ NextSlot /\ pc' = "next" /\ Through' = Through + 1 /\ Through \notin Used
            /\ waiting' = waiting /\ UNCHANGED <<output, result, second>>
         \/ /\ Through' = Through /\ waiting' = waiting
            /\ \/ WaitingMove
               \/ EndSecondPass
               \/ UNCHANGED <<index, counted, result>>
<1>1. HeldInv /\ HeldInv'
  BY HeldStays DEF IInv
<1>2. \A x : (record = x => Held!Position = IF x = None THEN 0 ELSE x + 1)
  BY DEF Held!Position
<1>3. record' = record => Held!Position' = Held!Position
  BY DEF Held!Position
<1>4. ASSUME NEW q, NEW q2, q = (pc \in AtSlot), q2 = (pc' \in AtSlot), q = q2,
             record' = record
      PROVE  Through' = Through
  BY <1>3, <1>4 DEF Through
<1>5. CASE SlotMove
  <2>1. /\ record \in Used /\ record \in Nat /\ Through = record /\ record # None
    BY <1>1, <1>5, WhereItIs, Sizes DEF SlotMove, AtSlot
  <2>2. Through' = Held!Position' /\ record' = record
    BY <1>5 DEF SlotMove, Through, AtSlot
  <2>3. Held!Position' = record + 1
    BY <2>1, <2>2 DEF Held!Position
  <2> QED
    BY <1>5, <2>1, <2>2, <2>3
<1>6. CASE NextSlot
  <2>1. /\ record' = Held!Position /\ record' \in Records /\ waiting' = waiting
        /\ (IsFree(record') => pc' = "next")
        /\ (~IsFree(record') => record' \in Used)
    BY <1>1, <1>6, NextSlotCalls
  <2>2. Through = Held!Position /\ UNCHANGED <<output, result, second>> /\ pc = "next"
    BY <1>6 DEF NextSlot, Through, AtSlot
  <2>3. pc' \in {"next", "here", "take", "window"} /\ (pc' = "next" <=> IsFree(record'))
    BY <1>6, <2>1 DEF NextSlot
  <2>4. CASE pc' = "next"
    <3>1. Through' = record' + 1
      <4>1. record' # None
        BY <2>1, SlotsAre
      <4>2. Through' = Held!Position'
        BY <2>4 DEF Through, AtSlot
      <4> QED
        BY <4>1, <4>2 DEF Held!Position
    <3>2. IsFree(record')
      BY <2>3, <2>4
    <3>3. Through \notin Used
      BY <2>1, <2>2, <3>2 DEF Used
    <3> QED
      BY <1>6, <2>1, <2>2, <2>4, <3>1, <3>3
  <2>5. CASE pc' # "next"
    <3>1. Through' = record'
      BY <2>3, <2>5 DEF Through, AtSlot
    <3> QED
      BY <2>1, <2>2, <3>1 DEF output, result, second
  <2> QED
    BY <2>4, <2>5
<1>7. CASE EndFirstPass
  <2>1. record' = record /\ waiting' = waiting
    BY <1>1, <1>7, EndFirstPassCalls
  <2>2. UNCHANGED <<index, counted, result>> /\ pc = "end_first" /\ pc' = "second"
    BY <1>7 DEF EndFirstPass, output
  <2> QED
    BY <1>4, <2>1, <2>2 DEF AtSlot
<1>8. CASE WorkMove \/ BeginWindow \/ TakeRefused \/ LeaveLoop \/ NextWaiting \/ BeginBatch
           \/ WaitingRefused \/ LeaveSecondPass \/ Destroy \/ UNCHANGED vars
  <2>1. record' = record /\ waiting' = waiting
    BY <1>8 DEF WorkMove, BeginWindow, TakeRefused, LeaveLoop, NextWaiting, BeginBatch,
                WaitingRefused, LeaveSecondPass, Destroy, vars, held
  <2>2. UNCHANGED <<index, counted, result>>
    BY <1>8 DEF WorkMove, BeginWindow, TakeRefused, LeaveLoop, NextWaiting, BeginBatch,
                WaitingRefused, LeaveSecondPass, Destroy, vars, output, second
  <2>3. (pc' \in AtSlot) = (pc \in AtSlot)
    BY <1>8 DEF WorkMove, BeginWindow, TakeRefused, LeaveLoop, NextWaiting, BeginBatch,
                WaitingRefused, LeaveSecondPass, Destroy, vars, AtSlot
  <2> QED
    BY <1>4, <2>1, <2>2, <2>3
<1>9. CASE WaitingMove \/ EndSecondPass
  <2>1. record' = record /\ waiting' = waiting /\ pc \notin AtSlot /\ pc' \notin AtSlot
    BY <1>9 DEF WaitingMove, EndSecondPass, held, AtSlot
  <2> QED
    BY <1>4, <1>9, <2>1
<1> QED
  BY <1>5, <1>6, <1>7, <1>8, <1>9 DEF Steps

LEMMA VolumeTyped ==
  /\ Used \in SUBSET Nat /\ WaitSet \in SUBSET Used /\ KeptSet \in SUBSET Used
  /\ WaitSet \cup KeptSet \in SUBSET Used
BY SlotsAre DEF WaitSet, KeptSet

\* The records that wait after one more is held.
LEMMA RecordsNext ==
  ASSUME NEW w, NEW S, waiting \in Seq(S)
  PROVE  RecordsOf(Append(waiting, w)) = Append(RecordsOf(waiting), w.record)
<1> DEFINE a == Append(waiting, w)
           n == Len(waiting)
           rs == RecordsOf(waiting)
           q == Append(rs, w.record)
           T == S \cup {w}
           R == {s.record : s \in S} \cup {w.record}
<1>1. waiting \in Seq(T) /\ w \in T
  BY SMT
<1> HIDE DEF T
<1>2. n \in Nat /\ a \in Seq(T) /\ Len(a) = n + 1 /\ a[n + 1] = w /\ DOMAIN a = 1..(n + 1)
      /\ DOMAIN waiting = 1..n /\ \A i \in 1..n : a[i] = waiting[i]
  BY <1>1
<1> HIDE DEF a
<1>3. rs = [i \in 1..n |-> waiting[i].record]
  BY <1>2 DEF RecordsOf
<1>4. \A i \in 1..n : waiting[i].record \in R
  BY <1>2
<1> HIDE DEF n, R
<1>5. rs \in Seq(R) /\ Len(rs) = n /\ w.record \in R
  <2>1. rs \in [1..n -> R]
    BY <1>3, <1>4
  <2>2. w.record \in R
    BY DEF R
  <2> QED
    BY <1>2, <2>1, <2>2
<1>6. \A i \in 1..n : rs[i] = waiting[i].record
  BY <1>3
<1> HIDE DEF rs
<1>7. Appended(q, rs, w.record)
  BY <1>5, AppendIsAppended
<1> HIDE DEF q
<1>8. q = [i \in 1..(n + 1) |-> q[i]] /\ q[n + 1] = w.record /\ \A i \in 1..n : q[i] = rs[i]
  BY <1>5, <1>7 DEF Appended
<1>9. RecordsOf(a) = [i \in 1..(n + 1) |-> a[i].record]
  BY <1>2 DEF RecordsOf
<1>10. \A i \in 1..(n + 1) : a[i].record = q[i]
  <2>1. ASSUME NEW i \in 1..(n + 1) PROVE a[i].record = q[i]
    <3>1. i \in 1..n \/ i = n + 1
      BY <1>2
    <3>2. i \in 1..n => a[i].record = q[i]
      BY <1>2, <1>6, <1>8
    <3>3. a[n + 1].record = q[n + 1]
      BY <1>2, <1>8
    <3> QED
      BY <3>1, <3>2, <3>3
  <2> QED
    BY <2>1
<1>11. RecordsOf(a) = q
  BY <1>8, <1>9, <1>10
<1> QED
  BY <1>11 DEF a, q, rs

LEMMA SlotMoveWaits ==
  ASSUME HeldInv, SlotMove
  PROVE  /\ RecordsOf(waiting') = IF record \in WaitSet THEN Append(RecordsOf(waiting), record)
                                  ELSE RecordsOf(waiting)
         /\ Len(waiting') = IF record \in WaitSet THEN Len(waiting) + 1 ELSE Len(waiting)
<1>1. waiting \in Seq(HP!Waiting) /\ Len(waiting) \in Nat
  BY HeldFacts DEF HeldInv
<1>2. CASE record \in WaitSet
  <2>1. PICK w : w.record = record /\ waiting' = Append(waiting, w)
    BY <1>2 DEF SlotMove
  <2> DEFINE T == HP!Waiting
  <2>2. waiting \in Seq(T)
    BY <1>1
  <2> HIDE DEF T
  <2>3. RecordsOf(waiting') = Append(RecordsOf(waiting), record)
    BY <2>1, <2>2, RecordsNext
  <2>4. Len(waiting') = Len(waiting) + 1
    <3> DEFINE U == T \cup {w}
    <3>1. waiting \in Seq(U) /\ w \in U
      BY <2>2
    <3> HIDE DEF U
    <3> QED
      BY <2>1, <3>1
  <2> QED
    BY <1>2, <2>3, <2>4
<1>3. CASE record \notin WaitSet
  BY <1>3 DEF SlotMove, SameWaiting
<1> QED
  BY <1>2, <1>3

\* The records that wait follow those of one thread.
LEMMA WaitingFollows ==
  ASSUME IInv, Steps
  PROVE  /\ RecordsOf(waiting') = ChosenOf(Used', WaitSet', Through')
         /\ Len(waiting') <= Through' /\ Len(waiting') \in Nat /\ Len(waiting) <= Len(waiting')
         /\ waiting' = waiting \/ SlotMove
<1>1. /\ RecordsOf(waiting) = ChosenOf(Used, WaitSet, Through) /\ Len(waiting) <= Through
      /\ Len(waiting) \in Nat /\ HeldInv /\ Through \in Nat
  BY HeldFacts, WhereItIs DEF IInv, WaitingInv, HeldInv
<1>2. Used' = Used /\ WaitSet' = WaitSet
  BY MediumStays, SameVolume
<1>3. Used \in SUBSET Nat /\ WaitSet \in SUBSET Used
  BY VolumeTyped
<1>4. CASE SlotMove /\ record \in Used /\ record \in Nat /\ Through = record /\ Through' = record + 1
  <2>1. ChosenOf(Used, WaitSet, record + 1)
          = IF record \in WaitSet THEN Append(ChosenOf(Used, WaitSet, record), record)
            ELSE ChosenOf(Used, WaitSet, record)
    BY <1>3, <1>4, ChosenNext
  <2>2. /\ RecordsOf(waiting') = IF record \in WaitSet THEN Append(RecordsOf(waiting), record)
                                 ELSE RecordsOf(waiting)
        /\ Len(waiting') = IF record \in WaitSet THEN Len(waiting) + 1 ELSE Len(waiting)
    BY <1>1, <1>4, SlotMoveWaits
  <2> QED
    BY <1>1, <1>2, <1>4, <2>1, <2>2
<1>5. CASE Through' = Through + 1 /\ Through \notin Used /\ waiting' = waiting
  <2>1. ChosenOf(Used, WaitSet, Through + 1) = ChosenOf(Used, WaitSet, Through)
    <3> DEFINE n == Through
    <3>1. n \in Nat /\ n \notin WaitSet
      BY <1>1, <1>3, <1>5
    <3> HIDE DEF n
    <3>2. ChosenOf(Used, WaitSet, n + 1) = ChosenOf(Used, WaitSet, n)
      BY <1>3, <3>1, ChosenNext
    <3> QED
      BY <3>2 DEF n
  <2> QED
    BY <1>1, <1>2, <1>5, <2>1
<1>6. CASE Through' = Through /\ waiting' = waiting
  BY <1>1, <1>2, <1>6
<1> QED
  BY <1>4, <1>5, <1>6, ThroughMoves

LEMMA WaitingStays ==
  ASSUME IInv, Steps
  PROVE  WaitingInv'
<1>1. /\ RecordsOf(waiting') = ChosenOf(Used', WaitSet', Through')
      /\ Len(waiting') <= Through' /\ Len(waiting') \in Nat /\ Len(waiting) <= Len(waiting')
      /\ waiting' = waiting \/ SlotMove
  BY WaitingFollows
<1>2. /\ index \in Nat /\ index <= Len(waiting) /\ Len(waiting) \in Nat
      /\ pc \in FirstPcs => index = 0
      /\ pc \in AtWaiting => index < Len(waiting)
      /\ pc \in {"end_second", "destroy", "gone"} => index = Len(waiting)
  BY HeldFacts DEF IInv, WaitingInv, HeldInv
<1> DEFINE Places ==
      /\ index' \in Nat /\ index' <= Len(waiting')
      /\ pc' \in FirstPcs => index' = 0
      /\ pc' \in AtWaiting => index' < Len(waiting')
      /\ pc' \in {"end_second", "destroy", "gone"} => index' = Len(waiting')
<1> SUFFICES Places
  BY <1>1 DEF WaitingInv, RecordsOf
<1>3. CASE WorkMove \/ UNCHANGED vars
  <2>1. UNCHANGED <<pc, index, waiting>>
    BY <1>3 DEF WorkMove, vars, held, second
  <2> QED
    BY <1>2, <2>1
<1>4. CASE NextSlot \/ BeginWindow \/ TakeRefused \/ SlotMove \/ LeaveLoop
  <2>1. /\ pc \in FirstPcs /\ index' = index
        /\ pc' \notin AtWaiting \cup {"end_second", "destroy", "gone"}
    BY <1>4 DEF NextSlot, BeginWindow, TakeRefused, SlotMove, LeaveLoop, second, FirstPcs, AtSlot,
                AtWaiting
  <2> QED
    BY <1>1, <1>2, <2>1
<1>5. CASE EndFirstPass
  <2>1. pc \in FirstPcs /\ index' = index /\ pc' = "second"
    BY <1>5 DEF EndFirstPass, FirstPcs
  <2> QED
    BY <1>1, <1>2, <2>1 DEF FirstPcs, AtSlot, AtWaiting
<1>6. CASE NextWaiting
  <2>1. index < Len(waiting) /\ index' = index /\ pc' \in AtWaiting /\ waiting' = waiting
    BY <1>6 DEF NextWaiting, second, AtWaiting, held
  <2> QED
    BY <1>2, <2>1 DEF FirstPcs, AtSlot, AtWaiting
<1>7. CASE BeginBatch \/ WaitingRefused
  <2>1. pc \in AtWaiting /\ index' = index /\ pc' \in AtWaiting /\ waiting' = waiting
    BY <1>7 DEF BeginBatch, WaitingRefused, second, AtWaiting, held
  <2> QED
    BY <1>2, <2>1 DEF FirstPcs, AtSlot, AtWaiting
<1>8. CASE WaitingMove
  <2>1. pc \in AtWaiting /\ index' = index + 1 /\ pc' = "second" /\ waiting' = waiting
    BY <1>8 DEF WaitingMove, AtWaiting, held
  <2> QED
    BY <1>2, <2>1 DEF FirstPcs, AtSlot, AtWaiting
<1>9. CASE LeaveSecondPass
  <2>1. index = Len(waiting) /\ index' = index /\ pc' = "end_second" /\ waiting' = waiting
    BY <1>9 DEF LeaveSecondPass, second, held
  <2> QED
    BY <1>2, <2>1 DEF FirstPcs, AtSlot, AtWaiting
<1>10. CASE EndSecondPass \/ Destroy
  <2>1. /\ pc \in {"end_second", "destroy"} /\ index' = index /\ pc' \in {"destroy", "gone"}
        /\ waiting' = waiting
    BY <1>10 DEF EndSecondPass, Destroy, second, held
  <2> QED
    BY <1>2, <2>1 DEF FirstPcs, AtSlot, AtWaiting
<1> QED
  BY <1>3, <1>4, <1>5, <1>6, <1>7, <1>8, <1>9, <1>10 DEF Steps

\* The records that wait are parsed again one by one.
LEMMA CountedAgainNext ==
  ASSUME HeldInv, WaitingInv, pc \in AtWaiting
  PROVE  LET rs == RecordsOf(waiting)
             q == waiting[index + 1].record
         IN  /\ q \in Records /\ rs[index + 1] = q
             /\ q \in WaitSet /\ q < Through
             /\ CountedAgain(rs, index, q) = 0
             /\ \A r : CountedAgain(rs, index + 1, r)
                         = IF r = q THEN 1 ELSE CountedAgain(rs, index, r)
<1> DEFINE rs == RecordsOf(waiting)
           q == waiting[index + 1].record
           n == Len(waiting)
<1>1. /\ index \in Nat /\ index < n /\ index + 1 \in DOMAIN waiting /\ q \in Records /\ q \in Nat
  BY WaitingIs
<1>2. n \in Nat /\ DOMAIN waiting = 1..n
  BY HeldFacts DEF HeldInv
<1>3. rs = [i \in 1..n |-> waiting[i].record]
  BY <1>2 DEF RecordsOf
<1>4. rs[index + 1] = q
  BY <1>1, <1>2, <1>3
<1>5. Through \in Nat
  BY WhereItIs
<1>6. rs = ChosenOf(Used, WaitSet, Through)
  BY DEF WaitingInv
<1>7. Increases(rs) /\ rs \in Seq(Nat) /\ \A i \in 1..Len(rs) : rs[i] \in WaitSet /\ rs[i] < Through
  <2> DEFINE t == Through
             U == Used
             W == WaitSet
  <2>1. t \in Nat /\ U \in SUBSET Nat /\ W \in SUBSET U /\ rs = ChosenOf(U, W, t)
    BY <1>5, <1>6, VolumeTyped
  <2> HIDE DEF t, U, W, rs
  <2>2. Increases(rs) /\ rs \in Seq(Nat) /\ \A i \in 1..Len(rs) : rs[i] \in W /\ rs[i] < t
    BY <2>1, ChosenIncreases, ChosenElements, SeenTyped
  <2> QED
    BY <2>2 DEF t, W
<1> HIDE DEF rs, q, n
<1>8. Len(rs) = n
  BY <1>2, <1>3, <1>7
<1>9. \A j \in 1..index : rs[j] # q
  BY <1>1, <1>2, <1>4, <1>7, <1>8 DEF Increases
<1>10. CountedAgain(rs, index, q) = 0
  BY <1>9 DEF CountedAgain
<1>11. ASSUME NEW r
       PROVE  CountedAgain(rs, index + 1, r) = IF r = q THEN 1 ELSE CountedAgain(rs, index, r)
  <2>1. 1..(index + 1) = 1..index \cup {index + 1} /\ index + 1 \in 1..(index + 1)
    BY <1>1
  <2> QED
    BY <1>4, <2>1 DEF CountedAgain
<1>12. q \in WaitSet /\ q < Through
  BY <1>1, <1>2, <1>4, <1>7, <1>8
<1> QED
  BY <1>1, <1>4, <1>10, <1>11, <1>12 DEF rs, q

LEMMA CountedStays ==
  ASSUME IInv, Steps
  PROVE  CountedInv'
<1>1. HeldInv /\ WaitingInv /\ CountedInv /\ Through \in Nat
  BY WhereItIs DEF IInv
<1>2. Used' = Used
  BY MediumStays, SameVolume
<1> DEFINE Now(r) == CountedOnce(r) + CountedAgain(RecordsOf(waiting), index, r)
           Then1(r) == (IF r \in Used /\ r < Through' THEN 1 ELSE 0)
                       + CountedAgain(RecordsOf(waiting'), index', r)
<1> SUFFICES counted' = [r \in Records |-> Then1(r)]
  BY <1>2 DEF CountedInv, CountedOnce, CountedAgain, RecordsOf
<1>3. counted = [r \in Records |-> Now(r)]
  BY <1>1 DEF CountedInv
<1>4. CASE SlotMove /\ record \in Used /\ record \in Nat /\ Through = record /\ Through' = record + 1
  <2>1. index = 0 /\ index' = 0 /\ counted' = [counted EXCEPT ![record] = @ + 1]
    BY <1>1, <1>4 DEF SlotMove, WaitingInv, second, FirstPcs, AtSlot
  <2>2. \A rs, r : CountedAgain(rs, 0, r) = 0
    BY DEF CountedAgain
  <2>3. \A r \in Records : Now(r) = IF r \in Used /\ r < record THEN 1 ELSE 0
    BY <1>4, <2>1, <2>2 DEF CountedOnce
  <2>4. \A r \in Records : Then1(r) = IF r \in Used /\ r < record + 1 THEN 1 ELSE 0
    BY <1>4, <2>1, <2>2
  <2>5. record \in Records /\ \A r \in Records : r \in Nat
    BY <1>4, SlotsAre
  <2>6. \A r \in Records : Then1(r) = IF r = record THEN Now(r) + 1 ELSE Now(r)
    <3>1. ASSUME NEW r \in Records PROVE Then1(r) = IF r = record THEN Now(r) + 1 ELSE Now(r)
      <4>1. r \in Nat /\ record \in Nat
        BY <2>5, <1>4
      <4>2. CASE r = record
        <5>1. Now(r) = 0 /\ Then1(r) = 1
          BY <1>4, <2>3, <2>4, <4>1, <4>2
        <5> QED
          BY <4>2, <5>1
      <4>3. CASE r # record
        <5>1. r < record <=> r < record + 1
          BY <4>1, <4>3
        <5> QED
          BY <2>3, <2>4, <4>3, <5>1
      <4> QED
        BY <4>2, <4>3
    <3> QED
      BY <3>1
  <2> HIDE DEF Now, Then1
  <2>7. counted' = [r \in Records |-> IF r = record THEN Now(r) + 1 ELSE Now(r)]
    BY <1>3, <2>1, <2>5
  <2> QED
    BY <2>6, <2>7
<1>5. CASE Through' = Through + 1 /\ Through \notin Used /\ waiting' = waiting
           /\ UNCHANGED <<output, result, second>>
  <2>1. UNCHANGED <<counted, index>>
    BY <1>5 DEF output, second
  <2>2. \A r \in Used : r < Through + 1 <=> r < Through
    <3> DEFINE n == Through
    <3>1. n \in Nat /\ n \notin Used /\ Used \subseteq Nat
      BY <1>1, <1>5, SlotsAre
    <3> HIDE DEF n
    <3>2. \A r \in Used : r < n + 1 <=> r < n
      BY <3>1
    <3> QED
      BY <3>2 DEF n
  <2>3. \A r : Then1(r) = Now(r)
    BY <1>5, <2>1, <2>2 DEF CountedOnce
  <2> HIDE DEF Now, Then1
  <2> QED
    BY <1>3, <2>1, <2>3
<1>6. CASE Through' = Through /\ waiting' = waiting /\ UNCHANGED <<index, counted>>
  <2>1. \A r : Then1(r) = Now(r)
    BY <1>6 DEF CountedOnce
  <2> HIDE DEF Now, Then1
  <2> QED
    BY <1>3, <1>6, <2>1
<1>7. CASE Through' = Through /\ waiting' = waiting /\ WaitingMove
  <2> DEFINE q == waiting[index + 1].record
  <2>1. pc \in AtWaiting /\ index' = index + 1 /\ counted' = [counted EXCEPT ![q] = @ + 1]
    BY <1>7 DEF WaitingMove, AtWaiting
  <2>2. /\ q \in Records /\ CountedAgain(RecordsOf(waiting), index, q) = 0
        /\ \A r : CountedAgain(RecordsOf(waiting), index + 1, r)
                    = IF r = q THEN 1 ELSE CountedAgain(RecordsOf(waiting), index, r)
    BY <1>1, <2>1, CountedAgainNext
  <2> HIDE DEF q
  <2>3. \A r : CountedOnce(r) \in Nat /\ Then1(r) = CountedOnce(r) + CountedAgain(RecordsOf(waiting), index + 1, r)
    BY <1>7, <2>1 DEF CountedOnce
  <2>4. \A r \in Records : Then1(r) = IF r = q THEN Now(r) + 1 ELSE Now(r)
    BY <2>2, <2>3
  <2> HIDE DEF Now, Then1
  <2>5. counted' = [r \in Records |-> IF r = q THEN Now(r) + 1 ELSE Now(r)]
    BY <1>3, <2>1, <2>2
  <2> QED
    BY <2>4, <2>5
<1>8. CASE Through' = Through /\ waiting' = waiting /\ EndSecondPass
  <2>1. UNCHANGED <<index, counted>>
    BY <1>8 DEF EndSecondPass, output, second
  <2> QED
    BY <1>6, <1>8, <2>1
<1> QED
  BY <1>4, <1>5, <1>6, <1>7, <1>8, ThroughMoves
----------------------------------------------------------------------------
(* Every step keeps the invariant: the entries. *)

\* The sequences the entries are told from.
SlotsOrNone == Nat \cup {None}

LEMMA EntriesTyped ==
  ASSUME NEW cs \in Seq(Nat), NEW waits, NEW kept, NEW ix, NEW k, NEW out, NEW es,
         FilledFor(es, cs, waits, kept, ix, k, out)
  PROVE  /\ es \in Seq(SlotsOrNone) /\ Len(es) = Len(cs) /\ DOMAIN es = 1..Len(cs)
         /\ \A i \in 1..Len(cs) : es[i] = EntryOf(cs, waits, ix, k, i)
<1>1. es = [i \in 1..Len(cs) |-> EntryOf(cs, waits, ix, k, i)] /\ Len(cs) \in Nat
  BY DEF FilledFor
<1>2. \A i \in 1..Len(cs) : EntryOf(cs, waits, ix, k, i) \in SlotsOrNone
  BY DEF EntryOf, SlotsOrNone
<1> HIDE DEF SlotsOrNone
<1>3. es \in [1..Len(cs) -> SlotsOrNone]
  BY <1>1, <1>2
<1>4. es \in Seq(SlotsOrNone) /\ Len(es) = Len(cs)
  BY <1>1, <1>3
<1> QED
  BY <1>1, <1>4

\* Its places are in its set.
LEMMA PlacesIn ==
  ASSUME NEW S, NEW T, S \subseteq T, NEW s \in Seq(S)
  PROVE  s \in Seq(T) /\ \A i \in 1..Len(s) : s[i] \in S
  OBVIOUS

LEMMA IsFunction ==
  ASSUME NEW S, NEW s \in Seq(S)
  PROVE  s = [i \in 1..Len(s) |-> s[i]]
  OBVIOUS

LEMMA AppendFacts ==
  ASSUME NEW S, NEW s \in Seq(S), NEW e \in S
  PROVE  /\ Append(s, e) \in Seq(S) /\ Len(s) \in Nat /\ Len(Append(s, e)) = Len(s) + 1
         /\ Append(s, e)[Len(s) + 1] = e
         /\ \A i \in 1..Len(s) : Append(s, e)[i] = s[i]
  OBVIOUS

\* An entry of a record that does not wait.
LEMMA EntryAdded ==
  ASSUME NEW cs \in Seq(Nat), NEW waits, NEW kept, NEW ix, NEW rs, NEW k \in Nat, NEW out,
         NEW es, NEW e \in Nat, e \notin waits, Len(rs) \in Nat, k <= Len(rs),
         PlacedFor(cs, waits, ix, rs), FilledFor(es, cs, waits, kept, ix, k, out)
  PROVE  /\ PlacedFor(Append(cs, e), waits, ix, rs)
         /\ FilledFor(Append(es, e), Append(cs, e), waits, kept, ix, k, out)
<1> DEFINE a == Append(cs, e)
           f == Append(es, e)
           n == Len(cs)
<1>1. /\ a \in Seq(Nat) /\ n \in Nat /\ Len(a) = n + 1 /\ a[n + 1] = e
      /\ \A i \in 1..n : a[i] = cs[i]
  BY AppendFacts
<1>2. /\ es \in Seq(SlotsOrNone) /\ Len(es) = n
      /\ \A i \in 1..n : es[i] = EntryOf(cs, waits, ix, k, i)
  BY EntriesTyped
<1>3. e \in SlotsOrNone
  BY DEF SlotsOrNone
<1>4. /\ f \in Seq(SlotsOrNone) /\ Len(f) = n + 1 /\ f[n + 1] = e
      /\ \A i \in 1..n : f[i] = es[i]
  <2> HIDE DEF SlotsOrNone
  <2> QED
    BY <1>2, <1>3, AppendFacts
<1>5. /\ ix \in Seq(1..n) /\ Len(ix) = Len(rs)
      /\ \A j \in 1..Len(rs) : cs[ix[j]] = rs[j]
      /\ \A i \in 1..n : cs[i] \in waits => \E j \in 1..Len(rs) : ix[j] = i
  BY DEF PlacedFor
<1> HIDE DEF a, f, n
<1>6. ix \in Seq(1..(n + 1)) /\ \A j \in 1..Len(rs) : ix[j] \in 1..n
  <2> DEFINE S == 1..n
             T == 1..(n + 1)
  <2>1. S \subseteq T /\ ix \in Seq(S) /\ Len(ix) = Len(rs)
    BY <1>1, <1>5
  <2> HIDE DEF S, T
  <2>2. ix \in Seq(T) /\ \A j \in 1..Len(rs) : ix[j] \in S
    BY <2>1, PlacesIn
  <2> QED
    BY <2>2 DEF S, T
<1>7. PlacedFor(a, waits, ix, rs)
  <2>1. ix \in Seq(1..Len(a))
    BY <1>1, <1>6
  <2>2. \A j \in 1..Len(rs) : a[ix[j]] = rs[j]
    BY <1>1, <1>5, <1>6
  <2>3. ASSUME NEW i \in 1..Len(a), a[i] \in waits PROVE \E j \in 1..Len(rs) : ix[j] = i
    <3>1. i \in 1..n
      BY <1>1, <2>3
    <3> QED
      BY <1>1, <1>5, <2>3, <3>1
  <2> QED
    BY <1>5, <2>1, <2>2, <2>3 DEF PlacedFor
<1>8. ~Filled(ix, k, n + 1)
  <2>1. \A j \in 1..k : j \in 1..Len(rs)
    OBVIOUS
  <2> QED
    BY <1>1, <1>6, <2>1 DEF Filled
<1>9. \A i \in 1..(n + 1) : f[i] = EntryOf(a, waits, ix, k, i)
  <2>1. \A i \in 1..n : EntryOf(a, waits, ix, k, i) = EntryOf(cs, waits, ix, k, i)
    BY <1>1 DEF EntryOf
  <2>2. EntryOf(a, waits, ix, k, n + 1) = e
    BY <1>1 DEF EntryOf
  <2>3. \A i \in 1..(n + 1) : i \in 1..n \/ i = n + 1
    BY <1>1
  <2> QED
    BY <1>2, <1>4, <2>1, <2>2, <2>3
<1>10. f = [i \in 1..(n + 1) |-> f[i]]
  <2> HIDE DEF SlotsOrNone
  <2> QED
    BY <1>1, <1>4
<1>11. f = [i \in 1..Len(a) |-> EntryOf(a, waits, ix, k, i)]
  BY <1>1, <1>9, <1>10
<1>12. out = {i \in 1..Len(a) : Filled(ix, k, i) /\ a[i] \notin kept}
  <2>1. out = {i \in 1..n : Filled(ix, k, i) /\ cs[i] \notin kept}
    BY DEF FilledFor, n
  <2>2. \A i : i \in 1..Len(a) /\ Filled(ix, k, i) <=> i \in 1..n /\ Filled(ix, k, i)
    BY <1>1, <1>8
  <2> QED
    BY <1>1, <2>1, <2>2
<1>13. FilledFor(f, a, waits, kept, ix, k, out)
  BY <1>11, <1>12 DEF FilledFor
<1> QED
  BY <1>7, <1>13 DEF a, f

\* The entry of a record that waits is filled in later.
LEMMA EntryLeft ==
  ASSUME NEW cs \in Seq(Nat), NEW waits, NEW kept, NEW ix, NEW rs \in Seq(Nat), NEW out, NEW es,
         NEW e \in Nat, e \in waits,
         PlacedFor(cs, waits, ix, rs), FilledFor(es, cs, waits, kept, ix, 0, out)
  PROVE  /\ PlacedFor(Append(cs, e), waits, Append(ix, Len(es) + 1), Append(rs, e))
         /\ FilledFor(Append(es, None), Append(cs, e), waits, kept, Append(ix, Len(es) + 1), 0,
                      out)
<1> DEFINE a == Append(cs, e)
           f == Append(es, None)
           n == Len(cs)
           m == Len(rs)
           x == Append(ix, Len(es) + 1)
           q == Append(rs, e)
<1>1. /\ a \in Seq(Nat) /\ n \in Nat /\ Len(a) = n + 1 /\ a[n + 1] = e
      /\ \A i \in 1..n : a[i] = cs[i]
  BY AppendFacts
<1>2. /\ es \in Seq(SlotsOrNone) /\ Len(es) = n
      /\ \A i \in 1..n : es[i] = EntryOf(cs, waits, ix, 0, i)
  BY EntriesTyped
<1>3. None \in SlotsOrNone
  BY DEF SlotsOrNone
<1>4. /\ f \in Seq(SlotsOrNone) /\ Len(f) = n + 1 /\ f[n + 1] = None
      /\ \A i \in 1..n : f[i] = es[i]
  <2> HIDE DEF SlotsOrNone
  <2> QED
    BY <1>2, <1>3, AppendFacts
<1>5. /\ ix \in Seq(1..n) /\ Len(ix) = m
      /\ \A j \in 1..m : cs[ix[j]] = rs[j]
      /\ \A i \in 1..n : cs[i] \in waits => \E j \in 1..m : ix[j] = i
  BY DEF PlacedFor
<1>6. /\ q \in Seq(Nat) /\ m \in Nat /\ Len(q) = m + 1 /\ q[m + 1] = e
      /\ \A j \in 1..m : q[j] = rs[j]
  BY AppendFacts
<1>7. /\ x \in Seq(1..(n + 1)) /\ Len(x) = m + 1 /\ x[m + 1] = n + 1
      /\ \A j \in 1..m : x[j] = ix[j] /\ ix[j] \in 1..n
  <2> DEFINE S == 1..n
             T == 1..(n + 1)
  <2>1. S \subseteq T /\ ix \in Seq(S) /\ Len(ix) = m
    BY <1>1, <1>5
  <2>2. n + 1 \in T /\ x = Append(ix, n + 1)
    BY <1>1, <1>2
  <2> HIDE DEF S, T, n, m, x
  <2>3. ix \in Seq(T) /\ \A j \in 1..m : ix[j] \in S
    BY <2>1, PlacesIn
  <2>4. x \in Seq(T) /\ Len(x) = Len(ix) + 1 /\ x[Len(ix) + 1] = n + 1
        /\ \A j \in 1..Len(ix) : x[j] = ix[j]
    BY <2>2, <2>3, AppendFacts
  <2> QED
    BY <2>1, <2>3, <2>4 DEF S, T
<1> HIDE DEF a, f, n, m, x, q
<1>8. PlacedFor(a, waits, x, q)
  <2>1. ASSUME NEW j \in 1..Len(q) PROVE a[x[j]] = q[j]
    <3>1. CASE j = m + 1
      BY <1>1, <1>6, <1>7, <3>1
    <3>2. CASE j \in 1..m
      <4>1. x[j] = ix[j] /\ ix[j] \in 1..n /\ cs[ix[j]] = rs[j] /\ q[j] = rs[j]
        BY <1>5, <1>6, <1>7, <3>2
      <4>2. a[ix[j]] = cs[ix[j]]
        BY <1>1, <4>1
      <4> QED
        BY <4>1, <4>2
    <3> QED
      BY <1>6, <3>1, <3>2
  <2>2. ASSUME NEW i \in 1..Len(a), a[i] \in waits PROVE \E j \in 1..Len(q) : x[j] = i
    <3>1. CASE i = n + 1
      <4>1. m + 1 \in 1..Len(q) /\ x[m + 1] = i
        BY <1>6, <1>7, <3>1
      <4> QED
        BY <4>1
    <3>2. CASE i \in 1..n
      <4>1. PICK j \in 1..m : ix[j] = i
        BY <1>1, <1>5, <2>2, <3>2
      <4>2. j \in 1..Len(q) /\ x[j] = i
        BY <1>6, <1>7, <4>1
      <4> QED
        BY <4>2
    <3> QED
      BY <1>1, <3>1, <3>2
  <2> QED
    BY <1>1, <1>6, <1>7, <2>1, <2>2 DEF PlacedFor
<1>9. \A y, i : ~Filled(y, 0, i)
  BY DEF Filled
<1>10. \A i \in 1..(n + 1) : f[i] = EntryOf(a, waits, x, 0, i)
  <2>1. \A i \in 1..n : EntryOf(a, waits, x, 0, i) = EntryOf(cs, waits, ix, 0, i)
    BY <1>1, <1>9 DEF EntryOf
  <2>2. EntryOf(a, waits, x, 0, n + 1) = None
    BY <1>1, <1>9 DEF EntryOf
  <2>3. \A i \in 1..(n + 1) : i \in 1..n \/ i = n + 1
    BY <1>1
  <2> QED
    BY <1>2, <1>4, <2>1, <2>2, <2>3
<1>11. f = [i \in 1..(n + 1) |-> f[i]]
  <2> HIDE DEF SlotsOrNone
  <2> QED
    BY <1>1, <1>4
<1>12. f = [i \in 1..Len(a) |-> EntryOf(a, waits, x, 0, i)]
  BY <1>1, <1>10, <1>11
<1>13. out = {i \in 1..Len(a) : Filled(x, 0, i) /\ a[i] \notin kept}
  BY <1>9 DEF FilledFor
<1>14. FilledFor(f, a, waits, kept, x, 0, out)
  BY <1>12, <1>13 DEF FilledFor
<1> QED
  BY <1>8, <1>14 DEF a, f, x, q

\* It is filled in when the record is parsed again.
LEMMA EntryFilled ==
  ASSUME NEW cs \in Seq(Nat), NEW waits, NEW kept, NEW ix, NEW rs, NEW k \in Nat, NEW out,
         NEW es, Len(rs) \in Nat, k < Len(rs),
         PlacedFor(cs, waits, ix, rs), FilledFor(es, cs, waits, kept, ix, k, out)
  PROVE  FilledFor([es EXCEPT ![ix[k + 1]] = rs[k + 1]], cs, waits, kept, ix, k + 1,
                   IF rs[k + 1] \in kept THEN out ELSE out \cup {ix[k + 1]})
<1> DEFINE n == Len(cs)
           p == ix[k + 1]
           f == [es EXCEPT ![p] = rs[k + 1]]
           o == IF rs[k + 1] \in kept THEN out ELSE out \cup {p}
<1>1. k + 1 \in 1..Len(rs) /\ n \in Nat
  OBVIOUS
<1>2. p \in 1..n /\ cs[p] = rs[k + 1]
  BY <1>1 DEF PlacedFor
<1>3. \A i : Filled(ix, k + 1, i) <=> (Filled(ix, k, i) \/ i = p)
  <2>1. 1..(k + 1) = 1..k \cup {k + 1}
    OBVIOUS
  <2> QED
    BY <2>1 DEF Filled
<1>4. es = [i \in 1..n |-> EntryOf(cs, waits, ix, k, i)]
      /\ out = {i \in 1..n : Filled(ix, k, i) /\ cs[i] \notin kept}
  BY DEF FilledFor
<1> HIDE DEF n, p
<1>5. f = [i \in 1..n |-> IF i = p THEN rs[k + 1] ELSE EntryOf(cs, waits, ix, k, i)]
  BY <1>4
<1>6. \A i \in 1..n : (IF i = p THEN rs[k + 1] ELSE EntryOf(cs, waits, ix, k, i))
                        = EntryOf(cs, waits, ix, k + 1, i)
  BY <1>2, <1>3 DEF EntryOf
<1>7. f = [i \in 1..n |-> EntryOf(cs, waits, ix, k + 1, i)]
  BY <1>5, <1>6
<1>8. o = {i \in 1..n : Filled(ix, k + 1, i) /\ cs[i] \notin kept}
  BY <1>2, <1>3, <1>4
<1> HIDE DEF f, o
<1>9. FilledFor(f, cs, waits, kept, ix, k + 1, o)
  BY <1>7, <1>8 DEF FilledFor, n
<1> QED
  BY <1>9 DEF f, o, p

\* Once all are, those that are not kept are dropped.
LEMMA EntriesDropped ==
  ASSUME NEW used \in SUBSET Nat, NEW waits \in SUBSET used, NEW kept \in SUBSET used,
         NEW t \in Nat, NEW ix, NEW rs, NEW out, NEW es, NEW cs,
         cs = ChosenOf(used, waits \cup kept, t),
         PlacedFor(cs, waits, ix, rs), FilledFor(es, cs, waits, kept, ix, Len(rs), out)
  PROVE  LeftOver(es, out) = ChosenOf(used, kept, t)
<1> DEFINE some == waits \cup kept
           n == Len(cs)
<1>1. some \in SUBSET used /\ kept \in SUBSET some
  OBVIOUS
<1>2. cs \in Seq(Nat) /\ \A i \in 1..n : cs[i] \in some
  BY <1>1, SeenTyped, ChosenElements
<1>3. es = [i \in 1..n |-> EntryOf(cs, waits, ix, Len(rs), i)]
      /\ out = {i \in 1..n : Filled(ix, Len(rs), i) /\ cs[i] \notin kept}
  BY DEF FilledFor
<1>4. \A i \in 1..n : cs[i] \in waits => Filled(ix, Len(rs), i)
  BY DEF PlacedFor, Filled
<1>5. \A i \in 1..n : EntryOf(cs, waits, ix, Len(rs), i) = cs[i]
  BY <1>4 DEF EntryOf
<1>6. es = [i \in 1..n |-> cs[i]] /\ cs = [i \in 1..n |-> cs[i]]
  <2>1. cs = [i \in 1..n |-> cs[i]]
    BY <1>2, IsFunction
  <2> DEFINE E(i) == EntryOf(cs, waits, ix, Len(rs), i)
  <2>2. es = [i \in 1..n |-> E(i)] /\ \A i \in 1..n : E(i) = cs[i]
    BY <1>3, <1>5
  <2> HIDE DEF E, n
  <2> QED
    BY <2>1, <2>2
<1>7. es = cs /\ DOMAIN es = 1..n
  BY <1>2, <1>6
<1>8. \A i \in DOMAIN es : i \in out <=> es[i] \notin kept
  BY <1>2, <1>3, <1>4, <1>7
<1>9. es = ChosenOf(used, some, t)
  BY <1>7
<1>10. kept \in SUBSET some
  BY <1>1
<1> HIDE DEF some, n
<1> QED
  BY <1>1, <1>8, <1>9, <1>10, DropsRight

\* The entry of one slot more.
LEMMA EntryOfSlot ==
  ASSUME NEW U \in SUBSET Nat, NEW W \in SUBSET U, NEW K \in SUBSET U, NEW r \in U,
         NEW ix, NEW rs, NEW es, NEW out, NEW ix2, NEW rs2, NEW es2,
         rs = ChosenOf(U, W, r),
         PlacedFor(ChosenOf(U, W \cup K, r), W, ix, rs),
         FilledFor(es, ChosenOf(U, W \cup K, r), W, K, ix, 0, out),
         rs2 = (IF r \in W THEN Append(rs, r) ELSE rs),
         ix2 = (IF r \in W THEN Append(ix, Len(es) + 1) ELSE ix),
         es2 = (IF r \in W THEN Append(es, None) ELSE IF r \in K THEN Append(es, r) ELSE es)
  PROVE  /\ PlacedFor(ChosenOf(U, W \cup K, r + 1), W, ix2, rs2)
         /\ FilledFor(es2, ChosenOf(U, W \cup K, r + 1), W, K, ix2, 0, out)
<1> DEFINE A == W \cup K
           cs == ChosenOf(U, A, r)
           ds == ChosenOf(U, A, r + 1)
<1>1. r \in Nat /\ A \in SUBSET U
  OBVIOUS
<1>2. r \in A <=> r \in W \/ r \in K
  OBVIOUS
<1>3. PlacedFor(cs, W, ix, rs) /\ FilledFor(es, cs, W, K, ix, 0, out)
  OBVIOUS
<1> HIDE DEF A
<1>4. ds = IF r \in A THEN Append(cs, r) ELSE cs
  BY <1>1, ChosenNext
<1>5. cs \in Seq(Nat) /\ rs \in Seq(Nat)
  BY <1>1, SeenTyped
<1>6. Len(rs) \in Nat /\ 0 <= Len(rs)
  BY <1>5
<1> HIDE DEF cs, ds
<1>7. CASE r \in W
  BY <1>1, <1>2, <1>3, <1>4, <1>5, <1>7, EntryLeft DEF ds, A
<1>8. CASE r \notin W /\ r \in K
  <2>1. /\ PlacedFor(Append(cs, r), W, ix, rs)
        /\ FilledFor(Append(es, r), Append(cs, r), W, K, ix, 0, out)
    BY <1>1, <1>3, <1>5, <1>6, <1>8, EntryAdded
  <2> QED
    BY <1>2, <1>4, <1>8, <2>1 DEF ds, A
<1>9. CASE r \notin W /\ r \notin K
  BY <1>2, <1>3, <1>4, <1>9 DEF ds, A
<1> QED
  BY <1>7, <1>8, <1>9

LEMMA EntriesStays ==
  ASSUME IInv, Steps
  PROVE  EntriesInv'
<1>1. HeldInv /\ MediumInv /\ WaitingInv /\ EntriesInv /\ Through \in Nat
  BY WhereItIs DEF IInv
<1>2. Used' = Used /\ WaitSet' = WaitSet /\ KeptSet' = KeptSet
  BY MediumStays, SameVolume
<1> DEFINE U == Used
           W == WaitSet
           K == KeptSet
           t == Through
           u == Through'
           rs == RecordsOf(waiting)
           ss == RecordsOf(waiting')
           Late == pc \in {"destroy", "gone"}
           Later == pc' \in {"destroy", "gone"}
           C(n) == ChosenOf(U, W \cup K, n)
<1>3. U \in SUBSET Nat /\ W \in SUBSET U /\ K \in SUBSET U /\ t \in Nat
  BY <1>1, VolumeTyped
<1>4. /\ rs = ChosenOf(U, W, t)
      /\ PlacedFor(C(t), W, entry_index, rs)
      /\ ~Late => FilledFor(entries, C(t), W, K, entry_index, index, dropped)
      /\ Late => entries = ChosenOf(U, K, t)
  BY <1>1 DEF WaitingInv, EntriesInv, Cands
<1> SUFFICES /\ PlacedFor(C(u), W, entry_index', ss)
             /\ ~Later => FilledFor(entries', C(u), W, K, entry_index', index', dropped')
             /\ Later => entries' = ChosenOf(U, K, u)
  <2>1. RecordsOf(waiting)' = ss
    BY DEF RecordsOf
  <2>2. Cands' = C(u)
    BY <1>2 DEF Cands
  <2> QED
    BY <1>2, <2>1, <2>2 DEF EntriesInv
<1>5. CASE SlotMove /\ record \in Used /\ record \in Nat /\ t = record /\ u = record + 1
  <2>1. ~Late /\ ~Later /\ index = 0 /\ index' = 0 /\ dropped' = dropped
    BY <1>1, <1>5 DEF SlotMove, WaitingInv, second, FirstPcs, AtSlot
  <2>2. ss = IF record \in W THEN Append(rs, record) ELSE rs
    BY <1>1, <1>5, SlotMoveWaits
  <2>3. /\ entry_index' = IF record \in W THEN Append(entry_index, Len(entries) + 1)
                          ELSE entry_index
        /\ entries' = IF record \in W THEN Append(entries, None)
                      ELSE IF record \in K THEN Append(entries, record) ELSE entries
    BY <1>5 DEF SlotMove
  <2>4. /\ rs = ChosenOf(U, W, record) /\ PlacedFor(C(record), W, entry_index, rs)
        /\ FilledFor(entries, C(record), W, K, entry_index, 0, dropped) /\ record \in U
    BY <1>4, <1>5, <2>1
  <2> HIDE DEF U, W, K, rs, ss
  <2>5. /\ PlacedFor(C(record + 1), W, entry_index', ss)
        /\ FilledFor(entries', C(record + 1), W, K, entry_index', 0, dropped)
    BY <1>3, <2>2, <2>3, <2>4, EntryOfSlot
  <2> QED
    BY <1>5, <2>1, <2>5
<1>6. CASE NextSlot /\ pc' = "next" /\ u = t + 1 /\ t \notin Used /\ waiting' = waiting
           /\ UNCHANGED <<output, result, second>>
  <2>1. ~Late /\ ~Later /\ UNCHANGED <<entries, entry_index, dropped, index>> /\ ss = rs
    BY <1>6 DEF NextSlot, result, second
  <2>2. t \notin U
    BY <1>6
  <2>3. u = t + 1
    BY <1>6
  <2> HIDE DEF U, W, K, t, u, rs, ss
  <2>4. C(t + 1) = C(t)
    BY <1>3, <2>2, ChosenNext
  <2> QED
    BY <1>4, <2>1, <2>3, <2>4
<1>7. CASE u = t /\ waiting' = waiting /\ WaitingMove
  <2> DEFINE q == waiting[index + 1].record
  <2>1. /\ ~Late /\ ~Later /\ pc \in AtWaiting /\ entry_index' = entry_index
        /\ entries' = [entries EXCEPT ![entry_index[index + 1]] = q]
        /\ dropped' = IF IsKept(q) THEN dropped ELSE dropped \cup {entry_index[index + 1]}
        /\ index' = index + 1
    BY <1>7 DEF WaitingMove, AtWaiting
  <2>2. rs[index + 1] = q /\ q \in W
    BY <1>1, <2>1, CountedAgainNext
  <2>3. IsKept(q) <=> q \in K
    BY <1>1, <1>3, <2>2, KindIs
  <2>4. index \in Nat /\ index < Len(waiting) /\ Len(waiting) \in Nat
    BY <1>1, <2>1, HeldFacts DEF HeldInv, WaitingInv
  <2>5. Len(rs) = Len(waiting) /\ ss = rs
    BY <1>1, <1>7, HeldFacts DEF HeldInv, RecordsOf
  <2> DEFINE cs == C(t)
             k == index
             es == entries
             ix == entry_index
             out == dropped
  <2>a. /\ PlacedFor(cs, W, ix, rs) /\ FilledFor(es, cs, W, K, ix, k, out)
        /\ k \in Nat /\ Len(rs) \in Nat /\ k < Len(rs)
    BY <1>4, <2>1, <2>4, <2>5
  <2>c. cs \in Seq(Nat)
    <3> HIDE DEF U, W, K, t
    <3> QED
      BY <1>3, SeenTyped
  <2> HIDE DEF q, U, W, K, t, u, rs, ss, cs, k, es, ix, out
  <2>b. FilledFor([es EXCEPT ![ix[k + 1]] = rs[k + 1]], cs, W, K, ix, k + 1,
                  IF rs[k + 1] \in K THEN out ELSE out \cup {ix[k + 1]})
    BY <2>a, <2>c, EntryFilled
  <2>6. FilledFor([entries EXCEPT ![entry_index[index + 1]] = rs[index + 1]], C(t), W, K,
                  entry_index, index + 1,
                  IF rs[index + 1] \in K THEN dropped ELSE dropped \cup {entry_index[index + 1]})
    BY <2>b DEF cs, k, es, ix, out
  <2> QED
    BY <1>4, <1>7, <2>1, <2>2, <2>3, <2>5, <2>6
<1>8. CASE u = t /\ waiting' = waiting /\ EndSecondPass
  <2>1. /\ ~Late /\ Later /\ pc = "end_second" /\ entry_index' = entry_index /\ ss = rs
        /\ entries' = LeftOver(entries, dropped)
    BY <1>8 DEF EndSecondPass, LeftOver, Stays
  <2>2. index = Len(rs)
    <3>1. index = Len(waiting)
      BY <1>1, <2>1 DEF WaitingInv
    <3> QED
      BY <1>1, <3>1, HeldFacts DEF HeldInv, RecordsOf
  <2> HIDE DEF U, W, K, t, u, rs, ss
  <2>3. LeftOver(entries, dropped) = ChosenOf(U, K, t)
    BY <1>3, <1>4, <2>1, <2>2, EntriesDropped
  <2> QED
    BY <1>4, <1>8, <2>1, <2>3
<1>9. CASE u = t /\ waiting' = waiting /\ UNCHANGED <<index, counted, result>> /\ ~EndSecondPass
  <2>1. UNCHANGED <<entries, entry_index, dropped, index>> /\ ss = rs
    BY <1>9 DEF result
  <2>2. Later <=> Late
    BY <1>9 DEF Steps, WorkMove, NextSlot, BeginWindow, TakeRefused, SlotMove, LeaveLoop,
                EndFirstPass, NextWaiting, BeginBatch, WaitingRefused, WaitingMove,
                LeaveSecondPass, Destroy, vars
  <2> HIDE DEF U, W, K, t, u, rs, ss, Late, Later
  <2> QED
    BY <1>4, <1>9, <2>1, <2>2
<1> QED
  BY <1>5, <1>6, <1>7, <1>8, <1>9, ThroughMoves
----------------------------------------------------------------------------
(* Every step keeps the invariant: the lines logged. *)

LEMMA FlattenTyped ==
  ASSUME NEW S, NEW ss \in Seq(Seq(S))
  PROVE  FlattenSeq(ss) \in Seq(S)
<1> DEFINE n == Len(ss)
<1>1. n \in Nat /\ \A i \in 1..n : ss[i] \in Seq(S)
  OBVIOUS
<1>2. CASE n = 0
  <2>1. ss = <<>>
    BY <1>2
  <2>2. FlattenSeq(<<>>) = <<>>
    BY DEF FlattenSeq
  <2>3. <<>> \in Seq(S)
    OBVIOUS
  <2>4. FlattenSeq(ss) = <<>>
    BY <2>1, <2>2
  <2> QED
    BY <2>3, <2>4
<1>3. CASE n # 0
  <2>1. PICK F : Flattened(F, ss, n) /\ FlattenSeq(ss) = F[n]
    BY <1>1, <1>3, FlattenIsFlattened
  <2> DEFINE Wrong == {i \in 1..n : F[i] \notin Seq(S)}
  <2> HIDE DEF n
  <2> SUFFICES ASSUME Wrong # {} PROVE FALSE
    BY <1>1, <1>3, <2>1
  <2>2. PICK d \in Wrong : \A i \in Wrong : d <= i
    <3>1. Wrong \subseteq Nat
      BY <1>1
    <3> QED
      BY <3>1, LeastNatural
  <2>3. (d = 1 => F[d] = ss[d]) /\ (d # 1 => F[d] = F[d - 1] \o ss[d])
    BY <1>1, <2>1, FlattenedStep
  <2>4. ss[d] \in Seq(S) /\ F[d] \notin Seq(S)
    BY <1>1
  <2>5. d # 1
    BY <2>3, <2>4
  <2>6. d - 1 \in 1..n /\ d - 1 \notin Wrong
    BY <1>1, <2>2, <2>5
  <2> DEFINE a == F[d - 1]
             b == ss[d]
  <2>7. a \in Seq(S) /\ b \in Seq(S) /\ F[d] = a \o b
    BY <2>3, <2>4, <2>5, <2>6
  <2> HIDE DEF a, b
  <2>8. a \o b \in Seq(S)
    BY <2>7
  <2> QED
    BY <2>4, <2>7, <2>8
<1> QED
  BY <1>2, <1>3

LEMMA LogTyped ==
  ASSUME NEW ps \in Seq(Parses)
  PROVE  LogOfParses(ps) \in Seq(Lines)
<1> DEFINE ls == [i \in DOMAIN ps |-> LinesOf(ps, i)]
           T == Lines
<1>1. DOMAIN ps = 1..Len(ps) /\ Len(ps) \in Nat
  OBVIOUS
<1>2. \A i \in 1..Len(ps) : LinesOf(ps, i) \in Seq(T)
  BY <1>1, LinesOfTyped
<1> HIDE DEF T
<1>3. ls \in [1..Len(ps) -> Seq(T)]
  BY <1>1, <1>2
<1> HIDE DEF ls
<1>4. ls \in Seq(Seq(T))
  BY <1>1, <1>3
<1>5. FlattenSeq(ls) \in Seq(T)
  BY <1>4, FlattenTyped
<1> QED
  BY <1>5 DEF LogOfParses, ls, T

LEMMA JoinThree ==
  ASSUME NEW a \in Seq(Lines), NEW b \in Seq(Lines), NEW c \in Seq(Lines)
  PROVE  (a \o b) \o c = a \o (b \o c)
<1> DEFINE T == Lines
<1> HIDE DEF T
<1>1. a \in Seq(T) /\ b \in Seq(T) /\ c \in Seq(T)
  BY DEF T
<1> QED
  BY <1>1

\* The lines of one parse more, after the window it could not read.
LEMMA LinesOfParse ==
  ASSUME NEW ps \in Seq(Parses), NEW e \in Parses
  PROVE  ((LogOfParses(ps) \o LineIf("load", e.load)) \o LineIf("release", DueOf(ps)))
           \o Line(e.what, e.record) = LogOfParses(Append(ps, e))
<1> DEFINE g == LogOfParses(ps)
           l == LineIf("load", e.load)
           d == LineIf("release", DueOf(ps))
           p == Line(e.what, e.record)
<1>1. g \in Seq(Lines)
  BY LogTyped
<1>2. e.load \in Nat \cup {None} /\ e.record \in Nat /\ e.what \in {"parse", "reparse"}
  BY DEF Parses
<1>3. l \in Seq(Lines) /\ p \in Seq(Lines)
  BY <1>2, LineIfTyped, LineTyped
<1>4. d \in Seq(Lines)
  BY DueTyped, LineIfTyped
<1>5. LogOfParses(Append(ps, e)) = g \o ((l \o d) \o p)
  BY LogNext DEF NextLines
<1> HIDE DEF g, l, d, p
<1> DEFINE x == l \o d
<1>6. (g \o l) \o d = g \o x
  BY <1>1, <1>3, <1>4, JoinThree
<1>7. x \in Seq(Lines)
  BY <1>3, <1>4, JoinTwo
<1> HIDE DEF x
<1>8. (g \o x) \o p = g \o (x \o p)
  BY <1>1, <1>3, <1>7, JoinThree
<1> QED
  BY <1>5, <1>6, <1>8 DEF g, l, d, p, x

LEMMA FoundTyped ==
  ASSUME MediumInv
  PROVE  Found \in [Used -> Parses] /\ \A r \in Used : Found[r] = FirstParse(r)
<1>1. ASSUME NEW r \in Used PROVE FirstParse(r) \in Parses
  <2>1. r \in Nat
    BY SlotsAre
  <2>2. WindowFor(plan, r).first \in Nat
    BY <2>1, WindowForRight DEF MediumInv, Ranges
  <2>3. ParsesAttrs(r) \in BOOLEAN
    BY DEF ParsesAttrs, HasList
  <2> DEFINE l == IF FailsFirst(r) THEN WindowFor(plan, r).first ELSE None
             a == ParsesAttrs(r)
  <2>4. l \in Nat \cup {None} /\ a \in BOOLEAN
    BY <2>2, <2>3
  <2>5. FirstParse(r) = [what |-> "parse", record |-> r, attrs |-> a, load |-> l]
    BY DEF FirstParse
  <2> HIDE DEF l, a
  <2> QED
    BY <2>1, <2>4, <2>5 DEF Parses
<1> HIDE DEF Parses
<1> QED
  BY <1>1 DEF Found

\* The parses so far, after a step.
LEMMA ParsesFollow ==
  ASSUME IInv, Steps
  PROVE  /\ ParsesSoFar' = ParsesOf(Used, WaitSet, Found, Through', index')
         /\ record' = record => FirstParse(record)' = FirstParse(record)
         /\ Through' = Through /\ index' = index => ParsesSoFar' = ParsesSoFar
<1>1. UNCHANGED medium
  BY MediumStays
<1>2. Used' = Used /\ WaitSet' = WaitSet /\ Found' = Found /\ UNCHANGED <<layout, plan, failing>>
  BY <1>1, SameVolume
<1>3. ParsesSoFar' = ParsesOf(Used, WaitSet, Found, Through', index')
  BY <1>2 DEF ParsesSoFar
<1>4. ASSUME record' = record PROVE FirstParse(record)' = FirstParse(record)
  BY <1>2, <1>4 DEF FirstParse, FailsFirst, ParsesAttrs, Waits, ReadInWindow, HasList, Kind
<1> QED
  BY <1>3, <1>4 DEF ParsesSoFar

LEMMA SlotMoveSinks ==
  ASSUME IInv, SlotMove, record \in Used, record \in Nat, Through = record,
         Through' = record + 1, Steps
  PROVE  SinksInv'
<1>1. MediumInv /\ SinksInv /\ WaitingInv
  BY DEF IInv
<1> DEFINE ps == ParsesSoFar
           qs == ParsesSoFar'
           e == FirstParse(record)
           due == Due
           log == sinks
           U == Used
           W == WaitSet
           F == Found
           n == record
<1>2. index = 0 /\ index' = 0
  BY <1>1 DEF SlotMove, WaitingInv, second, FirstPcs, AtSlot
<1>3. ps = ParsesOf(U, W, F, n, 0) /\ qs = ParsesOf(U, W, F, n + 1, 0)
  BY <1>2, ParsesFollow DEF ParsesSoFar
<1>4. F \in [U -> Parses] /\ F[n] = e /\ n \in U /\ n \in Nat /\ U \in SUBSET Nat
  BY <1>1, FoundTyped, VolumeTyped
<1>5. ps \in Seq(Parses) /\ qs = Append(ps, e) /\ e \in Parses
  <2> HIDE DEF ps, qs, e, U, W, F, n, Parses
  <2>1. ParsesOf(U, W, F, n, 0) \in Seq(Parses)
        /\ ParsesOf(U, W, F, n + 1, 0) = Append(ParsesOf(U, W, F, n, 0), F[n])
    BY <1>4, ParsesFirst
  <2>2. F[n] \in Parses
    BY <1>4
  <2> QED
    BY <1>3, <1>4, <2>1, <2>2
<1>6. log = LogOfParses(ps) \o LineIf("load", e.load) /\ due = DueOf(ps)
  BY <1>1 DEF SinksInv, SlotMove
<1>7. /\ sinks' = (log \o LineIf("release", due)) \o Line("parse", record)
      /\ Due' = IF ParsesAttrs(record) THEN record ELSE None
      /\ pc' = "next"
  BY DEF SlotMove
<1>8. e.what = "parse" /\ e.record = record /\ e.attrs = ParsesAttrs(record)
  BY DEF FirstParse
<1> HIDE DEF ps, qs, e, due, log, U, W, F, n
<1>9. sinks' = LogOfParses(qs)
  BY <1>5, <1>6, <1>7, <1>8, LinesOfParse
<1>10. Due' = DueOf(qs)
  BY <1>5, <1>7, <1>8, LogNext
<1>11. qs \in Seq(Parses)
  <2> HIDE DEF Parses
  <2> QED
    BY <1>5
<1>12. sinks' \in Seq(Lines)
  BY <1>9, <1>11, LogTyped
<1> QED
  BY <1>7, <1>9, <1>10, <1>12 DEF SinksInv, AtWaiting, qs

LEMMA WaitingMoveSinks ==
  ASSUME IInv, Steps, WaitingMove, Through' = Through
  PROVE  SinksInv'
<1>1. HeldInv /\ MediumInv /\ SinksInv /\ WaitingInv /\ Through \in Nat
  BY WhereItIs DEF IInv
<1> DEFINE ps == ParsesSoFar
           qs == ParsesSoFar'
           r == waiting[index + 1].record
           e == SecondParse(r)
           log == sinks \o ClearLines
           U == Used
           W == WaitSet
           F == Found
           n == Through
           k == index
           c == ChosenOf(U, W, n)
<1>2. pc \in AtWaiting /\ index' = k + 1
  BY DEF WaitingMove, AtWaiting
<1>3. ps = ParsesOf(U, W, F, n, k) /\ qs = ParsesOf(U, W, F, n, k + 1)
  BY <1>2, ParsesFollow DEF ParsesSoFar
<1>4. F \in [U -> Parses] /\ U \in SUBSET Nat
  BY <1>1, FoundTyped, VolumeTyped
<1>5. c[k + 1] = r /\ k \in Nat /\ k < Len(c)
  <2>1. RecordsOf(waiting)[k + 1] = r /\ RecordsOf(waiting) = c
    BY <1>1, <1>2, CountedAgainNext DEF WaitingInv
  <2>2. Len(RecordsOf(waiting)) = Len(waiting)
    BY <1>1, HeldFacts DEF HeldInv, RecordsOf
  <2> QED
    BY <1>1, <1>2, <2>1, <2>2 DEF WaitingInv
<1>6. /\ log = LogOfParses(ps) \o LineIf("release", DueOf(ps))
      /\ sinks' = log \o Line("reparse", r) /\ Due' = r /\ pc' = "second"
  BY <1>1, <1>2 DEF SinksInv, WaitingMove
<1>7. e.what = "reparse" /\ e.record = r /\ e.attrs = TRUE /\ e.load = None
  BY DEF SecondParse
<1> HIDE DEF ps, qs, r, log, U, W, F, n, k
<1>8. ps \in Seq(Parses) /\ qs = Append(ps, e) /\ e \in Parses
  <2> HIDE DEF Parses, c, e
  <2>1. k < Len(ChosenOf(U, W, n)) /\ SecondParse(ChosenOf(U, W, n)[k + 1]) = e /\ n \in Nat
    BY <1>1, <1>5 DEF c, e, n
  <2> QED
    BY <1>3, <1>4, <1>5, <2>1, ParsesSecond
<1> HIDE DEF e, c
<1>9. LogOfParses(ps) \o LineIf("load", e.load) = LogOfParses(ps)
  <2> DEFINE g == LogOfParses(ps)
  <2>1. g \in Seq(Lines)
    BY <1>8, LogTyped
  <2> HIDE DEF g
  <2>2. g \o <<>> = g
    BY <2>1, JoinTwo
  <2> QED
    BY <1>7, <2>2 DEF LineIf, g
<1>10. sinks' = LogOfParses(qs)
  BY <1>6, <1>7, <1>8, <1>9, LinesOfParse
<1>11. Due' = DueOf(qs)
  BY <1>6, <1>7, <1>8, LogNext
<1>12. qs \in Seq(Parses)
  <2> HIDE DEF Parses
  <2> QED
    BY <1>8
<1>13. sinks' \in Seq(Lines)
  BY <1>10, <1>12, LogTyped
<1> QED
  BY <1>6, <1>10, <1>11, <1>13 DEF SinksInv, AtWaiting, qs

\* Where nothing is logged.
SimplePcs == {"next", "window", "end_first", "second", "end_second", "destroy"}

LEMMA SinksKept ==
  ASSUME SinksInv, UNCHANGED <<sinks, pending_release, attributes>>, ParsesSoFar' = ParsesSoFar,
         FirstParse(record)' = FirstParse(record) \/ pc' \notin {"here", "take"},
         \/ pc \in SimplePcs /\ pc' \in SimplePcs
         \/ pc \in {"here", "take"} /\ pc' \in {"here", "take"}
         \/ pc \in AtWaiting /\ pc' \in AtWaiting
         \/ pc = "gone" /\ pc' = "gone"
  PROVE  SinksInv'
<1>1. Due' = Due /\ ClearLines' = ClearLines
  BY DEF Due, ClearLines
<1> QED
  BY <1>1 DEF SinksInv, SimplePcs, AtWaiting

\* A slot that is parsed at once lies in the window held.
LEMMA NoLoadHeld ==
  ASSUME HeldInv, MediumInv, WindowsInv, NEW r \in Used, In(r, window)
  PROVE  ~FailsFirst(r)
<1>1. r \in Records
  BY SlotsAre
<1>2. WindowFor(plan, r) = window /\ window.first \notin failing
  BY <1>1 DEF WindowsInv, WindowRight
<1> QED
  BY <1>2 DEF FailsFirst

LEMMA NextSlotSinks ==
  ASSUME IInv, Steps, NextSlot
  PROVE  SinksInv'
<1> DEFINE r == Held!Position
<1>1. HeldInv /\ MediumInv /\ WindowsInv /\ PoolInv /\ SinksInv /\ Through \in Nat
  BY WhereItIs DEF IInv
<1>2. /\ record' = r /\ r \in Records /\ waiting' = waiting
      /\ IsFree(r) => pc' = "next"
      /\ ~IsFree(r) => r \in Used
  <2>1. /\ record' = r /\ record' \in Records /\ waiting' = waiting
        /\ (IsFree(record') => pc' = "next")
        /\ (~IsFree(record') => record' \in Used)
    BY <1>1, NextSlotCalls
  <2> QED
    BY <2>1
<1>3. /\ pc = "next" /\ UNCHANGED <<sinks, pending_release, attributes, index>>
      /\ UNCHANGED medium
      /\ pc' = IF IsFree(r) THEN "next"
               ELSE IF r < serial_until THEN "here"
               ELSE IF Covers(r) THEN "take" ELSE "window"
  BY DEF NextSlot, output, second, still
<1>4. ParsesSoFar' = ParsesSoFar
  <2> DEFINE ps == ParsesSoFar
             U == Used
             W == WaitSet
             F == Found
             n == Through
             k == index
  <2>1. ps = ParsesOf(U, W, F, n, k) /\ ParsesSoFar' = ParsesOf(U, W, F, Through', k)
    BY <1>3, ParsesFollow DEF ParsesSoFar
  <2>2. k = 0
    BY <1>1, <1>3 DEF IInv, WaitingInv, FirstPcs
  <2>3. Through' = n \/ (Through' = n + 1 /\ n \notin U)
    BY <1>3, ThroughMoves DEF SlotMove
  <2>4. F \in [U -> Parses] /\ U \in SUBSET Nat /\ n \in Nat
    BY <1>1, FoundTyped, VolumeTyped
  <2> HIDE DEF ps, U, W, F, n, k, Parses
  <2>5. n \notin U => ParsesOf(U, W, F, n + 1, 0) = ParsesOf(U, W, F, n, 0)
    BY <2>4, ParsesFirst
  <2> QED
    BY <2>1, <2>2, <2>3, <2>5 DEF ps
<1>5. CASE pc' \in {"next", "window"}
  BY <1>1, <1>3, <1>4, <1>5, SinksKept DEF SimplePcs
<1>6. CASE pc' \in {"here", "take"}
  <2>1. r \in Used /\ r \in Nat
    BY <1>2, <1>3, <1>6, SlotsAre
  <2>2. In(r, window)
    <3>1. CASE r < serial_until
      BY <1>1, <1>2, <1>3, <2>1, <3>1 DEF WindowsInv, SerialRight, FirstPcs
    <3>2. CASE Covers(r)
      <4>1. batch.active /\ In(r, batch)
        BY <3>2 DEF Covers
      <4>2. batch.parser = "window"
        <5>1. batch.parser \in Parsers
          BY <1>1, BatchSizes DEF PoolInv
        <5>2. pc \notin SecondPcs
          BY <1>3 DEF SecondPcs, AtWaiting
        <5> QED
          BY <1>1, <5>1, <5>2 DEF PoolInv, Parsers
      <4>3. window = [first |-> batch.first, last |-> batch.last]
        BY <1>1, <4>1, <4>2 DEF PoolInv, Live
      <4> QED
        BY <4>1, <4>3 DEF In
    <3> QED
      BY <1>3, <1>6, <3>1, <3>2
  <2>3. FirstParse(record)'.load = None
    <3>1. ~FailsFirst(r)
      BY <1>1, <2>1, <2>2, NoLoadHeld
    <3>2. Used' = Used /\ UNCHANGED <<plan, failing>>
      BY <1>3, SameVolume
    <3>3. ~FailsFirst(record)'
      BY <1>2, <3>1, <3>2 DEF FailsFirst
    <3> QED
      BY <3>3 DEF FirstParse
  <2> DEFINE g == LogOfParses(ParsesSoFar)
             l == FirstParse(record)'.load
  <2>4. sinks = g /\ Due = DueOf(ParsesSoFar) /\ sinks \in Seq(Lines)
    BY <1>1, <1>3 DEF SinksInv
  <2>5. g \o LineIf("load", l) = g
    <3>1. LineIf("load", l) = <<>>
      BY <2>3 DEF LineIf
    <3> HIDE DEF g, l
    <3>2. g \o <<>> = g
      BY <2>4, JoinTwo
    <3> QED
      BY <3>1, <3>2
  <2>6. Due' = Due
    BY <1>3 DEF Due
  <2>7. sinks' = LogOfParses(ParsesSoFar') \o LineIf("load", l) /\ Due' = DueOf(ParsesSoFar')
        /\ sinks' \in Seq(Lines)
    BY <1>3, <1>4, <2>4, <2>5, <2>6
  <2> QED
    BY <1>6, <2>7 DEF SinksInv, AtWaiting
<1> QED
  BY <1>3, <1>5, <1>6

LEMMA SinksStays ==
  ASSUME IInv, Steps
  PROVE  SinksInv'
<1>1. /\ HeldInv /\ MediumInv /\ WindowsInv /\ PoolInv /\ LogsInv /\ PendingInv /\ SinksInv
      /\ WaitingInv
  BY DEF IInv
<1>2. /\ record' = record => FirstParse(record)' = FirstParse(record)
      /\ Through' = Through /\ index' = index => ParsesSoFar' = ParsesSoFar
  BY ParsesFollow
<1>3. CASE SlotMove
  <2>1. record \in Used /\ record \in Nat /\ Through = record /\ Through' = record + 1
    <3>1. pc \in AtSlot /\ pc' = "next" /\ record' = record
      BY <1>3 DEF SlotMove, AtSlot
    <3>2. record \in Used /\ record \in Nat /\ record # None /\ Through = record
      BY <1>1, <3>1, WhereItIs, Sizes DEF Through
    <3>3. Through' = Held!Position' /\ Held!Position' = record + 1
      BY <3>1, <3>2 DEF Through, AtSlot, Held!Position
    <3> QED
      BY <3>2, <3>3
  <2> QED
    BY <1>3, <2>1, SlotMoveSinks
<1>4. CASE NextSlot
  BY <1>4, NextSlotSinks
<1>5. CASE WaitingMove
  <2>1. Through' = Through
    BY <1>5 DEF WaitingMove, held, Through, AtSlot, Held!Position
  <2> QED
    BY <1>5, <2>1, WaitingMoveSinks
<1>6. CASE WorkMove \/ BeginWindow \/ TakeRefused \/ LeaveLoop \/ NextWaiting \/ BeginBatch
           \/ WaitingRefused \/ LeaveSecondPass \/ EndSecondPass \/ Destroy \/ UNCHANGED vars
           \/ EndFirstPass
  <2>1. record' = record
    <3>1. CASE EndFirstPass
      BY <1>1, <3>1, EndFirstPassCalls
    <3> QED
      BY <1>6, <3>1 DEF WorkMove, BeginWindow, TakeRefused, LeaveLoop, NextWaiting, BeginBatch,
                WaitingRefused, LeaveSecondPass, EndSecondPass, Destroy, vars, held
  <2>2. index' = index /\ (pc' \in AtSlot <=> pc \in AtSlot)
    BY <1>6 DEF WorkMove, BeginWindow, TakeRefused, LeaveLoop, NextWaiting, BeginBatch, EndFirstPass,
                WaitingRefused, LeaveSecondPass, EndSecondPass, Destroy, vars, second, AtSlot
  <2>3. Through' = Through
    BY <2>1, <2>2 DEF Through, Held!Position
  <2>4. FirstParse(record)' = FirstParse(record) /\ ParsesSoFar' = ParsesSoFar
    BY <1>2, <2>1, <2>2, <2>3
  <2>5. CASE WorkMove \/ TakeRefused \/ LeaveLoop \/ EndFirstPass \/ BeginBatch
             \/ WaitingRefused \/ LeaveSecondPass \/ EndSecondPass \/ UNCHANGED vars
    <3>1. UNCHANGED <<sinks, pending_release, attributes>>
      BY <2>5 DEF WorkMove, TakeRefused, LeaveLoop, EndFirstPass, BeginBatch,
                  WaitingRefused, LeaveSecondPass, EndSecondPass, vars, output
    <3>2. pc \in FirstPcs \cup SecondPcs
      BY <1>1 DEF HeldInv
    <3>3. \/ pc \in SimplePcs /\ pc' \in SimplePcs
          \/ pc \in {"here", "take"} /\ pc' \in {"here", "take"}
          \/ pc \in AtWaiting /\ pc' \in AtWaiting
          \/ pc = "gone" /\ pc' = "gone"
      BY <2>5, <3>2 DEF WorkMove, TakeRefused, LeaveLoop, EndFirstPass, BeginBatch,
                  WaitingRefused, LeaveSecondPass, EndSecondPass, vars, SimplePcs, AtWaiting,
                  FirstPcs, SecondPcs, AtSlot
    <3> QED
      BY <1>1, <2>4, <3>1, <3>3, SinksKept
  <2>6. CASE BeginWindow
    <3>1. /\ sinks' = sinks \o LoadLines(record) /\ pc = "window" /\ pc' \in {"here", "take"}
          /\ UNCHANGED <<pending_release, attributes>>
      BY <2>6 DEF BeginWindow
    <3>2. LoadLines(record) = LineIf("load", FirstParse(record).load)
      BY <1>1, <2>6, BeginWindowServes
    <3>3. sinks = LogOfParses(ParsesSoFar) /\ Due = DueOf(ParsesSoFar) /\ sinks \in Seq(Lines)
      BY <1>1, <3>1 DEF SinksInv
    <3>4. record \in Used
      BY <1>1, <3>1, WhereItIs DEF AtSlot
    <3>5. FirstParse(record).load \in Nat \cup {None}
      <4>1. FirstParse(record) \in Parses
        BY <1>1, <3>4, FoundTyped
      <4> QED
        BY <4>1 DEF Parses
    <3>6. sinks' \in Seq(Lines)
      <4> DEFINE x == LineIf("load", FirstParse(record).load)
      <4>1. x \in Seq(Lines)
        BY <3>5, LineIfTyped
      <4> HIDE DEF x
      <4>2. sinks \o x \in Seq(Lines)
        BY <3>3, <4>1, JoinTwo
      <4> QED
        BY <3>1, <3>2, <4>2 DEF x
    <3>7. Due' = Due
      BY <3>1 DEF Due
    <3>8. /\ sinks' = LogOfParses(ParsesSoFar') \o LineIf("load", FirstParse(record)'.load)
          /\ Due' = DueOf(ParsesSoFar')
      BY <2>4, <3>1, <3>2, <3>3, <3>7
    <3> QED
      BY <3>1, <3>6, <3>8 DEF SinksInv, AtWaiting
  <2>7. CASE NextWaiting
    <3>1. pc = "second" /\ pc' \in AtWaiting /\ sinks' = sinks \o PendingLines
          /\ attributes' = attributes
      BY <2>7 DEF NextWaiting, AtWaiting
    <3>2. ClearLines' = ClearLines
      BY <3>1 DEF ClearLines
    <3> DEFINE p == PendingLines
               c == ClearLines
    <3>3. p \in Seq(Lines) /\ c \in Seq(Lines) /\ p \o c = LineIf("release", Due)
      BY <1>1, DueLines
    <3>4. sinks = LogOfParses(ParsesSoFar) /\ Due = DueOf(ParsesSoFar) /\ sinks \in Seq(Lines)
      BY <1>1, <3>1 DEF SinksInv
    <3>5. sinks' = sinks \o p /\ ClearLines' = c
      BY <3>1, <3>2
    <3> HIDE DEF p, c
    <3>6. (sinks \o p) \o c = sinks \o (p \o c) /\ sinks \o p \in Seq(Lines)
      <4>1. (sinks \o p) \o c = sinks \o (p \o c)
        BY <3>3, <3>4, JoinThree
      <4>2. sinks \o p \in Seq(Lines)
        BY <3>3, <3>4, JoinTwo
      <4> QED
        BY <4>1, <4>2
    <3>7. sinks' \o ClearLines' = LogOfParses(ParsesSoFar') \o LineIf("release", DueOf(ParsesSoFar'))
          /\ sinks' \in Seq(Lines)
      BY <2>4, <3>3, <3>4, <3>5, <3>6
    <3>8. pc' \notin SimplePcs \cup {"here", "take", "gone"}
      BY <3>1 DEF AtWaiting, SimplePcs
    <3> QED
      BY <3>7, <3>8 DEF SinksInv, SimplePcs
  <2>8. CASE Destroy
    <3> DEFINE again == pending_release # None
                          /\ (pending_release.parser = "waiting" \/ HeldSlot(pending_release.slot))
               last == IF again THEN pending_release.slot ELSE attributes
    <3>1. pc = "destroy" /\ pc' = "gone"
          /\ sinks' = sinks \o IF last = None THEN <<>> ELSE Line("destroy", last)
      BY <2>8 DEF Destroy
    <3>2. again <=> pending_release # None
      <4>1. pending_release # None => pending_release.parser \in Parsers
        BY <1>1, LeftTyped
      <4> QED
        BY <1>1, <3>1, <4>1 DEF PendingInv, HeldSlot, Parsers
    <3>3. last = Due
      BY <3>2 DEF Due
    <3>4. sinks' = sinks \o LineIf("destroy", Due)
      BY <3>1, <3>3 DEF LineIf
    <3>5. sinks = LogOfParses(ParsesSoFar) /\ Due = DueOf(ParsesSoFar) /\ sinks \in Seq(Lines)
      BY <1>1, <3>1 DEF SinksInv
    <3> DEFINE x == LineIf("destroy", Due)
    <3>6. x \in Seq(Lines)
      BY <1>1, DueLines, LineIfTyped
    <3> HIDE DEF x, last
    <3>7. sinks \o x \in Seq(Lines)
      BY <3>5, <3>6, JoinTwo
    <3>8. sinks' = LogOfParses(ParsesSoFar') \o LineIf("destroy", DueOf(ParsesSoFar'))
          /\ sinks' \in Seq(Lines)
      BY <2>4, <3>4, <3>5, <3>7 DEF x
    <3> QED
      BY <3>1, <3>8 DEF SinksInv, AtWaiting
  <2> QED
    BY <1>6, <2>5, <2>6, <2>7, <2>8
<1> QED
  BY <1>3, <1>4, <1>5, <1>6 DEF Steps
----------------------------------------------------------------------------
(* The initial states, and the steps together. *)

LEMMA HeldBegins ==
  ASSUME Held!Init
  PROVE  HP!IInv
<1>1. HP!Init
  BY DEF Held!Init, HP!Init, Held!Slots, HP!Slots, Held!Records, HP!Records, Held!Bases, HP!Bases
<1>2. RecordCount \in Nat /\ Budget \in Nat /\ None \notin Nat
  BY ScanAssumption
<1> QED
  BY <1>1, <1>2, HP!InitHolds

LEMMA PoolBegins ==
  ASSUME Init
  PROVE  PoolInv /\ LogsInv
<1>1. /\ pc = "next" /\ batch = [parser |-> "window", active |-> FALSE, first |-> 0, last |-> 0]
      /\ next_chunk = 0 /\ done = {} /\ job = [t \in Threads |-> None]
      /\ log_set = [p \in Parsers |-> 0]
      /\ logs = [p \in Parsers |-> [s \in 0..1 |-> [c \in 0..(RecordCount - 1) |-> <<>>]]]
      /\ outcomes = [p \in Parsers |-> [i \in 0..(RecordCount - 1) |-> NoOutcome]]
  BY DEF Init
<1>2. batch \in Batches /\ batch.parser = "window" /\ batch.first = 0 /\ batch.last = 0
      /\ batch.active = FALSE
  BY <1>1 DEF Batches, Parsers
<1>3. SizeOf(batch) \in Nat \ {0} /\ PlacesOf(batch) = 0
  BY <1>2, Sizes DEF SizeOf, PlacesOf
<1>4. CountOf(batch) = 0
  <2>1. ChunksOf(0, SizeOf(batch)) \in Nat /\ ChunksOf(0, SizeOf(batch)) <= 0
    <3> HIDE DEF SizeOf
    <3> QED
      BY <1>3, ChunksRight
  <2> QED
    BY <1>3, <2>1 DEF CountOf
<1>5. PoolShape(batch, next_chunk, done, job)
  BY <1>1, <1>2, <1>4, Sizes DEF PoolShape, BatchOK
<1>6. ~Live(batch, next_chunk, job)
  BY <1>1, <1>2, <1>4 DEF Live, Running
<1>7. PoolInv
  BY <1>1, <1>2, <1>5, <1>6 DEF PoolInv
<1>8. log_set \in [Parsers -> 0..1]
  BY <1>1
<1>9. logs \in [Parsers -> [0..1 -> [Records -> Seq(Lines)]]]
  <2> DEFINE T == Seq(Lines)
  <2>1. <<>> \in T /\ Records = 0..(RecordCount - 1)
    BY NothingTyped DEF Records, Held!Records
  <2> HIDE DEF T
  <2>2. [c \in 0..(RecordCount - 1) |-> <<>>] \in [Records -> T]
    BY <2>1
  <2> QED
    BY <1>1, <2>2 DEF T
<1>10. outcomes \in [Parsers -> [Records -> Outcomes]]
  <2>1. NoOutcome \in Outcomes /\ Records = 0..(RecordCount - 1)
    BY DEF NoOutcome, Outcomes, Records, Held!Records
  <2> HIDE DEF Outcomes, NoOutcome
  <2> QED
    BY <1>1, <2>1
<1>11. PlacesRight(batch, next_chunk, done, job, layout, waiting, outcomes[batch.parser],
                   logs[batch.parser][log_set[batch.parser]])
  BY <1>1 DEF PlacesRight
<1> QED
  BY <1>7, <1>8, <1>9, <1>10, <1>11 DEF LogsInv

LEMMA InitHolds == Init => IInv
<1> SUFFICES ASSUME Init PROVE IInv
  OBVIOUS
<1>1. /\ Held!Init /\ pc = "next" /\ record = None /\ waiting = <<>> /\ ended = FALSE /\ fresh = FALSE
      /\ layout \in Layouts /\ plan = PlanSlotRanges
      /\ serial_until = 0 /\ window = NoRange /\ failed = NoRange
  BY DEF Init, Held!Init
<1>2. pc \notin AtSlot \cup AtWaiting \cup {"here", "take", "destroy", "gone", "end_second"}
      /\ pc \in FirstPcs /\ pc \notin SecondPcs
  BY <1>1 DEF FirstPcs, SecondPcs, AtSlot, AtWaiting
<1>3. HeldInv
  <2>1. HP!IInv
    BY <1>1, HeldBegins
  <2>2. ended = (pc \in SecondPcs)
    <3>1. (pc \in SecondPcs) = FALSE
      BY <1>2
    <3>2. ended = FALSE
      BY <1>1
    <3> QED
      BY <3>1, <3>2, Zenon
  <2>3. pc \in FirstPcs \cup SecondPcs /\ pc \notin AtSlot
    BY <1>2
  <2> QED
    BY <2>1, <2>2, <2>3 DEF HeldInv
<1>4. MediumInv
  <2>1. layout \in [Records -> Slot]
    BY <1>1, ScanAssumption
  <2> QED
    BY <1>1, <2>1, PlanServesUsed DEF MediumInv
<1>5. Through = 0 /\ Held!Position = 0
  <2>1. Held!Position = 0
    BY <1>1 DEF Held!Position
  <2> QED
    BY <1>2, <2>1 DEF Through
<1>6. WindowsInv
  <2>1. NoRange \in Ranges /\ NoRange.last <= RecordCount /\ \A x \in Records : ~In(x, NoRange)
    BY Sizes, SlotsAre DEF NoRange, Ranges, In
  <2>2. WindowRight(window, plan, failing) /\ FailedRight(failed, plan, failing)
    BY <1>1, <2>1 DEF WindowRight, FailedRight
  <2>3. \A u \in Used : ~Looked(u)
    BY <1>2, <1>5, SlotsAre DEF Looked
  <2>4. FailedWasLooked /\ FailedBehind
    BY <1>1, <2>3 DEF FailedWasLooked, FailedBehind
  <2>5. SerialRight
    BY <1>1, <1>2, SlotsAre DEF SerialRight, AtSlot
  <2> QED
    BY <1>1, <1>2, <2>2, <2>4, <2>5 DEF WindowsInv
<1>7. PoolInv /\ LogsInv
  BY PoolBegins
<1>8. PendingInv
  BY DEF Init, PendingInv
<1>9. /\ entries = <<>> /\ entry_index = <<>> /\ dropped = {} /\ index = 0 /\ sinks = <<>>
      /\ pending_release = None /\ attributes = None /\ counted = [r \in Records |-> 0]
  BY DEF Init
<1> DEFINE U == Used
           W == WaitSet
           K == KeptSet
           F == Found
<1>10. U \in SUBSET Nat /\ W \in SUBSET U /\ K \in SUBSET U /\ W \cup K \in SUBSET U
       /\ F \in [U -> Parses]
  BY <1>4, VolumeTyped, FoundTyped
<1>11. /\ ChosenOf(U, W, 0) = <<>> /\ ChosenOf(U, W \cup K, 0) = <<>>
       /\ ParsesOf(U, W, F, 0, 0) = <<>>
  <2> DEFINE A == W \cup K
  <2>1. A \in SUBSET U
    BY <1>10
  <2> HIDE DEF U, W, K, F, A, Parses
  <2>2. 0 \in Nat
    OBVIOUS
  <2>3. ChosenOf(U, W, 0) = <<>>
    BY <1>10, <2>2, ChosenNext
  <2>4. ChosenOf(U, A, 0) = <<>>
    BY <1>10, <2>1, <2>2, ChosenNext
  <2>5. ParsesOf(U, W, F, 0, 0) = <<>>
    BY <1>10, <2>2, ParsesFirst
  <2> QED
    BY <2>3, <2>4, <2>5 DEF A
<1>12. SinksInv
  <2>1. ParsesSoFar = <<>> /\ Due = None
    BY <1>5, <1>9, <1>11 DEF ParsesSoFar, Due
  <2>2. sinks = LogOfParses(ParsesSoFar) /\ Due = DueOf(ParsesSoFar)
    BY <1>9, <2>1, LogNone
  <2> QED
    BY <1>1, <1>2, <1>9, <2>2, NothingTyped DEF SinksInv
<1>13. RecordsOf(waiting) = <<>> /\ Len(waiting) = 0
  BY <1>1 DEF RecordsOf
<1>14. WaitingInv
  BY <1>2, <1>5, <1>9, <1>11, <1>13 DEF WaitingInv
<1>15. CountedInv
  <2>1. \A r \in Records : CountedOnce(r) = 0
    BY <1>5, SlotsAre DEF CountedOnce
  <2>2. \A r : CountedAgain(RecordsOf(waiting), 0, r) = 0
    BY DEF CountedAgain
  <2>3. \A r \in Records : CountedOnce(r) + CountedAgain(RecordsOf(waiting), index, r) = 0
    BY <1>9, <2>1, <2>2
  <2> QED
    BY <1>9, <2>3 DEF CountedInv
<1>16. EntriesInv
  <2>1. Cands = <<>>
    BY <1>5, <1>11 DEF Cands
  <2>2. PlacedFor(<<>>, WaitSet, <<>>, <<>>)
    BY DEF PlacedFor
  <2>3. FilledFor(<<>>, <<>>, WaitSet, KeptSet, <<>>, 0, {})
    BY DEF FilledFor
  <2> QED
    BY <1>2, <1>9, <1>13, <2>1, <2>2, <2>3 DEF EntriesInv
<1> QED
  BY <1>3, <1>4, <1>6, <1>7, <1>8, <1>12, <1>14, <1>15, <1>16 DEF IInv

LEMMA NextHolds == IInv /\ [Next]_vars => IInv'
<1> SUFFICES ASSUME IInv, [Next]_vars PROVE IInv'
  OBVIOUS
<1>1. Steps
  BY StepsAre
<1>2. MediumInv'
  BY <1>1, MediumStays, SameVolume DEF IInv
<1>3. HeldInv' /\ WindowsInv' /\ PoolInv' /\ LogsInv'
  BY <1>1, HeldStays, WindowsStay, PoolStays, LogsStay
<1>4. PendingInv' /\ SinksInv' /\ WaitingInv' /\ CountedInv' /\ EntriesInv'
  BY <1>1, PendingStays, SinksStays, WaitingStays, CountedStays, EntriesStays
<1> QED
  BY <1>2, <1>3, <1>4 DEF IInv

\* The scanner, the batch the pool parses and what one thread would have parsed
\* by now agree after every step of Mft::SlotScan and of the pool's threads.
THEOREM Invariance == Spec => []IInv
  BY InitHolds, NextHolds, PTL DEF Spec

\* SlotReader::LoadWindow() never takes the buffer, and SlotParser::Start() never
\* the batch, from under a thread that still parses in it.
THEOREM BytesStay == Spec => BytesStandStill
<1>1. ASSUME IInv, [Next]_vars,
             window' # window \/ buffer' # buffer \/ batch'.first # batch.first
             \/ batch'.parser # batch.parser
      PROVE  Quiet
  <2>1. Steps
    BY <1>1, StepsAre
  <2>2. CASE BeginWindow \/ BeginBatch
    BY <2>2 DEF BeginWindow, BeginBatch, EndReturns, Ended
  <2>3. CASE ~(BeginWindow \/ BeginBatch)
    <3>1. UNCHANGED <<window, buffer>>
      BY <2>1, <2>3 DEF Steps, WorkMove, NextSlot, TakeRefused, SlotMove, LeaveLoop, EndFirstPass,
                        NextWaiting, WaitingRefused, WaitingMove, LeaveSecondPass, EndSecondPass,
                        Destroy, vars, reader
    <3>2. UNCHANGED pool \/ DropUnstarted \/ \E t \in Threads : TakeChunk(t) \/ ParseOne(t)
      BY <2>1, <2>3 DEF Steps, WorkMove, NextSlot, TakeRefused, SlotMove, LeaveLoop, EndFirstPass,
                        NextWaiting, WaitingRefused, WaitingMove, LeaveSecondPass, EndSecondPass,
                        Destroy, vars, pool
    <3>3. batch'.first = batch.first /\ batch'.parser = batch.parser
      <4>1. ASSUME DropUnstarted PROVE batch'.first = batch.first /\ batch'.parser = batch.parser
        <5>1. batch' = [batch EXCEPT !.active = FALSE]
          BY <4>1 DEF DropUnstarted
        <5>2. batch = [parser |-> batch.parser, active |-> batch.active,
                       first |-> batch.first, last |-> batch.last]
          BY <1>1, BatchSizes DEF IInv, PoolInv
        <5> QED
          BY <5>1, <5>2
      <4> QED
        BY <3>2, <4>1 DEF pool, TakeChunk, ParseOne
    <3> QED
      BY <1>1, <3>1, <3>3
  <2> QED
    BY <2>2, <2>3
<1>2. IInv /\ [Next]_vars =>
        [(window' # window \/ buffer' # buffer \/ batch'.first # batch.first
          \/ batch'.parser # batch.parser) => Quiet]_vars
  BY <1>1
<1> QED
  BY <1>2, Invariance, PTL DEF Spec, BytesStandStill

\* The two passes call HeldRecords, the volume's loaded-record keeper, the way it
\* asks to be called: the scan's specification implements that of HeldRecords.
THEOREM CallsAsAsked == Spec => UsesHeldRecords
<1>1. Init => Held!Init
  BY DEF Init
<1>2. IInv /\ [Next]_vars => [Held!Next]_Held!vars
  BY StepsAre, HeldStays, CallIsStep
<1> QED
  BY <1>1, <1>2, Invariance, PTL DEF Spec, Held!Spec, UsesHeldRecords
----------------------------------------------------------------------------
(* What the scan leaves is what one thread does. *)

LEMMA InOrder ==
  ASSUME MediumInv
  PROVE  /\ SeenInOrder = SeenOf(Used, Held!Position)
         /\ WaitingInOrder = ChosenOf(Used, WaitSet, Held!Position)
         /\ Select(SeenInOrder, {r \in Used : IsKept(r)}) = ChosenOf(Used, KeptSet, Held!Position)
<1>1. SeenInOrder = SeenOf(Used, Held!Position)
  BY DEF SeenInOrder, SeenOf, Up
<1> QED
  BY <1>1 DEF WaitingInOrder, ChosenOf, WaitSet, KeptSet

LEMMA OneThreadIs ==
  ASSUME HeldInv, MediumInv
  PROVE  LET waits == ChosenOf(Used, WaitSet, Held!Position)
         IN  /\ Len(waits) \in Nat
             /\ OneThreadParses = ParsesOf(Used, WaitSet, Found, Held!Position, Len(waits))
<1> DEFINE n == Held!Position
           U == Used
           W == WaitSet
           F == Found
           q == SeenOf(U, n)
           c == ChosenOf(U, W, n)
<1>1. n \in Nat /\ U \in SUBSET Nat /\ W \in SUBSET U
  BY WhereItIs, VolumeTyped
<1>2. /\ q \in Seq(Nat) /\ c \in Seq(Nat) /\ \A i \in 1..Len(q) : q[i] \in U
  <2> HIDE DEF n, U, W
  <2> QED
    BY <1>1, SeenTyped
<1>3. SeenInOrder = q /\ WaitingInOrder = c
  BY InOrder
<1>4. \A r \in U : F[r] = FirstParse(r)
  BY FoundTyped
<1> HIDE DEF n, U, W, F, q, c
<1>5. DOMAIN q = 1..Len(q) /\ DOMAIN c = 1..Len(c) /\ Len(c) \in Nat
  BY <1>2
<1>6. [i \in DOMAIN q |-> FirstParse(q[i])] = Mapped(F, q)
  BY <1>2, <1>4, <1>5 DEF Mapped
<1>7. OneThreadParses = Mapped(F, q) \o [i \in 1..Len(c) |-> SecondParse(c[i])]
  BY <1>3, <1>5, <1>6 DEF OneThreadParses
<1>8. ParsesOf(U, W, F, n, Len(c)) = Mapped(F, q) \o [i \in 1..Len(c) |-> SecondParse(c[i])]
  BY DEF ParsesOf, q, c
<1> QED
  BY <1>5, <1>7, <1>8 DEF n, U, W, F, c

\* The parses of one thread, whatever the number of waiting records among them.
LEMMA ParsesTyped ==
  ASSUME NEW used \in SUBSET Nat, NEW waits, NEW found \in [used -> Parses], NEW p \in Nat
  PROVE  ParsesOf(used, waits, found, p, Len(ChosenOf(used, waits, p))) \in Seq(Parses)
<1> DEFINE c == ChosenOf(used, waits, p)
           m == Mapped(found, SeenOf(used, p))
           s == [i \in 1..Len(c) |-> SecondParse(c[i])]
<1>1. c \in Seq(Nat)
  BY SeenTyped
<1>2. m \in Seq(Parses)
  BY MappedTyped
<1> HIDE DEF c, m
<1>3. \A i \in 1..Len(c) : SecondParse(c[i]) \in Parses
  <2>1. \A i \in 1..Len(c) : c[i] \in Nat
    BY <1>1
  <2> QED
    BY <2>1 DEF SecondParse, Parses
<1> HIDE DEF Parses
<1>4. s \in Seq(Parses)
  BY <1>1, <1>3
<1> HIDE DEF s
<1>5. m \o s \in Seq(Parses)
  BY <1>2, <1>4
<1> QED
  BY <1>5 DEF ParsesOf, c, m, s

\* The attributes of the last parse are dropped at the end.
LEMMA LastLine ==
  ASSUME NEW ps \in Seq(Parses)
  PROVE  LineIf("destroy", DueOf(ps))
           = IF ps = <<>> THEN <<>> ELSE AttrLines("destroy", ps[Len(ps)])
<1>1. CASE ps = <<>>
  BY <1>1 DEF DueOf, LineIf
<1>2. CASE ps # <<>>
  <2>1. ps[Len(ps)] \in Parses
    BY <1>2
  <2> DEFINE e == ps[Len(ps)]
  <2>2. e.record \in Nat /\ e.record # None
    BY <2>1, Sizes DEF Parses
  <2>3. DueOf(ps) = IF ~e.attrs THEN None ELSE e.record
    BY <1>2 DEF DueOf
  <2> HIDE DEF e
  <2>4. LineIf("destroy", DueOf(ps)) = AttrLines("destroy", e)
    BY <2>2, <2>3 DEF LineIf, AttrLines
  <2> QED
    BY <1>2, <2>4 DEF e
<1> QED
  BY <1>1, <1>2

LEMMA LogIsSame ==
  ASSUME IInv
  PROVE  SameLog
<1> SUFFICES ASSUME pc = "gone" PROVE sinks = OneThreadLog
  BY DEF SameLog
<1>1. HeldInv /\ MediumInv /\ SinksInv /\ WaitingInv
  BY DEF IInv
<1>2. Through = Held!Position /\ Through \in Nat
  BY <1>1, WhereItIs DEF AtSlot
<1>3. index = Len(ChosenOf(Used, WaitSet, Through))
  <2>1. index = Len(waiting) /\ RecordsOf(waiting) = ChosenOf(Used, WaitSet, Through)
    BY <1>1 DEF WaitingInv
  <2>2. Len(RecordsOf(waiting)) = Len(waiting)
    BY <1>1, HeldFacts DEF HeldInv, RecordsOf
  <2> QED
    BY <2>1, <2>2
<1> DEFINE ps == ParsesSoFar
<1>4. OneThreadParses = ps
  BY <1>1, <1>2, <1>3, OneThreadIs DEF ParsesSoFar
<1>5. ps \in Seq(Parses)
  <2> DEFINE U == Used
             W == WaitSet
             F == Found
             n == Through
  <2>1. U \in SUBSET Nat /\ F \in [U -> Parses] /\ n \in Nat
    BY <1>1, <1>2, VolumeTyped, FoundTyped
  <2>2. ps = ParsesOf(U, W, F, n, Len(ChosenOf(U, W, n)))
    BY <1>3 DEF ParsesSoFar
  <2> HIDE DEF U, W, F, n, ps
  <2> QED
    BY <2>1, <2>2, ParsesTyped
<1>6. sinks = LogOfParses(ps) \o LineIf("destroy", DueOf(ps))
  BY <1>1 DEF SinksInv
<1> HIDE DEF ps
<1> QED
  BY <1>4, <1>5, <1>6, LastLine DEF OneThreadLog

LEMMA ResultIsSame ==
  ASSUME IInv
  PROVE  SameResult
<1> SUFFICES ASSUME pc = "gone"
             PROVE  /\ entries = Select(SeenInOrder, {r \in Used : IsKept(r)})
                    /\ counted = [r \in Records |-> IF r \notin Seen THEN 0
                                                    ELSE IF Waits(r) THEN 2 ELSE 1]
  BY DEF SameResult
<1>1. HeldInv /\ MediumInv /\ WaitingInv /\ CountedInv /\ EntriesInv
  BY DEF IInv
<1>2. Through = Held!Position /\ Through \in Nat
  BY <1>1, WhereItIs DEF AtSlot
<1>3. entries = Select(SeenInOrder, {r \in Used : IsKept(r)})
  BY <1>1, <1>2, InOrder DEF EntriesInv
<1> DEFINE rs == RecordsOf(waiting)
           U == Used
           W == WaitSet
           n == Through
<1>4. rs = ChosenOf(U, W, n) /\ index = Len(rs)
  BY <1>1, HeldFacts DEF WaitingInv, HeldInv, RecordsOf
<1>5. n \in Nat /\ U \in SUBSET Nat /\ W \in SUBSET U
  BY <1>2, VolumeTyped
<1> HIDE DEF rs, U, W, n
<1>6. /\ \A i \in 1..Len(rs) : rs[i] \in W /\ rs[i] < n
      /\ \A r \in W : r < n => \E i \in 1..Len(rs) : rs[i] = r
  BY <1>4, <1>5, ChosenElements
<1>7. \A r : CountedAgain(rs, index, r) = IF r \in W /\ r < n THEN 1 ELSE 0
  BY <1>4, <1>6 DEF CountedAgain
<1>8. \A r : r \in W <=> r \in U /\ Waits(r)
  BY DEF W, U, WaitSet
<1>9. \A r : r \in Seen <=> r \in U /\ r < n
  BY <1>2 DEF Seen, U, n
<1>10. \A r \in Records : CountedOnce(r) + CountedAgain(rs, index, r)
                            = IF r \notin Seen THEN 0 ELSE IF Waits(r) THEN 2 ELSE 1
  <2>1. \A r : CountedOnce(r) = IF r \in Seen THEN 1 ELSE 0
    BY <1>9 DEF CountedOnce, U, n
  <2> QED
    BY <1>7, <1>8, <1>9, <2>1
<1>11. counted = [r \in Records |-> CountedOnce(r) + CountedAgain(rs, index, r)]
  BY <1>1 DEF CountedInv, rs
<1>12. counted = [r \in Records |-> IF r \notin Seen THEN 0 ELSE IF Waits(r) THEN 2 ELSE 1]
  BY <1>10, <1>11
<1> QED
  BY <1>3, <1>12

\* However its threads interleave, and whichever windows could not be read,
\* Mft::SlotScan leaves the lines, the entries and the counters that one thread
\* parsing slot after slot leaves.
THEOREM ScansAsOneThread == Spec => []SameScan
<1>1. IInv => SameScan
  BY LeftLineStands, LogIsSame, ResultIsSame DEF IInv, SameScan
<1> QED
  BY <1>1, Invariance, PTL
=============================================================================
