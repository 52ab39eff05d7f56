------------------------------ MODULE SlotReads ------------------------------
(***************************************************************************)
(* What a scan of $MFT tells the disk reader ahead of its reads: SlotReader*)
(* (src/mft/slot-reader.cpp) announces the windows of the first pass, and  *)
(* ReadAnnouncer (src/mft/waiting-reads.cpp) the reads of the second.      *)
(*                                                                         *)
(* s is the state of both with the queue of the reader: the ranges that    *)
(* were announced and that no read has used or passed. A range is          *)
(* [first, last) in slots of $MFT, or the list of a record.                *)
(***************************************************************************)
EXTENDS Integers, Sequences, FiniteSets, SequencesExt, FiniteSetsExt

CONSTANTS
  None,                 \* no slot, no base, no record
  FirstMapped,          \* Idx::User: a window serves no slot below it
  ClusterSlots,         \* slots in one cluster
  WindowSlots,          \* slots in one window, a multiple of ClusterSlots
  MaxAnnouncedWindows,  \* max_announced_windows
  MaxAnnouncedSlots,    \* max_announced_bytes, in slots
  MaxAnnouncedRecords,  \* max_announced_records of the second pass
  MaxAnnouncedRanges,   \* max_announced_ranges of the second pass
  RestartInterval,      \* announce_restart_interval
  MaxPreread,           \* max_preread_extensions
  MaxRun,               \* max_run_slots
  Lookahead             \* match_lookahead: the ranges a read is looked for in

NoRange == [first |-> 0, last |-> 0]
In(r, range) == range.first <= r /\ r < range.last

SlotRange(first, last) == [kind |-> "slots", first |-> first, last |-> last]
ListRange(r) == [kind |-> "list", first |-> r, last |-> r]

\* The members of SlotReader, those of ReadAnnouncer, and the reader's queue.
\* missed is history: the reads that nothing at the front of the queue serves.
NewReads ==
  [announced |-> <<>>, slots |-> 0, next_range |-> 1, next_slot |-> 0, any |-> FALSE,
   ranges |-> <<>>, passed |-> 0, passed_with_reads |-> 0, next |-> 0,
   ahead_records |-> 0, ahead_ranges |-> 0, cancelled |-> FALSE,
   queue |-> <<>>, missed |-> {}]

\* step of the state s, which is computed once.
Then(s, step(_)) == CHOOSE t \in {step(u) : u \in {s}} : TRUE

\* The hints and the reads, as the disk reader takes them: a read is served by
\* one of the first ranges, and drops those before it.
Hint(s, range) == [s EXCEPT !.queue = Append(@, range)]
CancelPrefetch(s) == [s EXCEPT !.queue = <<>>]

ReadRange(s, range) ==
  LET held == {i \in 1..Min({Lookahead, Len(s.queue)}) : s.queue[i] = range}
  IN  IF held = {} THEN [s EXCEPT !.missed = @ \cup {range}]
      ELSE [s EXCEPT !.queue = SubSeq(@, Min(held) + 1, Len(@))]

ReadAll(s, ranges) ==
  FoldLeft(LAMBDA t, range : Then(t, LAMBDA u : ReadRange(u, range)), s, ranges)

----------------------------------------------------------------------------
(* SlotReader: the windows of a plan. *)

\* Where the window of range that begins at start ends.
WindowEnd(range, start) ==
  IF range.last - start <= WindowSlots THEN range.last ELSE start + WindowSlots

\* WindowOf(): the windows of a range follow each other from the cluster of its
\* first mapped slot.
WindowOf(range, r) ==
  LET first == Max({range.first, FirstMapped})
      base == first - (first % ClusterSlots)
      start == base + ((r - base) \div WindowSlots) * WindowSlots
  IN  [first |-> Max({start, first}),
       last |-> WindowEnd(range, start)]

\* The range of the plan slot r lies in, 0 when it lies in none.
RangeOf(plan, r) ==
  LET at == {i \in DOMAIN plan : In(r, plan[i])} IN IF at = {} THEN 0 ELSE Min(at)

\* The window that serves slot r, or NoRange.
WindowFor(plan, r) ==
  IF r < FirstMapped \/ RangeOf(plan, r) = 0 THEN NoRange
  ELSE WindowOf(plan[RangeOf(plan, r)], r)

\* NextWindow(): the window that follows those announced, in the first range
\* with slots left, and where the one after it is looked for.
NextStart(s, plan, i) ==
  Max({IF i = s.next_range THEN s.next_slot ELSE 0, plan[i].first, FirstMapped})

RangesLeft(s, plan) ==
  {i \in s.next_range..Len(plan) : NextStart(s, plan, i) < plan[i].last}

NextWindow(s, plan) ==
  LET i == Min(RangesLeft(s, plan)) IN WindowOf(plan[i], NextStart(s, plan, i))

PastNext(s, plan) ==
  IF RangesLeft(s, plan) = {}
  THEN [s EXCEPT !.next_range = Len(plan) + 1, !.next_slot = 0]
  ELSE [s EXCEPT !.next_range = Min(RangesLeft(s, plan)),
                 !.next_slot = NextWindow(s, plan).last]

AnnounceWindow(s, plan) ==
  LET w == NextWindow(s, plan)
  IN  [Hint(PastNext(s, plan), SlotRange(w.first, w.last)) EXCEPT !.any = TRUE]

\* The windows up to this one are read now, or were passed over.
SlotsOf(windows) == FoldLeft(LAMBDA sum, w : sum + w.last - w.first, 0, windows)

DropPassed(s, window) ==
  LET Passed(w) == w.first <= window.first
      Ahead(w) == ~Passed(w)
  IN  [s EXCEPT !.announced = SelectSeq(@, Ahead),
                !.slots = @ - SlotsOf(SelectSeq(s.announced, Passed))]

\* The window read now, when it is not announced yet.
AnnounceCurrent(s, plan, at, window) ==
  IF s.next_range < at \/ (s.next_range = at /\ s.next_slot <= window.first)
  THEN LET Announced(t) == AnnounceWindow(t, plan)
       IN  Then([s EXCEPT !.next_range = at, !.next_slot = window.first], Announced)
  ELSE s

AnnounceNext(s, plan) ==
  IF Len(s.announced) >= MaxAnnouncedWindows \/ s.slots >= MaxAnnouncedSlots THEN s
  ELSE IF RangesLeft(s, plan) = {} THEN PastNext(s, plan)
  ELSE LET w == NextWindow(s, plan)
       IN  [AnnounceWindow(s, plan) EXCEPT !.announced = Append(@, w),
                                           !.slots = @ + w.last - w.first]

\* AnnounceFrom(): window, of range at of the plan, is read next.
AnnounceFrom(s, plan, at, window) ==
  LET Current(t) == AnnounceCurrent(t, plan, at, window)
      Further(t) == AnnounceNext(t, plan)
  IN  FoldLeft(LAMBDA t, k : Then(t, Further), Then(DropPassed(s, window), Current),
               [k \in 1..MaxAnnouncedWindows |-> k])

\* LoadWindow(): what is read is announced with it.
LoadWindow(s, plan, at, window) ==
  LET Read(t) == ReadRange(t, SlotRange(window.first, window.last))
  IN  Then(AnnounceFrom(s, plan, at, window), Read)

\* The destructor of SlotReader.
EndReads(s) == IF s.any THEN CancelPrefetch(s) ELSE s

----------------------------------------------------------------------------
(* ReadAnnouncer and UnheldExtensions. far says that the list of the record *)
(* lies in clusters of its own.                                             *)

\* Reads the parse of waiting record w makes whatever the volume holds.
HasReads(w, far) == w.slot = None \/ far \/ w.unheld_extensions # <<>>

\* Load() and Announce(): neighbouring extension records are one read.
Neighbour(runs, r) ==
  runs # <<>> /\ Last(runs).last = r /\ r - Last(runs).first < MaxRun

Runs(records) ==
  FoldLeft(LAMBDA runs, r : IF Neighbour(runs, r)
                            THEN [runs EXCEPT ![Len(runs)].last = r + 1]
                            ELSE Append(runs, SlotRange(r, r + 1)),
           <<>>, SubSeq(records, 1, Min({MaxPreread, Len(records)})))

\* The reads of w, in the order the second pass makes them.
RangesOf(w, far) ==
  (IF w.slot = None THEN <<SlotRange(w.record, w.record + 1)>> ELSE <<>>)
  \o Runs(w.unheld_extensions)
  \o (IF far THEN <<ListRange(w.record)>> ELSE <<>>)

NewAnnouncer(s, count) == [s EXCEPT !.ranges = [i \in 1..count |-> 0]]

SumOf(ranges, places) == FoldSet(LAMBDA i, sum : sum + ranges[i], 0, places)

\* The first loop of Before(): the records before place index are passed.
PassRecords(s, index) ==
  LET gone == {i \in (s.passed + 1)..index : s.ranges[i] # 0}
  IN  [s EXCEPT !.passed = Max({@, index}),
                !.ahead_records = @ - Cardinality(gone),
                !.ahead_ranges = @ - SumOf(s.ranges, gone),
                !.passed_with_reads = @ + Cardinality(gone)]

\* What the first pass left announced would be read for nothing.
CancelFirst(s) ==
  IF s.cancelled THEN s ELSE [CancelPrefetch(s) EXCEPT !.cancelled = TRUE]

Announce(s, i, ranges) ==
  [FoldLeft(Hint, CancelFirst(s), ranges) EXCEPT
     !.ranges[i] = Len(ranges), !.ahead_records = @ + 1, !.ahead_ranges = @ + Len(ranges)]

\* One turn of the second loop, for the record at place i.
AnnounceRecord(s, i, need) ==
  IF \/ i # s.next + 1
     \/ s.ahead_records >= MaxAnnouncedRecords
     \/ s.ahead_ranges >= MaxAnnouncedRanges
  THEN s
  ELSE [(IF need.reads THEN Announce(s, i, need.ranges) ELSE s) EXCEPT !.next = i]

\* needs says what each waiting record reads.
Before(s, index, needs) ==
  LET Step(t, i) == Then(t, LAMBDA u : AnnounceRecord(u, i, needs[i]))
  IN  FoldLeftDomain(Step, PassRecords(s, index), needs)

RestartDue(s) == s.passed_with_reads >= Max({1, RestartInterval})

\* A fault: what was announced and withdrawn is not announced again.
RestartFault(s, index) ==
  [CancelPrefetch(s) EXCEPT
     !.passed_with_reads = 0, !.ranges = [i \in DOMAIN @ |-> 0], !.passed = index,
     !.ahead_records = 0, !.ahead_ranges = 0]

Restart(s, index) ==
  [CancelPrefetch(s) EXCEPT
     !.passed_with_reads = 0, !.ranges = [i \in DOMAIN @ |-> 0], !.passed = index,
     !.next = index, !.ahead_records = 0, !.ahead_ranges = 0]
=============================================================================
