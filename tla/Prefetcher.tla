----------------------------- MODULE Prefetcher -----------------------------
(***************************************************************************)
(* Io::Win32DiskReader and its Prefetcher (src/io/win32-disk-reader.cpp):  *)
(* ranges are announced on two queues, the first queue and the standing    *)
(* lane, and read ahead with overlapped reads. One thread calls; what runs *)
(* beside it is the system, which completes the reads when it likes        *)
(* (Completes), in the middle of a call too.                               *)
(*                                                                         *)
(* A call is a sequence of steps: phase is the part it is in, and andThen  *)
(* what follows the reads it starts. Buffer sizes and the measurements of  *)
(* a benchmark are left out.                                               *)
(***************************************************************************)
EXTENDS Integers, Sequences, FiniteSets, Selection

CONSTANTS
  Media, NoMedium,   \* what can be opened
  BadOf,             \* the addresses of a medium that cannot be read
  AddrMax,           \* stands for the largest ULONGLONG
  Alignment,         \* read_alignment
  ReserveDivisor,    \* first_queue_reserve_divisor
  Patterns,          \* Tuning::Pattern
  FirstPattern,      \* the pattern a Prefetcher begins with
  Caps,              \* caps_: the ReaderTuning of each pattern
  Ranges,            \* bound: the ranges announced and withdrawn
  Requests,          \* bound: the ranges read
  MaxSlots,          \* bound: the slots of the deque
  NoSlot,            \* the range has no slot yet
  NoAnswer           \* no answer to the caller

Tuning == [max_reads : Nat, max_bytes : Nat, max_range_bytes : Nat,
           max_announced_ranges : Nat, match_lookahead : Nat]

ASSUME PrefetcherAssumption ==
  /\ NoMedium \notin Media
  /\ AddrMax \in Nat
  /\ BadOf \in [Media -> SUBSET (0..(AddrMax - 1))]
  /\ Alignment \in Nat \ {0}
  /\ ReserveDivisor \in Nat \ {0}
  /\ FirstPattern \in Patterns
  /\ Caps \in [Patterns -> Tuning]
  /\ Ranges \subseteq [offset : Nat, length : Nat]
  /\ Requests \subseteq [start : Int, len : Nat]
  /\ MaxSlots \in Nat
  /\ NoSlot \notin Nat

VARIABLES
  medium,      \* the store the reader has open
  handle,      \* handle_ of the Prefetcher: "none", "open" or "failed"
  pattern,     \* the pattern whose caps are in force
  first,       \* first_
  standing,    \* standing_
  reading,     \* standing_reading_
  slots,       \* slots_
  phase,       \* where the call is
  andThen,     \* where it goes once the reads are started
  in_flight,   \* the lane's reads in flight, as the call counted them
  serving,     \* the lane and the index of the range a read is served from
  request,     \* the range read
  answer       \* what the read returned

laneVars == <<first, standing, reading, slots>>
callVars == <<phase, andThen, in_flight, serving>>
readVars == <<request, answer>>
vars == <<medium, handle, pattern, laneVars, callVars, readVars>>

Disk == INSTANCE DiskContract

Slots == 1..MaxSlots
EmptyLane == [ranges |-> <<>>, started |-> 0, started_bytes |-> 0]

\* os: the reads the system has not completed; buf: what the bytes in the buffer are
\* of. A read, and a buffer, is told by its store (the one the handle was opened on
\* when the read started) and its address. Neither is a field of the code's Slot: the
\* system writes the buffer through the pointer it was given.
FreeSlot == [in_use |-> FALSE, pending |-> FALSE, got |-> 0, start |-> 0, bytes |-> 0,
             buf |-> [disk |-> NoMedium, at |-> 0], os |-> {}]

cap == Caps[pattern]

Init ==
  /\ medium = NoMedium
  /\ handle = "none"
  /\ pattern = FirstPattern
  /\ first = EmptyLane
  /\ standing = EmptyLane
  /\ reading = <<>>
  /\ slots = [s \in Slots |-> FreeSlot]
  /\ phase = "idle"
  /\ andThen = "idle"
  /\ in_flight = 0
  /\ serving = [lane |-> "first", index |-> 1]
  /\ request = Disk!NoRequest
  /\ answer = NoAnswer

----------------------------------------------------------------------------
(* Ranges, slots and caps. *)

AlignDown(offset) == offset - (offset % Alignment)
AlignUp(end) == AlignDown(end + Alignment - 1)
EndOf(range) == range.offset + range.length
AlignedBytes(range) == AlignUp(EndOf(range)) - AlignDown(range.offset)

Greatest(a, b) == IF a <= b THEN b ELSE a

\* The most reads the standing lane may have in flight.
StandingCap ==
  LET reserve == Greatest(1, cap.max_reads \div ReserveDivisor)
  IN  IF cap.max_reads > reserve THEN cap.max_reads - reserve ELSE 0

\* ReadDone(): the system is done with the read of the slot.
ReadDone(s) == slots[s].os = {}

\* The reads of the lane that StandingInFlight() keeps: started, not finished.
StillReading == Select(reading, {s \in Slots : slots[s].pending /\ ~ReadDone(s)})

\* GetOverlappedResult() with bWait: the bytes of a read of n bytes at place. A
\* read fails, or stops at the first byte that cannot be read.
Got(place, n) ==
  LET bad == BadOf[place.disk]
      a == place.at
  IN  {0} \cup {k \in 0..n : /\ a..(a + k - 1) \cap bad = {}
                             /\ a + k <= AddrMax
                             /\ k < n => a + k \in bad \/ a + k = AddrMax}

\* The slot once its read is over. The bytes of a pending read land in the buffer.
Quiet(slot) ==
  [slot EXCEPT !.pending = FALSE,
               !.os = {},
               !.buf = IF slot.os = {} THEN slot.buf ELSE CHOOSE read \in slot.os : TRUE]

\* A fault: the slot is given back without waiting for its read.
ReleasedFault(slot) == [FreeSlot EXCEPT !.os = slot.os]

\* Drop() gives the slot back once the read is over, cancelled or not. What its
\* buffer holds is of no use any more.
Released(slot) == FreeSlot

\* The slots that the ranges of lane with an index in drop hold.
HeldBy(lane, drop) == {lane.ranges[i].slot : i \in drop} \ {NoSlot}

\* The bytes of the reads of the ranges of lane with an index in at.
BytesAt(lane, at) ==
  Total([i \in DOMAIN lane.ranges |-> AlignedBytes(lane.ranges[i])], Len(lane.ranges), at)

Started(lane) == {i \in DOMAIN lane.ranges : lane.ranges[i].slot # NoSlot}

\* A fault: a range whose read was not started is taken from the count too.
UncountedFault(lane, drop) == drop

\* The dropped ranges that started and started_bytes count.
Uncounted(lane, drop) == drop \cap Started(lane)

\* lane without the ranges at the indices in drop: Drop() of each of them.
Without(lane, drop) ==
  LET kept == Select([i \in DOMAIN lane.ranges |-> i], DOMAIN lane.ranges \ drop)
  IN  [ranges |-> [k \in DOMAIN kept |-> lane.ranges[kept[k]]],
       started |-> lane.started - Cardinality(Uncounted(lane, drop)),
       started_bytes |-> lane.started_bytes - BytesAt(lane, Uncounted(lane, drop))]

\* What Drop() of those ranges does to the slots.
SlotsWithout(lane, drop) ==
  [s \in Slots |-> IF s \in HeldBy(lane, drop) THEN Released(slots[s]) ELSE slots[s]]

\* Drop() of a range of the standing lane, before its slot is free.
ReadingWithout(ss) == Select(reading, Slots \ ss)

DropFirst(drop) ==
  /\ first' = Without(first, drop)
  /\ slots' = SlotsWithout(first, drop)
  /\ UNCHANGED <<standing, reading>>

DropStanding(drop) ==
  /\ standing' = Without(standing, drop)
  /\ slots' = SlotsWithout(standing, drop)
  /\ reading' = ReadingWithout(HeldBy(standing, drop))
  /\ UNCHANGED first

----------------------------------------------------------------------------
(* The system. *)

\* The system completes a read: its bytes are in the buffer it was given.
Completes(s) ==
  \E read \in slots[s].os :
    /\ slots' = [slots EXCEPT ![s].os = @ \ {read}, ![s].buf = read]
    /\ UNCHANGED <<medium, handle, pattern, first, standing, reading, callVars, readVars>>

----------------------------------------------------------------------------
(* StartReads(). *)

\* The call goes on with StartReads(), then with next.
ThenStartReads(next) == phase' = "count" /\ andThen' = next

\* StartReads() counts the reads of the lane.
CountStanding ==
  /\ phase = "count"
  /\ reading' = StillReading
  /\ in_flight' = Len(StillReading)
  /\ phase' = "first"
  /\ UNCHANGED <<medium, handle, pattern, first, standing, slots, andThen, serving, readVars>>

\* Whether the next range of the first queue may start.
FirstMayStart ==
  /\ first.started < Len(first.ranges)
  /\ first.started + in_flight < cap.max_reads
  /\ \/ first.started = 0
     \/ first.started_bytes + standing.started_bytes
          + AlignedBytes(first.ranges[first.started + 1]) <= cap.max_bytes

\* A fault: the first queue is not counted against the reads of the lane.
StandingMayStartFault ==
  /\ standing.started < Len(standing.ranges)
  /\ in_flight < StandingCap
  /\ \/ first.started_bytes + standing.started_bytes = 0
     \/ first.started_bytes + standing.started_bytes
          + AlignedBytes(standing.ranges[standing.started + 1]) <= cap.max_bytes

\* Whether the next range of the standing lane may start.
StandingMayStart ==
  /\ standing.started < Len(standing.ranges)
  /\ in_flight < StandingCap
  /\ first.started + in_flight < cap.max_reads
  /\ \/ first.started_bytes + standing.started_bytes = 0
     \/ first.started_bytes + standing.started_bytes
          + AlignedBytes(standing.ranges[standing.started + 1]) <= cap.max_bytes

\* A fault: a slot is free as soon as its read is over.
FreeSlotsFault == {s \in Slots : ~slots[s].in_use \/ ReadDone(s)}

FreeSlots == {s \in Slots : ~slots[s].in_use}

\* StartRead(): the first free slot. The read is under way, or could not start
\* for want of a buffer, an event or the device.
StartIn(s, range, ok) ==
  LET start == AlignDown(range.offset)
      read == [disk |-> medium, at |-> start]
      reads == IF ok THEN slots[s].os \cup {read} ELSE slots[s].os
  IN  slots' = [slots EXCEPT ![s] =
        [slots[s] EXCEPT !.in_use = TRUE,
                         !.pending = ok,
                         !.got = 0,
                         !.start = start,
                         !.bytes = AlignedBytes(range),
                         !.os = reads]]

\* lane once the read of its next range has started in slot s.
StartedIn(lane, s) ==
  LET i == lane.started + 1
  IN  [ranges |-> [lane.ranges EXCEPT ![i].slot = s],
       started |-> i,
       started_bytes |-> lane.started_bytes + AlignedBytes(lane.ranges[i])]

StartFirst ==
  /\ phase = "first"
  /\ FirstMayStart
  /\ \E s \in FreeSlots, ok \in BOOLEAN :
       /\ \A t \in FreeSlots : s <= t
       /\ StartIn(s, first.ranges[first.started + 1], ok)
       /\ first' = StartedIn(first, s)
  /\ UNCHANGED <<medium, handle, pattern, standing, reading, callVars, readVars>>

\* The lane follows, and its reads are counted again.
FirstStarted ==
  /\ phase = "first"
  /\ ~FirstMayStart
  /\ reading' = StillReading
  /\ in_flight' = Len(StillReading)
  /\ phase' = "standing"
  /\ UNCHANGED <<medium, handle, pattern, first, standing, slots, andThen, serving, readVars>>

StartStanding ==
  /\ phase = "standing"
  /\ StandingMayStart
  /\ \E s \in FreeSlots, ok \in BOOLEAN :
       /\ \A t \in FreeSlots : s <= t
       /\ StartIn(s, standing.ranges[standing.started + 1], ok)
       /\ standing' = StartedIn(standing, s)
       /\ reading' = IF ok THEN Append(reading, s) ELSE reading
  /\ in_flight' = in_flight + 1
  /\ UNCHANGED <<medium, handle, pattern, first, phase, andThen, serving, readVars>>

ReadsStarted ==
  /\ phase = "standing"
  /\ ~StandingMayStart
  /\ phase' = andThen
  /\ in_flight' = 0
  /\ andThen' = "idle"
  /\ UNCHANGED <<medium, handle, pattern, laneVars, serving, readVars>>

----------------------------------------------------------------------------
(* The hints. Each is ignored while nothing is open. *)

\* The aligned read of the range neither wraps nor outgrows the cap on one range.
Admissible(range) ==
  /\ range.offset <= AddrMax - Alignment
  /\ range.length <= AddrMax - Alignment - range.offset
  /\ AlignedBytes(range) <= cap.max_range_bytes

\* A caller is back from a hint, or has not called.
MayCall == phase = "idle" /\ medium # NoMedium

Announced(range) == [offset |-> range.offset, length |-> range.length, slot |-> NoSlot]

\* EnsureHandle(): the handle is opened on first use, or never.
EnsureHandle(then) ==
  \/ /\ handle # "failed"
     /\ handle' = "open"
     /\ then
     /\ ThenStartReads("idle")
  \/ /\ handle # "open"
     /\ handle' = "failed"
     /\ UNCHANGED <<first, standing, phase, andThen>>

\* Announce(), of a range the lane does not hold as it is.
Announce ==
  /\ MayCall
  /\ Len(first.ranges) < cap.max_announced_ranges
  /\ \E range \in Ranges :
       /\ range.length > 0
       /\ Admissible(range)
       /\ \A i \in DOMAIN standing.ranges :
            standing.ranges[i].offset # range.offset \/ standing.ranges[i].length # range.length
       /\ EnsureHandle(/\ first' = [first EXCEPT !.ranges = Append(@, Announced(range))]
                       /\ UNCHANGED standing)
  /\ answer' = NoAnswer
  /\ UNCHANGED <<medium, pattern, reading, slots, in_flight, serving, request>>

AnnounceStanding ==
  /\ MayCall
  /\ Len(standing.ranges) < cap.max_announced_ranges
  /\ \E range \in Ranges :
       /\ range.length > 0
       /\ Admissible(range)
       /\ EnsureHandle(/\ standing' = [standing EXCEPT !.ranges = Append(@, Announced(range))]
                       /\ UNCHANGED first)
  /\ answer' = NoAnswer
  /\ UNCHANGED <<medium, pattern, reading, slots, in_flight, serving, request>>

\* Cancel(): the slots that were freed go to the lane.
Cancel ==
  /\ MayCall
  /\ DropFirst(DOMAIN first.ranges)
  /\ ThenStartReads("idle")
  /\ answer' = NoAnswer
  /\ UNCHANGED <<medium, handle, pattern, in_flight, serving, request>>

\* CancelStanding() of an interval, cut at the largest address.
CancelStanding ==
  /\ MayCall
  /\ \E range \in Ranges :
       LET end == IF range.length > AddrMax - range.offset THEN AddrMax ELSE EndOf(range)
       IN  /\ range.length > 0
           /\ DropStanding({i \in DOMAIN standing.ranges :
                              /\ standing.ranges[i].offset < end
                              /\ range.offset < EndOf(standing.ranges[i])})
  /\ ThenStartReads("idle")
  /\ answer' = NoAnswer
  /\ UNCHANGED <<medium, handle, pattern, in_flight, serving, request>>

\* SetPattern(): the ranges waiting start under the new caps.
SetPattern ==
  /\ MayCall
  /\ pattern' \in Patterns
  /\ ThenStartReads("idle")
  /\ answer' = NoAnswer
  /\ UNCHANGED <<medium, handle, laneVars, in_flight, serving, request>>

----------------------------------------------------------------------------
(* ReadInto() and Open(). *)

\* FindHolding(): the indices of the first count ranges of lane that hold r.
Holding(lane, count, r) ==
  {i \in DOMAIN lane.ranges :
     /\ i <= count
     /\ lane.ranges[i].offset <= r.start
     /\ r.start + r.len <= EndOf(lane.ranges[i])}

Least(S) == CHOOSE x \in S : \A y \in S : x <= y

\* Serve() finds the range that holds the request: in the first queue, whose
\* ranges before it were passed over, else in the lane.
CallReadInto ==
  /\ phase = "idle"
  /\ \E r \in Requests :
       LET inFirst == Holding(first, cap.match_lookahead, r)
           inLane == Holding(standing, Len(standing.ranges), r)
       IN  /\ request' = r
           /\ \/ /\ \/ r.start < 0 \/ medium = NoMedium \/ r.len = 0
                    \/ inFirst = {} /\ inLane = {}
                 /\ phase' = "sync"
                 /\ answer' = NoAnswer
                 /\ UNCHANGED <<laneVars, andThen, serving>>
              \/ /\ r.start >= 0 /\ medium # NoMedium /\ r.len > 0
                 /\ inFirst # {}
                 /\ DropFirst(1..(Least(inFirst) - 1))
                 /\ serving' = [lane |-> "first", index |-> 1]
                 /\ ThenStartReads("serve")
                 /\ answer' = NoAnswer
              \/ /\ r.start >= 0 /\ medium # NoMedium /\ r.len > 0
                 /\ inFirst = {} /\ inLane # {}
                 /\ serving' = [lane |-> "standing", index |-> Least(inLane)]
                 /\ ThenStartReads("serve")
                 /\ answer' = NoAnswer
                 /\ UNCHANGED laneVars
  /\ UNCHANGED <<medium, handle, pattern, in_flight>>

Lane == IF serving.lane = "first" THEN first ELSE standing
Serving == Lane.ranges[serving.index]

Returns(value) == answer' = value /\ request' = Disk!NoRequest

\* The bytes that CopyOut() takes from the buffer of slot.
Copied(slot) ==
  [i \in 0..(request.len - 1) |->
     Disk!Content(slot.buf.disk, slot.buf.at + (request.start - slot.start) + i)]

\* Whether the read of slot, which returned got bytes, has all of the request.
Enough(slot, got) == request.start - slot.start + request.len <= got

\* The request used its range up, or could not be served from it: Drop().
UsedUp(served) == ~served \/ request.start + request.len = EndOf(Serving)

\* ServeFrom() after its first StartReads(): it waits for the read of the range
\* and copies the bytes; the ranges that follow may start then. What is not
\* served is left to the synchronous read.
ServeFrom ==
  /\ phase = "serve"
  /\ LET s == Serving.slot
         drop == IF serving.lane = "first" THEN DropFirst({serving.index})
                 ELSE DropStanding({serving.index})
     IN  \/ /\ s = NoSlot
            /\ drop
            /\ ThenStartReads("sync")
            /\ UNCHANGED readVars
         \/ /\ s # NoSlot
            /\ \E got \in IF slots[s].pending THEN Got(Quiet(slots[s]).buf, slots[s].bytes)
                          ELSE {slots[s].got} :
                 LET quiet == [Quiet(slots[s]) EXCEPT !.got = got]
                     served == Enough(quiet, got)
                 IN  /\ \/ /\ UsedUp(served)
                           /\ drop
                        \/ /\ ~UsedUp(served)
                           /\ slots' = [slots EXCEPT ![s] = quiet]
                           /\ UNCHANGED <<first, standing, reading>>
                     /\ \/ /\ served
                           /\ Returns([ok |-> TRUE, bytes |-> Copied(quiet)])
                           /\ ThenStartReads("idle")
                        \/ /\ ~served
                           /\ ThenStartReads("sync")
                           /\ UNCHANGED readVars
  /\ serving' = [lane |-> "first", index |-> 1]
  /\ UNCHANGED <<medium, handle, pattern, in_flight>>

\* The synchronous read of ReadInto(), or its refusal of a negative address.
SyncRead ==
  /\ phase = "sync"
  /\ Returns(IF Disk!Readable(medium, request) THEN Disk!Success(medium, request)
             ELSE Disk!Failure)
  /\ phase' = "idle"
  /\ UNCHANGED <<medium, handle, pattern, laneVars, andThen, in_flight, serving>>

\* A fault: the Prefetcher of the old store serves the new one.
NewPrefetcherFault == UNCHANGED <<handle, pattern, laneVars>>

\* ~Prefetcher() drops the lane, then the first queue, so every read is over before
\* its buffer is freed; the new store has a Prefetcher of its own.
NewPrefetcher ==
  /\ handle' = "none"
  /\ pattern' = FirstPattern
  /\ first' = EmptyLane
  /\ standing' = EmptyLane
  /\ reading' = <<>>
  /\ slots' = [s \in Slots |-> FreeSlot]

Open ==
  /\ phase = "idle"
  /\ medium' \in Media \cup {NoMedium}
  /\ NewPrefetcher
  /\ answer' = NoAnswer
  /\ UNCHANGED <<callVars, request>>

CallStep ==
  \/ CountStanding
  \/ StartFirst
  \/ FirstStarted
  \/ StartStanding
  \/ ReadsStarted
  \/ ServeFrom
  \/ SyncRead

Next ==
  \/ CallStep
  \/ \E s \in Slots : Completes(s)
  \/ Announce
  \/ AnnounceStanding
  \/ Cancel
  \/ CancelStanding
  \/ SetPattern
  \/ CallReadInto
  \/ Open

Spec == Init /\ [][Next]_vars
----------------------------------------------------------------------------
(* Properties. *)

Phases == {"idle", "count", "first", "standing", "serve", "sync"}
LaneOK(lane) ==
  /\ \A i \in DOMAIN lane.ranges : lane.ranges[i].slot \in Slots \cup {NoSlot}
  /\ lane.started \in 0..Len(lane.ranges)
  /\ lane.started_bytes \in Nat

\* The type of the state; started and started_bytes, unsigned in the code, do not
\* wrap below 0.
TypeOK ==
  /\ medium \in Media \cup {NoMedium}
  /\ handle \in {"none", "open", "failed"}
  /\ pattern \in Patterns
  /\ LaneOK(first)
  /\ LaneOK(standing)
  /\ reading \in Seq(Slots)
  /\ \A s \in Slots : slots[s].in_use \in BOOLEAN /\ slots[s].pending \in BOOLEAN
  /\ phase \in Phases
  /\ andThen \in Phases
  /\ in_flight \in Nat

\* "The reads start in order, so the ranges whose read started are the first of
\* them": started and started_bytes describe exactly the ranges with a slot, also
\* after a range in the middle of the lane was withdrawn.
StartedIsPrefix ==
  \A lane \in {first, standing} :
    /\ Started(lane) = 1..lane.started
    /\ lane.started_bytes = BytesAt(lane, 1..lane.started)

\* "Each started range holds one slot": no two ranges share one, the slot reads
\* what its range asked for, and a slot no range holds has no read in flight, so
\* its buffer may be used again.
SlotsBelong ==
  LET held(lane) == HeldBy(lane, DOMAIN lane.ranges)
  IN  /\ held(first) \cap held(standing) = {}
      /\ Cardinality(held(first)) = first.started
      /\ Cardinality(held(standing)) = standing.started
      /\ held(first) \cup held(standing) = {s \in Slots : slots[s].in_use}
      /\ \A lane \in {first, standing} : \A i \in Started(lane) :
           slots[lane.ranges[i].slot].start = AlignDown(lane.ranges[i].offset)
      /\ \A s \in Slots : slots[s].os # {} => slots[s].in_use /\ slots[s].pending

\* The assertion of StandingInFlight(): the slots it keeps are exactly the reads
\* of the lane in flight, as a visit of every range would count them.
StandingCountAgrees ==
  Len(StillReading) =
    Cardinality({i \in Started(standing) :
                   slots[standing.ranges[i].slot].pending /\ ~ReadDone(standing.ranges[i].slot)})

\* The lanes, the slots and the counters describe the same reads, however
\* announcing, reading, completing and withdrawing follow each other.
LanesAgree == StartedIsPrefix /\ SlotsBelong /\ StandingCountAgrees

\* However calls, completions and changes of pattern follow each other, no more
\* reads are in flight than some pattern allows, and the reads ahead hold no more
\* than some pattern's bytes and one range, the one the caller is about to wait
\* for (StartReads(): "The first one always starts").
WithinCaps ==
  /\ \E p \in Patterns : Cardinality({s \in Slots : ~ReadDone(s)}) <= Caps[p].max_reads
  /\ \E p, q \in Patterns :
       first.started_bytes + standing.started_bytes <=
         Greatest(Caps[p].max_bytes, Caps[p].max_range_bytes) + Caps[q].max_range_bytes

\* "At most StandingCap() of them": the slots of the lane's reads that were
\* started and not seen finished, when no call is in progress. SetPattern() does not
\* keep this (README, Findings).
LaneWithinCap == phase = "idle" => Len(reading) <= StandingCap

\* "The first one always starts: the caller is about to wait for it" (StartReads()),
\* as "the first queue always finds its share of the reads free, whatever the lane
\* holds" (StandingCap()): a read served from the first queue finds the read of its
\* range started. SetPattern() does not keep this either.
FirstAlwaysStarts == phase = "serve" /\ serving.lane = "first" => Serving.slot # NoSlot

\* The reader answers with the bytes of the open store, or fails where the store
\* cannot be read: what is announced, withdrawn or read ahead never shows.
ImplementsDisk == Disk!Spec
=============================================================================
