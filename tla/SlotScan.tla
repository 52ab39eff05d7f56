------------------------------ MODULE SlotScan ------------------------------
(***************************************************************************)
(* The two passes of Mft::SlotScan over the record slots of $MFT           *)
(* (src/mft/slot-scan.cpp) on several threads: WindowParser and            *)
(* WaitingParser (src/mft/slot-parsers.cpp) have the threads of a pool     *)
(* parse the slots of a window of SlotReader (src/mft/slot-reader.cpp), or *)
(* a batch of the records that wait in HeldRecords, while the thread that  *)
(* owns the scan takes their outcomes in record order.                     *)
(*                                                                         *)
(* What a slot holds is its kind, and what its parse logs is one line; the *)
(* attributes of a parsed base record log one more line when they are      *)
(* dropped. The pool is the one of BatchContract: chunks start in order, a *)
(* batch ends when none runs. The thread that owns the scan is Scanner.    *)
(***************************************************************************)
EXTENDS SlotReads, Selection

CONSTANTS
  RecordCount, Budget,   \* see HeldRecords
  Layouts,        \* what the slots of $MFT may hold: a set of functions
  MaxGap,         \* max_gap_slots
  ChunkSlots,     \* slots in one chunk of a window
  BatchRecords,   \* waiting records in one batch
  ChunkRecords,   \* waiting records in one chunk of a batch
  Helpers,        \* the threads of the pools
  Scanner         \* the thread that owns the scan

VARIABLES
  allocated, live, free_slots, content, extensions, pending, waiting,
  record, fresh, ended, met,   \* see HeldRecords
  layout,         \* what each slot of $MFT holds
  plan,           \* the ranges of slots SlotReader was told of
  failing,        \* the windows that cannot be read, by their first slot
  pc,             \* where the scanner is
  automatic,      \* the scan chooses when the threads start
  probe,          \* what the probe says: "open", "pay" or "lose"
  serial_until,   \* the slots before it are in a window the scanner parses
  window,         \* the slots [first, last) SlotReader holds
  failed,         \* the slots [first, last) of the last window it could not read
  buffer,         \* the record at the start of window_, None when that is garbage
  batch,          \* what the pool parses: [parser, active, first, last]
  next_chunk,     \* the next chunk of it to start
  done,           \* the chunks of it that are parsed
  job,            \* the chunk each thread parses, and where it is in it
  log_set,        \* the log set each parser writes
  logs,           \* the captured lines of each chunk, by parser and log set
  outcomes,       \* what the threads found, by parser and place in the batch
  pending_release,\* lines the scanner still has to replay
  parsed_here,    \* file_record_ may hold attributes the scanner parsed
  attributes,     \* the record whose attributes file_record_ holds
  entries,        \* the entries, each the number of its record
  entry_index,    \* where in entries each waiting record has its place
  dropped,        \* the places the second pass does not keep
  index,          \* the waiting record the second pass is at
  on_threads,     \* the threads parse the waiting records
  sinks,          \* the lines logged
  counted,        \* how often each record was counted
  reads           \* what the disk reader is told of, see SlotReads

Held == INSTANCE HeldRecords

held == <<allocated, live, free_slots, content, extensions, pending, waiting,
          record, fresh, ended, met>>

medium == <<layout, plan, failing>>
still == <<medium, reads>>
choice == <<automatic, probe, serial_until>>
reader == <<window, failed, buffer>>
pool == <<batch, next_chunk, done, job, log_set, logs, outcomes>>
output == <<pending_release, parsed_here, attributes, sinks, counted>>
result == <<entries, entry_index, dropped>>
second == <<index, on_threads>>
vars == <<held, still, pc, choice, reader, pool, output, result, second>>

Records == Held!Records
Threads == Helpers \cup {Scanner}
Parsers == {"window", "waiting"}
\* "lost" and "lost_list" are base records ReadBaseEntry() does not keep.
Kinds == {"free", "bad", "plain", "lost", "stream", "listed", "lost_list", "extension"}

\* What slot r of $MFT may hold: its kind, the base an extension names, and
\* whether its list lies in clusters of its own.
Slot == [kind : Kinds, base : Held!Bases, far : BOOLEAN]

ASSUME ScanAssumption ==
  /\ {RecordCount, Budget, FirstMapped, MaxGap} \subseteq Nat
  /\ {ClusterSlots, WindowSlots, ChunkSlots, ChunkRecords, BatchRecords} \subseteq Nat \ {0}
  /\ Layouts \subseteq [Records -> Slot]
  /\ None \notin Nat
  /\ None \notin [chunk : Nat, at : Nat]
  /\ None \notin [parser : Parsers, set : 0..1, chunk : Nat, begin : Nat, end : Nat, slot : Nat]

\* An outcome no thread has written is that of an unreadable slot.
Kind(r) == IF r = None THEN "bad" ELSE layout[r].kind
IsFree(r) == Kind(r) = "free"
HasList(r) == Kind(r) \in {"listed", "lost_list"}
IsKept(r) == Kind(r) \in {"plain", "stream", "listed"}
----------------------------------------------------------------------------
(* SlotReader: the windows of a plan. *)

\* The used slots, cut where more than MaxGap - 1 free ones follow each other: a
\* used slot makes the last range longer, or begins one.
Used == {r \in Records : ~IsFree(r)}

Reaches(ranges, r) == ranges # <<>> /\ r - (ranges[Len(ranges)].last - 1) <= MaxGap

PlanSlotRanges ==
  LET upTo[n \in 0..RecordCount] ==
        IF n = 0 THEN <<>>
        ELSE IF IsFree(n - 1) THEN upTo[n - 1]
        ELSE IF Reaches(upTo[n - 1], n - 1)
        THEN [upTo[n - 1] EXCEPT ![Len(upTo[n - 1])].last = n]
        ELSE Append(upTo[n - 1], [first |-> n - 1, last |-> n])
  IN  upTo[RecordCount]

Line(what, r) == <<[what |-> what, record |-> r]>>

\* ServeWindow(): a window is read when the one held does not serve slot r. A
\* read that fails leaves no window behind, and says so.
MustLoad(r) ==
  /\ r >= FirstMapped
  /\ ~In(r, failed)
  /\ ~In(r, window)
  /\ WindowFor(plan, r) # NoRange

LoadFails(r) == MustLoad(r) /\ WindowFor(plan, r).first \in failing
Served(r) == In(r, window) \/ (MustLoad(r) /\ ~LoadFails(r))

ServeWindow(r) ==
  IF ~MustLoad(r) THEN UNCHANGED <<reader, reads>>
  ELSE /\ reads' = LoadWindow(reads, plan, RangeOf(plan, r), WindowFor(plan, r))
       /\ IF LoadFails(r)
          THEN /\ window' = NoRange
               /\ failed' = WindowFor(plan, r)
               /\ buffer' = None
          ELSE /\ window' = WindowFor(plan, r)
               /\ buffer' = WindowFor(plan, r).first
               /\ UNCHANGED failed

LoadLines(r) == IF LoadFails(r) THEN Line("load", WindowFor(plan, r).first) ELSE <<>>

\* HeldSlot(): whether the window holds the bytes of slot r.
HeldSlot(r) == In(r, window)

----------------------------------------------------------------------------
(* The parsers: the chunks of a batch on the threads of the pool. *)

ChunkSize == IF batch.parser = "window" THEN ChunkSlots ELSE ChunkRecords
BatchLength == batch.last - batch.first
ChunkCount == (BatchLength + ChunkSize - 1) \div ChunkSize
ChunkOf(i) == (i - batch.first) \div ChunkSize
ChunkEnd(c) == Min({(c + 1) * ChunkSize, BatchLength})
Covers(i) == batch.active /\ In(i, batch)
Quiet == \A t \in Threads : job[t] = None

\* The log of a chunk of the batch.
LogOf(c) == logs[batch.parser][log_set[batch.parser]][c]

\* A fault: both batches write the same logs.
OtherSetFault(p) == log_set[p]

\* The logs of the batch before stay as they are.
OtherSet(p) == 1 - log_set[p]

\* Begin(): the batch before it is over.
Begin(p, range) ==
  /\ batch' = [parser |-> p, active |-> TRUE, first |-> range.first, last |-> range.last]
  /\ next_chunk' = 0
  /\ done' = {}
  /\ log_set' = [log_set EXCEPT ![p] = OtherSet(p)]
  /\ UNCHANGED <<job, logs, outcomes>>

\* A fault: the chunks are left to run.
EndedFault(going_on) == TRUE

\* Finish() of the pool returns once no thread parses.
Ended(going_on) == ~going_on

\* The first half of End(): the chunks nobody started are dropped.
DropUnstarted ==
  /\ batch' = [batch EXCEPT !.active = FALSE]
  /\ next_chunk' = IF batch.active THEN ChunkCount ELSE next_chunk
  /\ UNCHANGED <<done, job, log_set, logs, outcomes>>

\* The second half: the threads that still parse are waited for.
EndReturns == Ended(~Quiet)

\* Thread t starts the next chunk, with an empty log.
TakeChunk(t) ==
  /\ job[t] = None
  /\ next_chunk < ChunkCount
  /\ job' = [job EXCEPT ![t] = [chunk |-> next_chunk, at |-> next_chunk * ChunkSize]]
  /\ logs' = [logs EXCEPT ![batch.parser][log_set[batch.parser]][next_chunk] = <<>>]
  /\ next_chunk' = next_chunk + 1
  /\ UNCHANGED <<batch, done, log_set, outcomes>>

NoOutcome == [of |-> None, needs |-> FALSE, begin |-> 0, end |-> 0, release |-> 0]
LeftToScanner == [NoOutcome EXCEPT !.needs = TRUE]

\* The outcome of parsing record r after the lines log: the line of the parse,
\* then the one of its attributes when it has parsed any.
Outcome(r, log, needs, attrs) ==
  [of |-> r, needs |-> needs, begin |-> Len(log), end |-> Len(log) + 1,
   release |-> Len(log) + IF attrs THEN 2 ELSE 1]

\* A record the threads leave to the scanner, because its parse may read.
NeedsVolume(r) == Kind(r) = "stream"

\* ParseWindowSlot(): the bytes are those that stand in the window.
WindowOutcome(at, log) ==
  LET r == IF buffer = None THEN None ELSE buffer + at
      base == Kind(r) \in {"plain", "lost"}
      needs == NeedsVolume(r)
  IN  [outcome |-> Outcome(r, log, needs, base),
       lines |-> Line("parse", r) \o IF base THEN Line("release", r) ELSE <<>>]

\* The list of record r lies in clusters of its own.
IsFar(r) == layout[r].far

\* ParseChunk() of WaitingParser: refused says that the parse wanted a read.
WaitingOutcome(at, log, refused) ==
  LET w == waiting[batch.first + at + 1]
      r == IF w.slot = None THEN None ELSE content[w.slot]
  IN  IF HasReads(w, IsFar(w.record)) THEN [outcome |-> LeftToScanner, lines |-> <<>>]
      ELSE [outcome |-> IF refused THEN LeftToScanner ELSE Outcome(r, log, FALSE, TRUE),
            lines |-> Line("reparse", r) \o Line("release", r)]

\* One turn of the loop of ParseChunk(). A slot marked free is left alone.
ParseOne(t) ==
  /\ job[t] # None
  /\ \E refused \in BOOLEAN :
       LET at == job[t].at
           chunk == job[t].chunk
           log == LogOf(chunk)
           found == IF batch.parser = "window" THEN WindowOutcome(at, log)
                    ELSE WaitingOutcome(at, log, refused)
           skip == batch.parser = "window" /\ IsFree(batch.first + at)
       IN  /\ refused => batch.parser = "waiting"
           /\ outcomes' = IF skip THEN outcomes
                          ELSE [outcomes EXCEPT ![batch.parser][at] = found.outcome]
           /\ logs' = IF skip THEN logs
                      ELSE [logs EXCEPT ![batch.parser][log_set[batch.parser]][chunk] =
                              @ \o found.lines]
           /\ IF at + 1 < ChunkEnd(chunk)
              THEN /\ job' = [job EXCEPT ![t].at = at + 1]
                   /\ UNCHANGED done
              ELSE /\ job' = [job EXCEPT ![t] = None]
                   /\ done' = done \cup {chunk}
  /\ UNCHANGED <<batch, next_chunk, log_set>>

HelperStep(h) ==
  /\ TakeChunk(h) \/ ParseOne(h)
  /\ UNCHANGED <<held, still, pc, choice, reader, output, result, second>>

\* A fault: the chunk after it is waited for.
ParsedLateFault(i) == ChunkOf(i) + 1 \in done

\* WaitFor() of the chunk of place i is over.
Parsed(i) == ChunkOf(i) \in done

\* WaitFor(): the scanner parses while it waits.
ScannerHelps(i) ==
  /\ job[Scanner] # None \/ ~Parsed(i)
  /\ IF job[Scanner] # None THEN ParseOne(Scanner) ELSE TakeChunk(Scanner)
  /\ UNCHANGED <<held, still, pc, choice, reader, output, result, second>>

OutcomeAt(i) == outcomes[batch.parser][i - batch.first]

----------------------------------------------------------------------------
(* The log: one thread drops the attributes of a record when it parses the *)
(* next one, so what a thread logged when it dropped them is kept apart.   *)

\* Replay(): the lines of a captured log between two marks.
Replay(log, begin, end) == SubSeq(log, begin + 1, Min({end, Len(log)}))

PendingLines ==
  IF pending_release = None THEN <<>>
  ELSE Replay(logs[pending_release.parser][pending_release.set][pending_release.chunk],
              pending_release.begin, pending_release.end)

\* The lines ClearAttrs() of file_record_ logs.
ClearLines == IF attributes = None THEN <<>> ELSE Line("release", attributes)

\* LeaveRelease(): what the attributes log when they are dropped is kept.
LeaveRelease(i, r) ==
  LET o == OutcomeAt(i)
  IN  IF o.release = o.end THEN None
      ELSE [parser |-> batch.parser, set |-> log_set[batch.parser],
            chunk |-> ChunkOf(i), begin |-> o.end, end |-> o.release, slot |-> r]

\* Merge(): the scanner takes what a thread found for record r at place i. The
\* record before it is gone first.
TakeOutcome(i, r) ==
  LET o == OutcomeAt(i)
  IN  /\ sinks' = sinks \o PendingLines \o (IF parsed_here THEN ClearLines ELSE <<>>)
                  \o Replay(LogOf(ChunkOf(i)), o.begin, o.end)
      /\ attributes' = IF parsed_here THEN None ELSE attributes
      /\ parsed_here' = FALSE
      /\ counted' = [counted EXCEPT ![r] = @ + 1]
      /\ pending_release' = LeaveRelease(i, r)

\* ParseFileRecord() on the scanner, its attributes parsed when attrs is set.
\* before is what is logged ahead of it.
ParseOnScanner(before, what, r, attrs) ==
  /\ sinks' = sinks \o before \o ClearLines \o Line(what, r)
  /\ attributes' = IF attrs THEN r ELSE None
  /\ parsed_here' = (attrs \/ parsed_here)
  /\ counted' = [counted EXCEPT ![r] = @ + 1]
  /\ pending_release' = None

----------------------------------------------------------------------------
(* The first pass. *)

Init ==
  /\ Held!Init
  /\ layout \in Layouts
  /\ plan = PlanSlotRanges
  /\ failing \in SUBSET {WindowFor(plan, r).first : r \in {u \in Used : u >= FirstMapped}}
  /\ pc = "next"
  /\ automatic \in BOOLEAN
  /\ probe = "open"
  /\ serial_until = 0
  /\ window = NoRange
  /\ failed = NoRange
  /\ buffer = None
  /\ batch = [parser |-> "window", active |-> FALSE, first |-> 0, last |-> 0]
  /\ next_chunk = 0
  /\ done = {}
  /\ job = [t \in Threads |-> None]
  /\ log_set = [p \in Parsers |-> 0]
  /\ logs = [p \in Parsers |-> [s \in 0..1 |-> [c \in 0..(RecordCount - 1) |-> <<>>]]]
  /\ outcomes = [p \in Parsers |-> [i \in 0..(RecordCount - 1) |-> NoOutcome]]
  /\ pending_release = None
  /\ parsed_here = FALSE
  /\ attributes = None
  /\ entries = <<>>
  /\ entry_index = <<>>
  /\ dropped = {}
  /\ index = 0
  /\ on_threads = FALSE
  /\ sinks = <<>>
  /\ counted = [r \in Records |-> 0]
  /\ reads = NewReads

\* One turn of the loop of FirstPass() up to where slot r is parsed.
NextSlot ==
  LET r == Held!Position
  IN  /\ pc = "next"
      /\ r < RecordCount
      /\ Held!ReleaseBefore(r)
      /\ pc' = IF IsFree(r) THEN "next"
               ELSE IF r < serial_until THEN "here"
               ELSE IF Covers(r) THEN "take" ELSE "window"
      /\ IF pc' = "window" THEN DropUnstarted ELSE UNCHANGED pool
      /\ UNCHANGED <<still, choice, reader, output, result, second>>

\* ThreadsParse(): a probe, made once, says whether the threads pay.
ThreadsParse(verdict) ==
  /\ verdict \in IF ~automatic THEN {"pay"}
                 ELSE IF probe = "open" THEN {"open", "pay", "lose"} ELSE {probe}
  /\ probe' = IF automatic THEN verdict ELSE probe

\* BeginWindow(): the window that holds the slot is loaded over the one the
\* threads parsed, and given to them, or left to the scanner.
BeginWindow ==
  /\ pc = "window"
  /\ EndReturns
  /\ ServeWindow(record)
  /\ sinks' = sinks \o LoadLines(record)
  /\ \/ /\ ~Served(record)
        /\ pc' = "here"
        /\ UNCHANGED <<probe, serial_until, pool>>
     \/ /\ Served(record)
        /\ \E verdict \in {"open", "pay", "lose"} :
             /\ ThreadsParse(verdict)
             /\ \/ /\ verdict = "pay"
                   /\ Begin("window", window')
                   /\ pc' = "take"
                   /\ UNCHANGED serial_until
                \/ /\ verdict # "pay"
                   /\ serial_until' = window'.last
                   /\ pc' = "here"
                   /\ UNCHANGED pool
  /\ UNCHANGED <<held, medium, automatic, pending_release, parsed_here, attributes,
                 counted, result, second>>

TakeHelps == pc = "take" /\ ScannerHelps(record)

\* A record that needs the volume is parsed again by the scanner.
TakeRefused ==
  /\ pc = "take"
  /\ job[Scanner] = None
  /\ Parsed(record)
  /\ OutcomeAt(record).needs
  /\ pc' = "here"
  /\ UNCHANGED <<held, still, choice, reader, pool, output, result, second>>

\* A fault: the record that waits is parsed at once as well.
AfterListedFault == "here"

\* TakeListed() has taken the record: ParseHere() is not called.
AfterListed == "next"

\* TakeListed() and TakeKept(). The window holds the slot in full, so that a
\* record with a list always waits.
TakeParsed ==
  /\ pc = "take"
  /\ job[Scanner] = None
  /\ Parsed(record)
  /\ ~OutcomeAt(record).needs
  /\ TakeOutcome(record, record)
  /\ LET r == OutcomeAt(record).of
     IN  \/ /\ HasList(r)
            /\ Held!HoldWaiting(record)
            /\ entry_index' = Append(entry_index, Len(entries) + 1)
            /\ entries' = Append(entries, None)
            /\ pc' = AfterListed
         \/ /\ Kind(r) = "extension"
            /\ Held!MeetExtension(record, layout[r].base, HeldSlot(record))
            /\ pc' = "next"
            /\ UNCHANGED <<entries, entry_index>>
         \/ /\ ~HasList(r)
            /\ Kind(r) # "extension"
            /\ entries' = IF IsKept(r) THEN Append(entries, r) ELSE entries
            /\ pc' = "next"
            /\ UNCHANGED <<held, entry_index>>
  /\ UNCHANGED <<still, choice, reader, pool, dropped, second>>

\* ParseHere(): the scanner parses slot r, from the window or alone.
ParseHere ==
  LET r == record
      waits == HasList(r) /\ Served(r)
      attrs == Kind(r) \in {"plain", "lost", "stream"} \/ (HasList(r) /\ ~waits)
  IN  /\ pc = "here"
      /\ ServeWindow(r)
      /\ ParseOnScanner(PendingLines \o LoadLines(r), "parse", r, attrs)
      /\ \/ /\ waits
            /\ Held!HoldWaiting(r)
            /\ entry_index' = Append(entry_index, Len(entries) + 1)
            /\ entries' = Append(entries, None)
         \/ /\ HasList(r)
            /\ ~waits
            /\ Held!Confirm(r)
            /\ entries' = IF IsKept(r) THEN Append(entries, r) ELSE entries
            /\ UNCHANGED entry_index
         \/ /\ Kind(r) = "extension"
            /\ Held!MeetExtension(r, layout[r].base, Served(r))
            /\ UNCHANGED <<entries, entry_index>>
         \/ /\ ~HasList(r)
            /\ Kind(r) # "extension"
            /\ entries' = IF IsKept(r) THEN Append(entries, r) ELSE entries
            /\ UNCHANGED <<held, entry_index>>
      /\ pc' = "next"
      /\ UNCHANGED <<medium, choice, pool, dropped, second>>

\* The loop ends after the last slot, or where progress() stops the scan.
LeaveLoop ==
  /\ pc = "next"
  /\ pc' = "end_first"
  /\ DropUnstarted
  /\ UNCHANGED <<held, still, choice, reader, output, result, second>>

EndFirstPass ==
  /\ pc = "end_first"
  /\ EndReturns
  /\ Held!Finish
  /\ on_threads' \in IF automatic THEN BOOLEAN ELSE {TRUE}
  /\ pc' = "second"
  /\ reads' = NewAnnouncer(reads, Len(waiting'))
  /\ UNCHANGED <<medium, choice, reader, pool, output, result, index>>

----------------------------------------------------------------------------
(* The second pass. *)

Needs ==
  [i \in DOMAIN waiting |->
     LET far == IsFar(waiting[i].record)
     IN  [reads |-> HasReads(waiting[i], far), ranges |-> RangesOf(waiting[i], far)]]

\* The reads to come are announced, and the lines left are replayed before the
\* next record, whoever parses it.
NextWaiting ==
  /\ pc = "second"
  /\ index < Len(waiting)
  /\ LET Told(s) == Before(s, index, Needs)
     IN  reads' = Then(IF RestartDue(reads) THEN Restart(reads, index) ELSE reads, Told)
  /\ sinks' = sinks \o PendingLines
  /\ pending_release' = None
  /\ pc' = IF ~on_threads THEN "waiting_here"
           ELSE IF Covers(index) /\ batch.parser = "waiting" THEN "waiting_take"
           ELSE "waiting_batch"
  /\ IF pc' = "waiting_batch" THEN DropUnstarted ELSE UNCHANGED pool
  /\ UNCHANGED <<held, medium, choice, reader, parsed_here, attributes, counted,
                 result, second>>

BeginBatch ==
  /\ pc = "waiting_batch"
  /\ EndReturns
  /\ Begin("waiting", [first |-> index, last |-> Min({index + BatchRecords, Len(waiting)})])
  /\ pc' = "waiting_take"
  /\ UNCHANGED <<held, still, choice, reader, output, result, second>>

WaitingHelps == pc = "waiting_take" /\ ScannerHelps(index)

WaitingRefused ==
  /\ pc = "waiting_take"
  /\ job[Scanner] = None
  /\ Parsed(index)
  /\ OutcomeAt(index).needs
  /\ pc' = "waiting_here"
  /\ UNCHANGED <<held, still, choice, reader, pool, output, result, second>>

\* The entry of the waiting record the pass is at is r, and is kept or not.
FillEntry(r) ==
  /\ entries' = [entries EXCEPT ![entry_index[index + 1]] = r]
  /\ dropped' = IF IsKept(r) THEN dropped ELSE dropped \cup {entry_index[index + 1]}
  /\ index' = index + 1
  /\ pc' = "second"
  /\ UNCHANGED <<entry_index, on_threads>>

TakeWaiting ==
  /\ pc = "waiting_take"
  /\ job[Scanner] = None
  /\ Parsed(index)
  /\ ~OutcomeAt(index).needs
  /\ TakeOutcome(index, waiting[index + 1].record)
  /\ FillEntry(OutcomeAt(index).of)
  /\ UNCHANGED <<held, still, choice, reader, pool>>

ParseWaitingHere ==
  LET w == waiting[index + 1]
  IN  /\ pc = "waiting_here"
      /\ ParseOnScanner(<<>>, "reparse", w.record, TRUE)
      /\ FillEntry(IF w.slot = None THEN w.record ELSE content[w.slot])
      \* A record that is not kept may not come to read its list.
      /\ \E far \in {IsFar(w.record), IsKept(w.record) /\ IsFar(w.record)} :
           reads' = ReadAll(reads, RangesOf(w, far))
      /\ UNCHANGED <<held, medium, choice, reader, pool>>

\* DropEntries(): the others keep their order.
Stays == DOMAIN entries \ dropped

LeaveSecondPass ==
  /\ pc = "second"
  /\ index = Len(waiting)
  /\ DropUnstarted
  /\ pc' = "end_second"
  /\ UNCHANGED <<held, still, choice, reader, output, result, second>>

EndSecondPass ==
  /\ pc = "end_second"
  /\ EndReturns
  /\ LET kept == Select([i \in 1..Len(entries) |-> i], Stays)
     IN  entries' = [i \in DOMAIN kept |-> entries[kept[i]]]
  /\ pc' = "destroy"
  /\ UNCHANGED <<held, still, choice, reader, pool, output, entry_index, dropped,
                 second>>

\* DropLastParsedByThread(), then the destructor of file_record_, which drops the
\* attributes in an order of its own: what a thread logged for the last record
\* is not replayed, the record is parsed again in file_record_ without a sound.
Destroy ==
  /\ pc = "destroy"
  /\ LET left == pending_release
         again == left # None
                  /\ (left.parser = "waiting" \/ HeldSlot(left.slot))
         last == IF again THEN left.slot ELSE attributes
     IN  sinks' = sinks \o IF last = None THEN <<>> ELSE Line("destroy", last)
  /\ pending_release' = None
  /\ attributes' = None
  /\ reads' = EndReads(reads)
  /\ pc' = "gone"
  /\ UNCHANGED <<held, medium, choice, reader, pool, parsed_here, counted, result,
                 second>>

Gone == pc = "gone" /\ UNCHANGED vars

ScannerStep ==
  \/ NextSlot
  \/ BeginWindow
  \/ TakeHelps
  \/ TakeRefused
  \/ TakeParsed
  \/ ParseHere
  \/ LeaveLoop
  \/ EndFirstPass
  \/ NextWaiting
  \/ BeginBatch
  \/ WaitingHelps
  \/ WaitingRefused
  \/ TakeWaiting
  \/ ParseWaitingHere
  \/ LeaveSecondPass
  \/ EndSecondPass
  \/ Destroy

Next == ScannerStep \/ (\E h \in Helpers : HelperStep(h)) \/ Gone

Spec == Init /\ [][Next]_vars

\* The scanner, and each helper that has a chunk to parse, goes on.
Fairness == WF_vars(ScannerStep) /\ \A h \in Helpers : WF_vars(HelperStep(h))

FairSpec == Spec /\ Fairness
----------------------------------------------------------------------------
(* Properties. *)

\* "The next window overwrites the bytes the threads parse": no window is read,
\* and no batch begun, while a thread is inside the one before it.
BytesStandStill ==
  [][(window' # window \/ buffer' # buffer \/ batch'.first # batch.first
      \/ batch'.parser # batch.parser) => Quiet]_vars

\* The lines a thread logged, and that the scanner has still to replay, are not
\* overwritten by the threads that parse the next batch.
LeftLinesStand ==
  pending_release # None =>
    PendingLines = Line("release", pending_release.slot)

\* What one thread does with the same volume, up to where the scan stopped.
Seen == {r \in Used : r < Held!Position}
SeenInOrder == Select([i \in 1..Held!Position |-> i - 1], Used)
ReadInWindow(r) == WindowFor(plan, r) # NoRange /\ WindowFor(plan, r).first \notin failing
Waits(r) == HasList(r) /\ ReadInWindow(r)
WaitingInOrder == Select(SeenInOrder, {r \in Used : Waits(r)})
ParsesAttrs(r) == Kind(r) \in {"plain", "lost", "stream"} \/ (HasList(r) /\ ~Waits(r))
FailsFirst(r) ==
  /\ WindowFor(plan, r) # NoRange
  /\ WindowFor(plan, r).first \in failing
  /\ \A u \in Used : u < r => WindowFor(plan, u) # WindowFor(plan, r)

\* The parses one thread makes, in order: load is the window that could not be
\* read for it, attrs says that it leaves attributes to the parse after it.
FirstParse(r) ==
  [what |-> "parse", record |-> r, attrs |-> ParsesAttrs(r),
   load |-> IF FailsFirst(r) THEN WindowFor(plan, r).first ELSE None]
SecondParse(r) == [what |-> "reparse", record |-> r, attrs |-> TRUE, load |-> None]

OneThreadParses ==
  [i \in DOMAIN SeenInOrder |-> FirstParse(SeenInOrder[i])]
  \o [i \in DOMAIN WaitingInOrder |-> SecondParse(WaitingInOrder[i])]

\* The lines of each: the window it could not read, the attributes of the parse
\* before, and its own.
AttrLines(what, parse) == IF parse.attrs THEN Line(what, parse.record) ELSE <<>>

LinesOf(parses, i) ==
  (IF parses[i].load = None THEN <<>> ELSE Line("load", parses[i].load))
  \o (IF i > 1 THEN AttrLines("release", parses[i - 1]) ELSE <<>>)
  \o Line(parses[i].what, parses[i].record)

LogOfParses(parses) == FlattenSeq([i \in DOMAIN parses |-> LinesOf(parses, i)])

OneThreadLog ==
  LogOfParses(OneThreadParses)
  \o IF OneThreadParses = <<>> THEN <<>>
     ELSE AttrLines("destroy", OneThreadParses[Len(OneThreadParses)])

\* The lines come in the order one thread logs them, each once, whichever
\* thread parsed what, the lines of dropped attributes included.
SameLog == pc = "gone" => sinks = OneThreadLog

\* The entries are those of one thread: the kept base records, in record order,
\* although the ones with a list are filled in later and may be dropped then. And
\* so are the counters: each slot counts once in the first pass and each waiting
\* record once more in the second, also when the scanner parses a slot again.
SameResult ==
  pc = "gone" =>
    /\ entries = Select(SeenInOrder, {r \in Used : IsKept(r)})
    /\ counted = [r \in Records |-> IF r \notin Seen THEN 0 ELSE IF Waits(r) THEN 2 ELSE 1]

\* Several threads scan as one does: the lines, the entries and the counters.
SameScan == LeftLinesStand /\ SameLog /\ SameResult

\* SlotReader and ReadAnnouncer count what is announced ahead of the scan as it
\* is: the windows not read yet, and the reads of the records not passed yet.
AheadIsExact ==
  /\ reads.slots = SlotsOf(reads.announced)
  /\ LET ahead == {i \in (reads.passed + 1)..reads.next : reads.ranges[i] # 0}
     IN  /\ reads.ahead_records = Cardinality(ahead)
         /\ reads.ahead_ranges = SumOf(reads.ranges, ahead)

\* Every window and every read of the second pass is announced when it is made,
\* and no more than Lookahead - 1 ranges nobody reads stand before it in the
\* reader's queue, also after a record that did not read its list, a window that
\* failed or a first pass that was stopped. Nothing is announced twice, the
\* counters that limit it do not drift, and nothing stays announced at the end.
ReadsAsAnnounced ==
  /\ reads.missed = {}
  /\ \A i, j \in DOMAIN reads.queue : reads.queue[i] = reads.queue[j] => i = j
  /\ AheadIsExact
  /\ pc = "gone" => reads.queue = <<>>

\* The scan calls HeldRecords as it asks to be called: in increasing order, one
\* call a record, nothing after Finish().
UsesHeldRecords == Held!Spec

\* The scan ends: no thread waits for a chunk that nobody parses.
ScanEnds == <>(pc = "gone")
=============================================================================
