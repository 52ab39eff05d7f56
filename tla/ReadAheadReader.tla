-------------------------- MODULE ReadAheadReader --------------------------
(***************************************************************************)
(* Io::ReadAheadDiskReader (src/io/read-ahead-disk-reader.cpp): a reader   *)
(* that wraps another one. While the caller reads forward, a worker thread *)
(* reads the next chunks of the medium through the wrapped reader.         *)
(*                                                                         *)
(* Two locks. mutex_ guards the window; the worker's uses of it are single *)
(* steps, and the caller holds it over several (HoldsMutex). inner_mutex_  *)
(* is held by the thread that is inside the wrapped reader (inner).        *)
(***************************************************************************)
EXTENDS Integers, Sequences, FiniteSets, SequencesExt

CONSTANTS
  Media, NoMedium,   \* what the wrapped reader can open
  BadOf,             \* the addresses of a medium that cannot be read
  AddrMax,           \* stands for LLONG_MAX
  Requests,          \* bound: the ranges the caller asks for
  Alignment,         \* chunk_alignment
  ChunkBytes,        \* chunk_bytes_
  MaxChunkBytes,     \* max_chunk_bytes
  WindowChunks,      \* window_chunks_
  NoAnswer,          \* no answer to the caller
  NoChunk,           \* the null shared_ptr
  Garbage            \* a byte that was never read

ASSUME ReaderAssumption ==
  /\ NoMedium \notin Media
  /\ AddrMax \in Nat
  /\ BadOf \in [Media -> SUBSET (0..(AddrMax - 1))]
  /\ Requests \subseteq [start : Int, len : Nat]
  /\ Alignment \in Nat \ {0}
  /\ ChunkBytes \in Nat
  /\ MaxChunkBytes \in Nat \ {0}
  /\ WindowChunks \in Nat \ {0}

\* A chunk lives as long as the window or the worker refers to it: one more than
\* the window holds is enough.
Ids == 1..(WindowChunks + 1)

ASSUME NoChunkAssumption == NoChunk \notin Ids

VARIABLES
  medium,           \* what the wrapped reader has open
  inner,            \* who holds inner_mutex_
  chunk,            \* the chunks, by identity
  window,           \* window_: the identities, in address order
  stop,             \* stop_
  has_last,
  last_end,
  last_size,
  prefetch_floor,
  worker,           \* where the worker is
  job,              \* the chunk it reads
  job_ok,           \* what its read returned
  caller,           \* where the caller is
  request,          \* what it asked for
  dest,             \* the buffer it gave
  copied,           \* the leading bytes served from the window
  answer            \* what its read returned

windowVars == <<chunk, window, has_last, last_end, last_size, prefetch_floor>>
workerVars == <<worker, job, job_ok>>
callVars == <<request, dest, copied, answer>>
vars == <<medium, inner, windowVars, stop, workerVars, caller, callVars>>

Disk == INSTANCE DiskContract

ChunkStates == {"Queued", "Reading", "Ready", "Failed"}
WorkerStates == {"absent", "ready", "asleep", "want_inner", "reading", "record", "exited"}
CallerStates == {"idle", "serve", "asleep", "woken", "served", "want_inner", "direct",
                 "relock_ok", "relock_failed", "complete", "want_direct", "direct_only",
                 "want_open", "want_hint", "notify_stop", "join", "gone"}

\* The caller is inside a critical section of mutex_.
HoldsMutex == caller \in {"serve", "served", "complete"}

End(c) == chunk[c].addr + chunk[c].size

\* A chunk whose last shared_ptr is gone.
Freed == [addr |-> 0, size |-> 0, state |-> "Queued", cancelled |-> TRUE, data |-> <<>>]

Init ==
  /\ medium \in Media \cup {NoMedium}   \* the wrapped reader is "already open or not"
  /\ inner = "free"
  /\ chunk = [c \in Ids |-> Freed]
  /\ window = <<>>
  /\ stop = FALSE
  /\ has_last = FALSE
  /\ last_end = 0
  /\ last_size = 0
  /\ prefetch_floor = 0
  /\ worker = "absent"
  /\ job = NoChunk
  /\ job_ok = FALSE
  /\ caller = "idle"
  /\ request = Disk!NoRequest
  /\ dest = <<>>
  /\ copied = 0
  /\ answer = NoAnswer

----------------------------------------------------------------------------
(* The window. *)

\* The chunks cs leave the window. The worker skips one it has not begun to read;
\* the others have no owner left.
Cancelled(cs) ==
  [c \in Ids |-> CASE c \notin cs -> chunk[c]
                   [] c \in cs /\ c = job -> [chunk[c] EXCEPT !.cancelled = TRUE]
                   [] OTHER -> Freed]

\* DropWindow()
DropWindow ==
  /\ chunk' = Cancelled(ToSet(window))
  /\ window' = <<>>

\* The first chunk the worker has yet to read, or NoChunk: NextQueued().
NextQueued ==
  LET queued == {i \in DOMAIN window : chunk[window[i]].state = "Queued"}
  IN  IF queued = {} THEN NoChunk ELSE window[CHOOSE i \in queued : \A j \in queued : i <= j]

\* The chunk of the window that holds address pos, or NoChunk.
Holding(pos) ==
  LET found == {i \in DOMAIN window : chunk[window[i]].addr <= pos /\ pos < End(window[i])}
  IN  IF found = {} THEN NoChunk ELSE window[CHOOSE i \in found : \A j \in found : i <= j]

RoundUp(n) == ((n + Alignment - 1) \div Alignment) * Alignment

Least(a, b) == IF a <= b THEN a ELSE b
Greatest(a, b) == IF a <= b THEN b ELSE a

\* ChunkSize(), when the last read was of size bytes; chunk_bytes_ is rounded up
\* by the constructor.
ChunkSize(size) ==
  LET configured == RoundUp(Least(Greatest(ChunkBytes, 1), MaxChunkBytes))
  IN  RoundUp(Least(Greatest(configured, size), MaxChunkBytes))

\* TrimWindow(): how many leading chunks end at or before address end.
Trimmed(end) ==
  Cardinality({i \in DOMAIN window : \A j \in 1..i : End(window[j]) <= end})

\* A fault: the floor is not looked at.
AboveFloorFault(next) == TRUE

\* A chunk does not start at or before a place that failed.
AboveFloor(next) == next >= prefetch_floor

\* Past LLONG_MAX there is no address to read at.
Addressable(next, size) == size <= AddrMax - next

\* Identities for n new chunks, when the window keeps the chunks cs.
Fresh(n, cs) ==
  CHOOSE s \in [1..n -> Ids \ (cs \cup {job})] : \A i, j \in 1..n : s[i] = s[j] => i = j

NewChunk(addr, size) ==
  [addr |-> addr, size |-> size, state |-> "Queued", cancelled |-> FALSE,
   data |-> [i \in 0..(size - 1) |-> Garbage]]

\* A fault: the worker is not told of the chunks queued.
NotifiedFault == IF worker = "absent" THEN "ready" ELSE worker

\* The worker once chunks are queued: it is started on first use, or woken by
\* work_.notify_one(). It is the only one that waits on work_.
Notified == IF worker \in {"absent", "asleep"} THEN "ready" ELSE worker

\* Where the i-th of the chunks queued from address first on starts.
StartOf(i, first, bytes) == first + (i - 1) * bytes

\* n chunks are queued after the ones kept.
QueueChunks(n, kept, left, first, bytes) ==
  LET ids == Fresh(n, ToSet(kept))
      made == [c \in ToSet(ids) |-> CHOOSE i \in 1..n : ids[i] = c]
  IN  /\ window' = kept \o ids
      /\ chunk' = [c \in Ids |-> IF c \in ToSet(ids)
                                THEN NewChunk(StartOf(made[c], first, bytes), bytes)
                                ELSE left[c]]
      /\ worker' = Notified

\* TopUp(): chunks of that many bytes are queued from address first on, until the
\* window is full, an address does not fit, the worker cannot be started or a
\* buffer cannot be had.
TopUp(kept, left, first, bytes) ==
  LET fitting == {n \in 1..(WindowChunks - Len(kept)) :
                    \A i \in 1..n : /\ AboveFloor(StartOf(i, first, bytes))
                                    /\ Addressable(StartOf(i, first, bytes), bytes)}
  IN  \/ \E n \in fitting : QueueChunks(n, kept, left, first, bytes)
      \* Nothing is queued; EnsureWorker() may have started the worker first.
      \/ /\ window' = kept
         /\ chunk' = left
         /\ worker' \in IF worker = "absent" /\ fitting # {}
                       THEN {"absent", "ready"} ELSE {worker}

\* TrimWindow() then TopUp(), after a forward read of size bytes that ends at end.
TrimAndTopUp(end, size) ==
  LET trimmed == Trimmed(end)
      kept == SubSeq(window, trimmed + 1, Len(window))
  IN  TopUp(kept, Cancelled({window[i] : i \in 1..trimmed}),
            IF kept = <<>> THEN end ELSE End(Last(kept)), ChunkSize(size))

----------------------------------------------------------------------------
(* WorkerMain() and ReadChunk(). *)

\* The predicate of work_.wait() and what follows it, under mutex_.
WorkerCheck ==
  /\ worker = "ready"
  /\ ~HoldsMutex
  /\ \/ /\ stop
        /\ worker' = "exited"
        /\ UNCHANGED <<chunk, job>>
     \/ /\ ~stop
        /\ NextQueued # NoChunk
        /\ worker' = "want_inner"
        /\ job' = NextQueued
        /\ chunk' = [chunk EXCEPT ![NextQueued].state = "Reading"]
     \/ /\ ~stop
        /\ NextQueued = NoChunk
        /\ worker' = "asleep"
        /\ UNCHANGED <<chunk, job>>
  /\ UNCHANGED <<medium, inner, window, has_last, last_end, last_size, prefetch_floor,
                 stop, job_ok, caller, callVars>>

WorkerSpurious ==
  /\ worker = "asleep"
  /\ worker' = "ready"
  /\ UNCHANGED <<medium, inner, windowVars, stop, job, job_ok, caller, callVars>>

\* A fault: a chunk dropped in the meantime is read all the same.
SkippedFault == FALSE

\* Dropped while the worker waited for the wrapped reader.
Skipped == chunk[job].cancelled

\* The worker takes inner_mutex_.
WorkerEnters ==
  /\ worker = "want_inner"
  /\ inner = "free"
  /\ \/ /\ Skipped
        /\ worker' = "record"
        /\ job_ok' = FALSE
        /\ UNCHANGED inner
     \/ /\ ~Skipped
        /\ worker' = "reading"
        /\ inner' = "worker"
        /\ UNCHANGED job_ok
  /\ UNCHANGED <<medium, windowVars, stop, job, caller, callVars>>

\* The wrapped reader returns to the worker. A read ahead may also fail where the
\* medium is good (no memory, an exception); the bytes are then whatever they are.
WorkerReads ==
  LET r == [start |-> chunk[job].addr, len |-> chunk[job].size]
  IN  /\ worker = "reading"
      /\ \/ /\ Disk!Readable(medium, r)
            /\ job_ok' = TRUE
            /\ chunk' = [chunk EXCEPT ![job].data = Disk!Bytes(medium, r)]
         \/ /\ job_ok' = FALSE
            /\ UNCHANGED chunk
      /\ inner' = "free"
      /\ worker' = "record"
      /\ UNCHANGED <<medium, window, has_last, last_end, last_size, prefetch_floor,
                     stop, job, caller, callVars>>

\* The worker takes mutex_ back, records the outcome and wakes the caller.
WorkerRecords ==
  /\ worker = "record"
  /\ ~HoldsMutex
  /\ chunk' = [chunk EXCEPT ![job] =
                 IF job \notin ToSet(window) THEN Freed
                 ELSE [@ EXCEPT !.state = IF job_ok THEN "Ready" ELSE "Failed"]]
  /\ caller' = IF caller = "asleep" THEN "woken" ELSE caller
  /\ worker' = "ready"
  /\ job' = NoChunk
  /\ UNCHANGED <<medium, inner, window, has_last, last_end, last_size, prefetch_floor,
                 stop, job_ok, callVars>>

----------------------------------------------------------------------------
(* ReadInto(), on the caller's thread. *)

\* Nothing to stream: the wrapped reader judges such a request.
NotStreamed(r) == r.len = 0 \/ r.start < 0 \/ r.len > AddrMax - r.start

CallReadInto ==
  /\ caller = "idle"
  /\ \E r \in Requests :
       /\ request' = r
       /\ dest' = [i \in 0..(r.len - 1) |-> Garbage]
       /\ caller' = IF NotStreamed(r) THEN "want_direct" ELSE "serve"
  /\ copied' = 0
  /\ answer' = NoAnswer
  /\ UNCHANGED <<medium, inner, windowVars, stop, workerVars>>

\* Where the next byte to serve is.
Pos == request.start + copied
Wanted == Holding(Pos)

\* ServeFromWindow() has no more to serve.
ServeEnds ==
  /\ caller = "serve"
  /\ copied = request.len \/ Wanted = NoChunk
  /\ caller' = "served"
  /\ UNCHANGED <<medium, inner, windowVars, stop, workerVars, callVars>>

\* The predicate of done_.wait().
Answered(c) == chunk[c].state \in {"Ready", "Failed"}

\* The wanted chunk is still in flight: done_.wait() releases mutex_.
ServeWaits ==
  /\ \/ caller = "serve" /\ copied < request.len
     \/ caller = "woken"
  /\ Wanted # NoChunk
  /\ ~Answered(Wanted)
  /\ caller' = "asleep"
  /\ UNCHANGED <<medium, inner, windowVars, stop, workerVars, callVars>>

ServeSpurious ==
  /\ caller = "asleep"
  /\ caller' = "woken"
  /\ UNCHANGED <<medium, inner, windowVars, stop, workerVars, callVars>>

\* A fault: the rest of the chunk is copied whatever was asked for.
CopyCountFault(offset) == chunk[Wanted].size - offset

\* How many bytes the wanted chunk serves, from offset on.
CopyCount(offset) == Least(request.len - copied, chunk[Wanted].size - offset)

\* The leading bytes of the wanted chunk are copied.
ServeCopies ==
  /\ \/ caller = "serve" /\ copied < request.len
     \/ caller = "woken"
  /\ Wanted # NoChunk
  /\ Answered(Wanted)
  /\ chunk[Wanted].state # "Failed"
  /\ LET offset == Pos - chunk[Wanted].addr
         count == CopyCount(offset)
     IN  /\ dest' = [i \in DOMAIN dest |->
                       IF copied <= i /\ i < copied + count
                       THEN chunk[Wanted].data[offset + i - copied] ELSE dest[i]]
         /\ copied' = copied + count
  /\ caller' = "serve"
  /\ UNCHANGED <<medium, inner, windowVars, stop, workerVars, request, answer>>

\* The wanted chunk could not be read: nothing starts before its end any more.
ServeDrops ==
  /\ \/ caller = "serve" /\ copied < request.len
     \/ caller = "woken"
  /\ Wanted # NoChunk
  /\ chunk[Wanted].state = "Failed"
  /\ prefetch_floor' = End(Wanted)
  /\ DropWindow
  /\ caller' = "served"
  /\ UNCHANGED <<medium, inner, has_last, last_end, last_size, stop, workerVars, callVars>>

\* What is left goes to the wrapped reader, without mutex_. A read the window
\* cannot serve at all makes it useless.
ServedGoesOn ==
  /\ caller = "served"
  /\ \/ /\ copied = request.len
        /\ caller' = "complete"
        /\ UNCHANGED <<chunk, window>>
     \/ /\ copied < request.len
        /\ copied > 0
        /\ caller' = "want_inner"
        /\ UNCHANGED <<chunk, window>>
     \/ /\ copied = 0
        /\ caller' = "want_inner"
        /\ DropWindow
  /\ UNCHANGED <<medium, inner, has_last, last_end, last_size, prefetch_floor,
                 stop, workerVars, callVars>>

\* DirectRead(): the caller takes inner_mutex_.
DirectEnters ==
  /\ inner = "free"
  /\ \/ caller = "want_inner" /\ caller' = "direct"
     \/ caller = "want_direct" /\ caller' = "direct_only"
  /\ inner' = "caller"
  /\ UNCHANGED <<medium, windowVars, stop, workerVars, callVars>>

\* A fault: the whole request is read at the address of what is left of it.
RestFault == [start |-> request.start, len |-> request.len - copied]

\* What the window did not serve.
Rest == [start |-> Pos, len |-> request.len - copied]

Filled == [i \in DOMAIN dest |-> IF i < copied THEN dest[i]
                                 ELSE Disk!Bytes(medium, Rest)[i - copied]]

\* ReadInto() returns ok, and the caller has its buffer back.
Returns(ok, bytes) ==
  /\ answer' = IF ok THEN [ok |-> TRUE, bytes |-> bytes] ELSE Disk!Failure
  /\ request' = Disk!NoRequest
  /\ dest' = <<>>
  /\ copied' = 0
  /\ caller' = "idle"

\* The wrapped reader returns to the caller. One that throws leaves ReadInto()
\* at once, with mutex_ released.
DirectReads ==
  /\ caller = "direct"
  /\ inner' = "free"
  /\ \/ /\ Disk!Readable(medium, Rest)
        /\ dest' = Filled
        /\ caller' = "relock_ok"
        /\ UNCHANGED <<request, copied, answer>>
     \/ /\ ~Disk!Readable(medium, Rest)
        /\ \/ caller' = "relock_failed" /\ UNCHANGED callVars
           \/ Returns(FALSE, dest)
  /\ UNCHANGED <<medium, windowVars, stop, workerVars>>

DirectOnlyReads ==
  /\ caller = "direct_only"
  /\ inner' = "free"
  /\ IF Disk!Readable(medium, Rest) THEN Returns(TRUE, Filled) ELSE Returns(FALSE, dest)
  /\ UNCHANGED <<medium, windowVars, stop, workerVars>>

\* mutex_ is taken back after a direct read that failed.
ReadFails ==
  /\ caller = "relock_failed"
  /\ DropWindow
  /\ has_last' = FALSE
  /\ Returns(FALSE, dest)
  /\ UNCHANGED <<medium, inner, last_end, last_size, prefetch_floor, stop, workerVars>>

\* The read is complete: when it went forward, the window moves with it.
ReadCompletes ==
  LET end == request.start + request.len
      forward == copied > 0 \/ (has_last /\ request.start = last_end)
  IN  /\ caller \in {"complete", "relock_ok"}
      /\ has_last' = TRUE
      /\ last_end' = end
      /\ last_size' = request.len
      /\ \/ forward /\ TrimAndTopUp(end, request.len)
         \/ ~forward /\ UNCHANGED <<chunk, window, worker>>
      /\ Returns(TRUE, dest)
      /\ UNCHANGED <<medium, inner, prefetch_floor, stop, job, job_ok>>

----------------------------------------------------------------------------
(* Open(), the hints and the destructor. *)

\* A fault: what was read ahead of the medium before is kept.
ForgetFault == UNCHANGED <<chunk, window>>

Forget == DropWindow

\* Open() forgets the window under mutex_, then opens under inner_mutex_.
CallOpen ==
  /\ caller = "idle"
  /\ Forget
  /\ has_last' = FALSE
  /\ prefetch_floor' = 0
  /\ caller' = "want_open"
  /\ answer' = NoAnswer
  /\ UNCHANGED <<medium, inner, last_end, last_size, stop, workerVars, request, dest, copied>>

OpenInner ==
  /\ caller = "want_open"
  /\ inner = "free"
  /\ medium' \in Media \cup {NoMedium}
  /\ caller' = "idle"
  /\ UNCHANGED <<inner, windowVars, stop, workerVars, callVars>>

\* Prefetch(), CancelPrefetch(), PrefetchStanding(), CancelStanding(),
\* SetReadPattern(), Size() and GetMediaKind() are calls of the wrapped reader.
CallHint ==
  /\ caller = "idle"
  /\ caller' = "want_hint"
  /\ answer' = NoAnswer
  /\ UNCHANGED <<medium, inner, windowVars, stop, workerVars, request, dest, copied>>

HintPassed ==
  /\ caller = "want_hint"
  /\ inner = "free"
  /\ caller' = "idle"
  /\ UNCHANGED <<medium, inner, windowVars, stop, workerVars, callVars>>

\* ~Impl()
Destroy ==
  /\ caller = "idle"
  /\ stop' = TRUE
  /\ DropWindow
  /\ caller' = "notify_stop"
  /\ UNCHANGED <<medium, inner, has_last, last_end, last_size, prefetch_floor,
                 workerVars, callVars>>

DestroyNotifies ==
  /\ caller = "notify_stop"
  /\ worker' = IF worker = "asleep" THEN "ready" ELSE worker
  /\ caller' = "join"
  /\ UNCHANGED <<medium, inner, windowVars, stop, job, job_ok, callVars>>

DestroyJoins ==
  /\ caller = "join"
  /\ worker \in {"absent", "exited"}
  /\ caller' = "gone"
  /\ UNCHANGED <<medium, inner, windowVars, stop, workerVars, callVars>>

Gone ==
  /\ caller = "gone"
  /\ UNCHANGED vars

----------------------------------------------------------------------------

WorkerStep == WorkerCheck \/ WorkerEnters \/ WorkerReads \/ WorkerRecords

\* What the caller does once it has called.
CallerStep ==
  \/ ServeEnds
  \/ ServeWaits
  \/ ServeCopies
  \/ ServeDrops
  \/ ServedGoesOn
  \/ DirectEnters
  \/ DirectReads
  \/ DirectOnlyReads
  \/ ReadFails
  \/ ReadCompletes
  \/ OpenInner
  \/ HintPassed
  \/ DestroyNotifies
  \/ DestroyJoins

Next ==
  \/ WorkerStep
  \/ CallerStep
  \/ WorkerSpurious
  \/ ServeSpurious
  \/ CallReadInto
  \/ CallOpen
  \/ CallHint
  \/ Destroy
  \/ Gone

Spec == Init /\ [][Next]_vars

\* Both threads are scheduled, the wrapped reader returns, and a lock that stays
\* free is obtained. Nothing makes the caller call.
Fairness == WF_vars(WorkerStep) /\ WF_vars(CallerStep)

FairSpec == Spec /\ Fairness
----------------------------------------------------------------------------
(* Properties. *)

\* The type of the state.
TypeOK ==
  /\ medium \in Media \cup {NoMedium}
  /\ inner \in {"free", "worker", "caller"}
  /\ \A c \in Ids : /\ chunk[c].addr \in Nat
                    /\ chunk[c].size \in Nat
                    /\ chunk[c].state \in ChunkStates
                    /\ chunk[c].cancelled \in BOOLEAN
  /\ window \in Seq(Ids)
  /\ stop \in BOOLEAN
  /\ has_last \in BOOLEAN
  /\ last_end \in 0..AddrMax
  /\ last_size \in Nat
  /\ prefetch_floor \in 0..AddrMax
  /\ worker \in WorkerStates
  /\ job \in Ids \cup {NoChunk}
  /\ job_ok \in BOOLEAN
  /\ caller \in CallerStates
  /\ request \in [start : Int, len : Nat]
  /\ copied \in 0..request.len

\* "The chunks read ahead, in address order, each one starting where the previous
\* ends": never more than the window holds, none past the largest address, and
\* none that was dropped.
WindowShape ==
  /\ Len(window) <= WindowChunks
  /\ \A i \in DOMAIN window :
       /\ chunk[window[i]].size > 0
       /\ End(window[i]) <= AddrMax
       /\ ~chunk[window[i]].cancelled
       /\ i > 1 => chunk[window[i]].addr = End(window[i - 1])

\* What is served from the window is what the open medium has there, even when
\* Open() comes while the worker is inside the wrapped reader.
ReadyIsCurrent ==
  \A i \in DOMAIN window :
    chunk[window[i]].state = "Ready" =>
      chunk[window[i]].data =
        Disk!Bytes(medium, [start |-> chunk[window[i]].addr, len |-> chunk[window[i]].size])

\* What the window holds is in its place and of the open medium.
WindowIsSound == WindowShape /\ ReadyIsCurrent

\* A chunk that was queued is not left behind: the worker sleeps, or does not
\* exist, only when the window has nothing for it.
NothingForgotten == worker \in {"absent", "asleep"} => NextQueued = NoChunk

\* "A chunk the worker has not begun is never read" once it is dropped: the
\* worker enters the wrapped reader for a chunk of the window only.
DroppedNotRead ==
  worker = "want_inner" /\ worker' = "reading" => job \in ToSet(window)

\* The caller came to a chunk that could not be read.
MeetsBadPlace ==
  /\ caller \in {"serve", "woken"}
  /\ copied < request.len
  /\ Wanted # NoChunk
  /\ chunk[Wanted].state = "Failed"

\* "A bad place is not read ahead again": the caller leaves a chunk that failed with
\* the floor at its end or above, the floor falls at the next Open() only, and the
\* worker enters the wrapped reader for no chunk that starts below it.
BadPlaceNotRetried ==
  /\ MeetsBadPlace /\ caller' = "served" => prefetch_floor' >= End(Wanted)
  /\ prefetch_floor' >= prefetch_floor \/ caller' = "want_open"
  /\ worker = "want_inner" /\ worker' = "reading" => chunk[job].addr >= prefetch_floor

\* The worker reads nothing that was dropped, and nothing that failed, again.
NoReadInVain == [][DroppedNotRead /\ BadPlaceNotRetried]_vars

\* The decorator answers as the wrapped reader would: the same bytes, and a
\* failure exactly where the medium cannot be read.
ImplementsDisk == Disk!Spec

\* A call returns, and the destructor joins the worker.
CallsReturn == caller # "idle" ~> caller \in {"idle", "gone"}
=============================================================================
