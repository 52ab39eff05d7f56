----------------------------- MODULE ChunkPool -----------------------------
(***************************************************************************)
(* Util::ChunkPool (src/util/chunk-pool.h, chunk-pool.cpp): a few helper   *)
(* threads and the thread that owns the pool run the numbered chunks of    *)
(* one batch after the other.                                              *)
(*                                                                         *)
(* Every step below is what one thread does while it holds mutex_, so the  *)
(* lock needs no variable. A thread that has released it is either asleep  *)
(* on a condition variable or runs the work function of a chunk ("run").   *)
(* notify_all() moves the sleepers to the state in which they contend for  *)
(* the lock again ("ready"), so a wake-up sent to nobody is really lost.   *)
(***************************************************************************)
EXTENDS Naturals, FiniteSets, Sequences

CONSTANTS
  Helpers,     \* the pool threads asked for
  Owner,       \* the thread that calls Start, WaitFor and Finish
  NoChunk,     \* the chunk of a thread that runs none; no exception
  MaxChunks,   \* bound: chunks of one batch
  MaxBatches   \* bound: batches of one pool

ASSUME PoolAssumption ==
  /\ IsFiniteSet(Helpers)
  /\ Owner \notin Helpers
  /\ MaxChunks \in Nat
  /\ MaxBatches \in Nat
  /\ NoChunk \notin Nat

VARIABLES
  chunk_count,   \* chunks of the batch
  next_chunk,    \* the next one to start
  done,          \* the chunks recorded as done
  running,       \* chunks started and not done
  error,         \* the chunk whose exception is kept, or NoChunk
  stopping,      \* the destructor asked the helpers to end
  helper,        \* where each helper is
  owner,         \* where the owner is
  target,        \* the chunk WaitFor() waits for
  destroying,    \* the owner is in the destructor
  over,          \* no batch is in progress, as the owner sees it
  job,           \* the chunk each thread runs
  batches,       \* batches started
  threw,         \* the chunks of the batch that threw, in that order
  rethrown       \* what the owner was thrown in this batch, and by which call

shared == <<chunk_count, next_chunk, done, running, error, stopping>>
history == <<batches, threw, rethrown>>
vars == <<shared, helper, owner, target, destroying, over, job, history>>

Threads == Helpers \cup {Owner}
Chunks == 0..(MaxChunks - 1)
HelperStates == {"absent", "ready", "asleep", "run", "exited"}
\* "notify_start" and "notify_stop": the lock is released and notify_all() of
\* work_ready_ is still to come.
OwnerStates == {"idle", "notify_start", "wait", "wait_asleep", "wait_run",
                "finish", "finish_asleep", "stop", "notify_stop", "join", "gone"}
Calls == {"WaitFor", "Finish"}

Init ==
  /\ chunk_count = 0
  /\ next_chunk = 0
  /\ done = {}
  /\ running = 0
  /\ error = NoChunk
  /\ stopping = FALSE
  \* A thread that cannot be started is left out.
  /\ helper \in [Helpers -> {"absent", "ready"}]
  /\ owner = "idle"
  /\ target = NoChunk
  /\ destroying = FALSE
  /\ over = TRUE
  /\ job = [t \in Threads |-> NoChunk]
  /\ batches = 0
  /\ threw = <<>>
  /\ rethrown = <<>>

----------------------------------------------------------------------------
(* Condition variables. *)

\* work_ready_.notify_all()
WakeHelpers ==
  helper' = [h \in Helpers |-> IF helper[h] = "asleep" THEN "ready" ELSE helper[h]]

\* A fault: the notification after a chunk is forgotten.
WokenFault(s) == s

\* chunk_done_.notify_all(): only the owner ever waits on it. s is the state of
\* the owner in the same step.
Woken(s) ==
  CASE s = "wait_asleep"   -> "wait"
    [] s = "finish_asleep" -> "finish"
    [] OTHER               -> s

\* A wait may also return without any notification.
SpuriousWakeup ==
  \/ \E h \in Helpers :
       /\ helper[h] = "asleep"
       /\ helper' = [helper EXCEPT ![h] = "ready"]
       /\ UNCHANGED <<shared, owner, target, destroying, over, job, history>>
  \/ /\ owner \in {"wait_asleep", "finish_asleep"}
     /\ owner' = Woken(owner)
     /\ UNCHANGED <<shared, helper, target, destroying, over, job, history>>

----------------------------------------------------------------------------
(* Running a chunk. *)

\* A fault: a chunk past the last is taken.
UnstartedFault == next_chunk <= chunk_count

\* Whether a chunk is left that no thread has taken.
Unstarted == next_chunk < chunk_count

\* A fault: the chunk taken is left to be taken again.
TakeNextFault(t) ==
  /\ job' = [job EXCEPT ![t] = next_chunk]
  /\ next_chunk' = next_chunk
  /\ running' = running + 1
  /\ UNCHANGED <<chunk_count, done, error, stopping>>

\* The part of RunChunk() before the lock is released: t starts the next chunk.
TakeNext(t) ==
  /\ job' = [job EXCEPT ![t] = next_chunk]
  /\ next_chunk' = next_chunk + 1
  /\ running' = running + 1
  /\ UNCHANGED <<chunk_count, done, error, stopping>>

\* A fault: the last exception replaces the first.
KeptErrorFault(t, failed) == IF failed THEN job[t] ELSE error

\* The first exception of the batch is the one kept.
KeptError(t, failed) == IF failed /\ error = NoChunk THEN job[t] ELSE error

\* The part of RunChunk() after the lock is taken back: t records what became
\* of its chunk, which threw when failed is set.
RecordDone(t, failed) ==
  /\ running' = running - 1
  /\ error' = KeptError(t, failed)
  /\ done' = done \cup {job[t]}
  /\ threw' = IF failed THEN Append(threw, job[t]) ELSE threw
  /\ job' = [job EXCEPT ![t] = NoChunk]
  /\ UNCHANGED <<chunk_count, next_chunk, stopping, batches, rethrown>>

----------------------------------------------------------------------------
(* RunHelper(): the loop of a pool thread. *)

HelperCheck(h) ==
  /\ helper[h] = "ready"
  /\ \/ /\ stopping
        /\ helper' = [helper EXCEPT ![h] = "exited"]
        /\ UNCHANGED <<shared, job>>
     \/ /\ ~stopping
        /\ Unstarted
        /\ helper' = [helper EXCEPT ![h] = "run"]
        /\ TakeNext(h)
     \/ /\ ~stopping
        /\ ~Unstarted
        /\ helper' = [helper EXCEPT ![h] = "asleep"]
        /\ UNCHANGED <<shared, job>>
  /\ UNCHANGED <<owner, target, destroying, over, history>>

HelperDone(h) ==
  /\ helper[h] = "run"
  /\ \E failed \in BOOLEAN : RecordDone(h, failed)
  /\ helper' = [helper EXCEPT ![h] = "ready"]
  /\ owner' = Woken(owner)
  /\ UNCHANGED <<target, destroying, over>>

----------------------------------------------------------------------------
(* The calls of the owner. *)

\* Start(): the previous batch is over.
Start ==
  /\ owner = "idle"
  /\ over
  /\ batches < MaxBatches
  /\ chunk_count' \in 0..MaxChunks
  /\ next_chunk' = 0
  /\ done' = {}
  /\ running' = 0
  /\ error' = NoChunk
  /\ over' = FALSE
  /\ owner' = "notify_start"
  /\ batches' = batches + 1
  /\ threw' = <<>>
  /\ rethrown' = <<>>
  /\ UNCHANGED <<stopping, helper, target, destroying, job>>

StartNotify ==
  /\ owner = "notify_start"
  /\ WakeHelpers
  /\ owner' = "idle"
  /\ UNCHANGED <<shared, target, destroying, over, job, history>>

\* WaitFor(chunk), of any chunk of the batch.
WaitFor ==
  /\ owner = "idle"
  /\ ~over
  /\ \E c \in Chunks : c < chunk_count /\ target' = c
  /\ owner' = "wait"
  /\ UNCHANGED <<shared, helper, destroying, over, job, history>>

\* RethrowError(): the owner leaves the call for state next, with the kept
\* exception if there is one.
Rethrow(call, next) ==
  /\ rethrown' = IF error = NoChunk THEN rethrown
                 ELSE Append(rethrown, [call |-> call, chunk |-> error])
  /\ error' = NoChunk
  /\ owner' = next
  /\ UNCHANGED <<chunk_count, next_chunk, done, running, stopping, batches, threw>>

WaitForReturns ==
  /\ owner = "wait"
  /\ target \in done \/ error # NoChunk
  /\ Rethrow("WaitFor", "idle")
  /\ target' = NoChunk
  /\ UNCHANGED <<helper, destroying, over, job>>

\* The owner runs a chunk no thread has taken, or sleeps until one is done.
WaitForHelps ==
  /\ owner = "wait"
  /\ target \notin done
  /\ error = NoChunk
  /\ \/ /\ Unstarted
        /\ owner' = "wait_run"
        /\ TakeNext(Owner)
     \/ /\ ~Unstarted
        /\ owner' = "wait_asleep"
        /\ UNCHANGED <<shared, job>>
  /\ UNCHANGED <<helper, target, destroying, over, history>>

OwnerDone ==
  /\ owner = "wait_run"
  /\ \E failed \in BOOLEAN : RecordDone(Owner, failed)
  /\ owner' = "wait"
  /\ UNCHANGED <<helper, target, destroying, over>>

\* A fault: Finish() leaves the chunks nobody started to the helpers.
FirstDroppedFault == next_chunk

\* Finish() moves next_chunk_ past the chunks nobody started.
FirstDropped == chunk_count

\* A fault: Finish() does not wait for the chunks that run.
AllRecordedFault == TRUE

\* The predicate of Finish(): every chunk that was started is done.
AllRecorded == running = 0

\* Finish() drops the chunks nobody started, then waits for the others. The
\* predicate of its wait is evaluated before it sleeps and after each wake-up.
FinishBegins ==
  /\ next_chunk' = FirstDropped
  /\ owner' = "finish"
  /\ UNCHANGED <<chunk_count, done, running, error, stopping,
                 helper, target, over, job, history>>

Finish ==
  /\ owner = "idle"
  /\ ~over
  /\ FinishBegins
  /\ UNCHANGED destroying

FinishWaits ==
  /\ owner = "finish"
  /\ ~AllRecorded
  /\ owner' = "finish_asleep"
  /\ UNCHANGED <<shared, helper, target, destroying, over, job, history>>

FinishReturns ==
  /\ owner = "finish"
  /\ AllRecorded
  /\ Rethrow("Finish", IF destroying THEN "stop" ELSE "idle")
  /\ over' = TRUE
  /\ UNCHANGED <<helper, target, destroying, job>>

\* The destructor: Finish() without its exception, then the helpers are told to
\* end and joined.
Destroy ==
  /\ owner = "idle"
  /\ FinishBegins
  /\ destroying' = TRUE

DestroyStops ==
  /\ owner = "stop"
  /\ stopping' = TRUE
  /\ owner' = "notify_stop"
  /\ UNCHANGED <<chunk_count, next_chunk, done, running, error,
                 helper, target, destroying, over, job, history>>

DestroyNotify ==
  /\ owner = "notify_stop"
  /\ WakeHelpers
  /\ owner' = "join"
  /\ UNCHANGED <<shared, target, destroying, over, job, history>>

DestroyJoins ==
  /\ owner = "join"
  /\ \A h \in Helpers : helper[h] \in {"absent", "exited"}
  /\ owner' = "gone"
  /\ UNCHANGED <<shared, helper, target, destroying, over, job, history>>

\* The pool is gone: nothing is left to do.
Gone ==
  /\ owner = "gone"
  /\ UNCHANGED vars

HelperStep(h) == HelperCheck(h) \/ HelperDone(h)

\* What the owner does once it has called: no choice is left to the caller.
OwnerStep ==
  \/ StartNotify
  \/ WaitForReturns
  \/ WaitForHelps
  \/ OwnerDone
  \/ FinishWaits
  \/ FinishReturns
  \/ DestroyStops
  \/ DestroyNotify
  \/ DestroyJoins

Next ==
  \/ \E h \in Helpers : HelperStep(h)
  \/ OwnerStep
  \/ Start
  \/ WaitFor
  \/ Finish
  \/ Destroy
  \/ SpuriousWakeup
  \/ Gone

Spec == Init /\ [][Next]_vars

\* The system schedules every thread that can run, the work of a chunk ends, and
\* a call that the owner has made goes on. Nothing makes the owner call.
Fairness ==
  /\ \A h \in Helpers : WF_vars(HelperStep(h))
  /\ WF_vars(OwnerStep)

FairSpec == Spec /\ Fairness
----------------------------------------------------------------------------
(* Properties. *)

\* The type of the state.
TypeOK ==
  /\ chunk_count \in 0..MaxChunks
  /\ next_chunk \in 0..MaxChunks
  /\ done \subseteq Chunks
  /\ running \in Nat
  /\ error \in Chunks \cup {NoChunk}
  /\ stopping \in BOOLEAN
  /\ helper \in [Helpers -> HelperStates]
  /\ owner \in OwnerStates
  /\ target \in Chunks \cup {NoChunk}
  /\ destroying \in BOOLEAN
  /\ over \in BOOLEAN
  /\ job \in [Threads -> Chunks \cup {NoChunk}]
  /\ batches \in 0..MaxBatches
  /\ threw \in Seq(Chunks)
  /\ rethrown \in Seq([call : Calls, chunk : Chunks])

\* The threads that run a chunk.
Executing == {t \in Threads : job[t] # NoChunk}

\* running_, which Finish() waits on, is the number of threads that really are
\* inside a work function: Start() resets it to 0 without looking at them.
RunningIsExact == running = Cardinality(Executing)

\* Once Finish() has returned or thrown, and until the next Start(), no thread
\* is inside a work function: the owner may overwrite what the chunks read.
QuietBetweenBatches == over => Executing = {}

\* No two threads run the same chunk, and none runs a chunk that is done: a
\* chunk of a batch runs at most once, on one slot.
ChunksRunOnce ==
  /\ \A t \in Executing : job[t] \notin done /\ job[t] < next_chunk
  /\ \A t, u \in Executing : job[t] = job[u] => t = u

\* An exception is not lost, and the one reported first is the one thrown first:
\* when the batch is over and a chunk threw, the owner was thrown that one.
FirstErrorReported ==
  over /\ threw # <<>> => rethrown # <<>> /\ rethrown[1].chunk = threw[1]

\* "Rethrows the first exception a chunk threw, if WaitFor() did not": Finish()
\* throws nothing when a WaitFor() of the batch has thrown. The code does not keep
\* this (README, Findings).
FinishSilentAfterWaitFor ==
  \A i, j \in DOMAIN rethrown :
    ~(rethrown[i].call = "WaitFor" /\ rethrown[j].call = "Finish")

\* The pool keeps the promises of BatchContract.
Contract == INSTANCE BatchContract WITH
  open <- ~over,
  count <- chunk_count,
  next <- next_chunk,
  active <- {job[t] : t \in Executing},
  finished <- done

ImplementsContract == Contract!Spec

\* A call returns: no wake-up of the helpers or of the owner is lost, whatever
\* the order in which the threads take the lock, and the destructor joins.
CallsReturn == owner # "idle" ~> owner \in {"idle", "gone"}
=============================================================================
