-------------------------- MODULE ChunkPoolProofs --------------------------
(***************************************************************************)
(* Proofs about ChunkPool, for any finite number of helpers, any length of *)
(* a batch and any number of batches.                                      *)
(*                                                                         *)
(* The invariant the proofs rest on ties three views of a batch together:  *)
(* what the threads do (helper, owner, job), what the shared counters say  *)
(* (running, next_chunk, done), and what the owner believes (over).        *)
(***************************************************************************)
EXTENDS ChunkPool, FiniteSetTheorems, TLAPS

\* A thread runs a chunk exactly when its state says so.
StatesMatchJobs ==
  /\ \A h \in Helpers : helper[h] = "run" <=> job[h] # NoChunk
  /\ owner = "wait_run" <=> job[Owner] # NoChunk

\* The chunks that were started are those below next_chunk, and no more than
\* the batch has: the done ones and those that run.
StartedChunks ==
  /\ next_chunk <= chunk_count
  /\ \A c \in done : c < next_chunk

\* When the owner is in, or past, Finish(), no chunk can be started.
NoneLeftToStart ==
  over \/ owner \in {"finish", "finish_asleep"} => next_chunk = chunk_count

\* Where the owner is tells whether its batch is over.
OwnerKnows ==
  /\ owner \in {"notify_start", "wait", "wait_asleep", "wait_run"} => ~over
  /\ owner \in {"stop", "notify_stop", "join", "gone"} => over
  /\ owner \in {"wait", "wait_asleep", "wait_run"} => target \in Chunks

\* The kept exception is the first one as long as none was rethrown.
ErrorsInOrder ==
  /\ error # NoChunk => threw # <<>>
  /\ threw # <<>> /\ rethrown = <<>> => error = threw[1]
  /\ rethrown # <<>> => threw # <<>> /\ rethrown[1].chunk = threw[1]

IInv ==
  /\ TypeOK
  /\ StatesMatchJobs
  /\ StartedChunks
  /\ NoneLeftToStart
  /\ OwnerKnows
  /\ RunningIsExact
  /\ QuietBetweenBatches
  /\ ChunksRunOnce
  /\ ErrorsInOrder
  /\ FirstErrorReported
----------------------------------------------------------------------------
(* Facts about the threads that run a chunk. *)

\* The pool has finitely many threads.
LEMMA ThreadsFinite == IsFiniteSet(Threads)
  BY PoolAssumption, FS_AddElement DEF Threads

\* So those that run a chunk can be counted.
LEMMA ExecutingFinite == IsFiniteSet(Executing) /\ Cardinality(Executing) \in Nat
<1>1. Executing \subseteq Threads
  BY DEF Executing
<1>2. IsFiniteSet(Executing)
  BY <1>1, ThreadsFinite, FS_Subset
<1> QED
  BY <1>2, FS_CardinalityType

\* A thread that starts a chunk joins those that run one, and running follows.
LEMMA TakeNextCounts ==
  ASSUME TypeOK, RunningIsExact, NEW t \in Threads, job[t] = NoChunk,
         Unstarted, TakeNext(t)
  PROVE  /\ Executing' = Executing \cup {t}
         /\ RunningIsExact'
         /\ job' \in [Threads -> Chunks \cup {NoChunk}]
         /\ job'[t] = next_chunk
         /\ \A u \in Threads \ {t} : job'[u] = job[u]
         /\ next_chunk \in Chunks
<1>1. next_chunk \in Chunks /\ next_chunk # NoChunk
  BY PoolAssumption DEF TypeOK, Unstarted, Chunks
<1>2. /\ job' \in [Threads -> Chunks \cup {NoChunk}]
      /\ job'[t] = next_chunk
      /\ \A u \in Threads \ {t} : job'[u] = job[u]
  BY <1>1 DEF TypeOK, TakeNext
<1>3. Executing' = Executing \cup {t}
  BY <1>1, <1>2 DEF Executing
<1>4. t \notin Executing
  BY DEF Executing
<1>5. Cardinality(Executing \cup {t}) = Cardinality(Executing) + 1
  BY <1>4, ExecutingFinite, FS_AddElement
<1>6. RunningIsExact'
  BY <1>3, <1>5 DEF RunningIsExact, TakeNext
<1> QED
  BY <1>1, <1>2, <1>3, <1>6

\* A thread that records its chunk leaves them, and running follows.
LEMMA RecordDoneCounts ==
  ASSUME TypeOK, RunningIsExact, NEW t \in Threads, job[t] # NoChunk,
         NEW failed \in BOOLEAN, RecordDone(t, failed)
  PROVE  /\ Executing' = Executing \ {t}
         /\ RunningIsExact'
         /\ running' \in Nat
         /\ job' \in [Threads -> Chunks \cup {NoChunk}]
         /\ job'[t] = NoChunk
         /\ \A u \in Threads \ {t} : job'[u] = job[u]
         /\ job[t] \in Chunks
<1>1. /\ job' \in [Threads -> Chunks \cup {NoChunk}]
      /\ job'[t] = NoChunk
      /\ \A u \in Threads \ {t} : job'[u] = job[u]
      /\ job[t] \in Chunks
  BY DEF TypeOK, RecordDone
<1>2. Executing' = Executing \ {t}
  BY <1>1 DEF Executing
<1>3. t \in Executing
  BY DEF Executing
<1>4. /\ Cardinality(Executing \ {t}) = Cardinality(Executing) - 1
      /\ IsFiniteSet(Executing \ {t})
  BY <1>3, ExecutingFinite, FS_RemoveElement
<1>5. Cardinality(Executing \ {t}) \in Nat
  BY <1>4, FS_CardinalityType
<1>6. running' = Cardinality(Executing \ {t})
  BY <1>4 DEF RunningIsExact, RecordDone
<1> QED
  BY <1>1, <1>2, <1>5, <1>6 DEF RunningIsExact
----------------------------------------------------------------------------
(* The inductive invariant. *)

\* The constructor leaves a pool with no batch.
LEMMA InitIInv == Init => IInv
<1> SUFFICES ASSUME Init PROVE IInv
  OBVIOUS
<1>1. TypeOK
  <2>1. threw \in Seq(Chunks) /\ rethrown \in Seq([call : Calls, chunk : Chunks])
    BY DEF Init
  <2>2. helper \in [Helpers -> HelperStates] /\ owner \in OwnerStates
    BY DEF Init, HelperStates, OwnerStates
  <2>3. job \in [Threads -> Chunks \cup {NoChunk}]
    BY DEF Init
  <2>4. stopping \in BOOLEAN /\ destroying \in BOOLEAN /\ over \in BOOLEAN
    BY Zenon DEF Init
  <2>5. /\ chunk_count \in 0..MaxChunks /\ next_chunk \in 0..MaxChunks
        /\ running \in Nat /\ batches \in 0..MaxBatches
    BY PoolAssumption DEF Init
  <2>6. /\ done \subseteq Chunks /\ error \in Chunks \cup {NoChunk}
        /\ target \in Chunks \cup {NoChunk}
    BY DEF Init
  <2> QED
    BY <2>1, <2>2, <2>3, <2>4, <2>5, <2>6 DEF TypeOK
<1>2. Executing = {}
  BY DEF Init, Executing
<1>3. RunningIsExact /\ QuietBetweenBatches /\ ChunksRunOnce
  BY <1>2, FS_EmptySet DEF Init, RunningIsExact, QuietBetweenBatches, ChunksRunOnce
<1>4. StatesMatchJobs
  BY DEF Init, StatesMatchJobs, Threads
<1>5. StartedChunks /\ NoneLeftToStart /\ OwnerKnows
  BY DEF Init, StartedChunks, NoneLeftToStart, OwnerKnows
<1>6. ErrorsInOrder /\ FirstErrorReported
  BY DEF Init, ErrorsInOrder, FirstErrorReported
<1> QED
  BY <1>1, <1>3, <1>4, <1>5, <1>6 DEF IInv

\* A step of the owner or of a wake-up that neither starts nor records a chunk
\* leaves the jobs and the counters alone.
LEMMA QuietStep ==
  ASSUME IInv, UNCHANGED <<job, running, done, next_chunk, chunk_count>>
  PROVE  /\ Executing' = Executing
         /\ RunningIsExact' /\ ChunksRunOnce' /\ StartedChunks'
  BY DEF IInv, Executing, RunningIsExact, ChunksRunOnce, StartedChunks

\* What any thread that starts a chunk preserves: helper and owner follow.
LEMMA TakeNextIInv ==
  ASSUME IInv, NEW t \in Threads, job[t] = NoChunk, Unstarted, TakeNext(t)
  PROVE  /\ ~over /\ owner \notin {"finish", "finish_asleep"}
         /\ RunningIsExact' /\ ChunksRunOnce' /\ StartedChunks'
         /\ next_chunk' \in 0..MaxChunks /\ running' \in Nat
         /\ job' \in [Threads -> Chunks \cup {NoChunk}]
         /\ job'[t] # NoChunk
         /\ \A u \in Threads \ {t} : job'[u] = job[u]
<1> USE DEF IInv
<1>1. /\ Executing' = Executing \cup {t}
      /\ RunningIsExact'
      /\ job' \in [Threads -> Chunks \cup {NoChunk}]
      /\ job'[t] = next_chunk
      /\ \A u \in Threads \ {t} : job'[u] = job[u]
      /\ next_chunk \in Chunks
  BY TakeNextCounts
<1>2. next_chunk \in Nat /\ chunk_count \in Nat
  BY DEF TypeOK
<1>3. ~over /\ owner \notin {"finish", "finish_asleep"}
  BY <1>2 DEF NoneLeftToStart, Unstarted
<1>4. StartedChunks'
  BY <1>2 DEF StartedChunks, TypeOK, TakeNext, Unstarted, Chunks
<1>5. ChunksRunOnce'
  <2>1. done' = done /\ next_chunk' = next_chunk + 1
    BY DEF TakeNext
  <2>2. \A u \in Executing : u \in Threads /\ job[u] \in Chunks /\ job[u] < next_chunk
    BY DEF Executing, TypeOK, ChunksRunOnce
  <2>3. next_chunk \notin done
    BY <1>2 DEF StartedChunks
  <2>4. \A u \in Executing : u # t /\ job'[u] = job[u]
    BY <1>1 DEF Executing
  <2> QED
    BY <1>1, <1>2, <2>1, <2>2, <2>3, <2>4 DEF ChunksRunOnce, Chunks
<1>6. next_chunk' \in 0..MaxChunks /\ running' \in Nat
  BY <1>1, PoolAssumption DEF TypeOK, TakeNext, Chunks
<1>7. job'[t] # NoChunk
  BY <1>1, PoolAssumption DEF Chunks
<1> QED
  BY <1>1, <1>3, <1>4, <1>5, <1>6, <1>7

\* A helper that takes the lock exits, sleeps, or starts the next chunk.
LEMMA HelperCheckIInv ==
  ASSUME IInv, NEW h \in Helpers, HelperCheck(h)
  PROVE  IInv'
<1> USE DEF IInv
<1>1. CASE helper' = [helper EXCEPT ![h] = "run"] /\ Unstarted /\ TakeNext(h)
  <2>1. job[h] = NoChunk /\ h \in Threads /\ h # Owner
    BY PoolAssumption DEF StatesMatchJobs, Threads, HelperCheck
  <2>2. /\ ~over /\ owner \notin {"finish", "finish_asleep"}
        /\ RunningIsExact' /\ ChunksRunOnce' /\ StartedChunks'
        /\ next_chunk' \in 0..MaxChunks /\ running' \in Nat
        /\ job' \in [Threads -> Chunks \cup {NoChunk}]
        /\ job'[h] # NoChunk
        /\ \A u \in Threads \ {h} : job'[u] = job[u]
    BY <1>1, <2>1, TakeNextIInv
  <2>3. UNCHANGED <<chunk_count, done, error, stopping, owner, target, destroying,
                    over, batches, threw, rethrown>>
    BY <1>1 DEF HelperCheck, TakeNext, history
  <2>4. TypeOK'
    <3>1. helper' \in [Helpers -> HelperStates]
      BY <1>1 DEF TypeOK, HelperStates
    <3> QED
      BY <2>2, <2>3, <3>1 DEF TypeOK
  <2>5. StatesMatchJobs'
    BY <1>1, <2>1, <2>2, <2>3 DEF StatesMatchJobs, TypeOK, Threads
  <2>6. NoneLeftToStart' /\ OwnerKnows' /\ QuietBetweenBatches'
    BY <2>2, <2>3 DEF NoneLeftToStart, OwnerKnows, QuietBetweenBatches
  <2>7. ErrorsInOrder' /\ FirstErrorReported'
    BY <2>3 DEF ErrorsInOrder, FirstErrorReported
  <2> QED
    BY <2>2, <2>4, <2>5, <2>6, <2>7
<1>2. CASE /\ helper' \in {[helper EXCEPT ![h] = "exited"], [helper EXCEPT ![h] = "asleep"]}
           /\ UNCHANGED <<shared, job>>
  <2>1. UNCHANGED <<shared, job, owner, target, destroying, over, history>>
    BY <1>2 DEF HelperCheck
  <2>2. Executing' = Executing /\ RunningIsExact' /\ ChunksRunOnce' /\ StartedChunks'
    BY <2>1, QuietStep DEF shared
  <2>3. TypeOK'
    BY <1>2, <2>1 DEF TypeOK, HelperStates, shared, history
  <2>4. StatesMatchJobs'
    BY <1>2, <2>1 DEF StatesMatchJobs, TypeOK, HelperCheck
  <2>5. /\ NoneLeftToStart' /\ OwnerKnows' /\ QuietBetweenBatches'
        /\ ErrorsInOrder' /\ FirstErrorReported'
    BY <2>1, <2>2 DEF NoneLeftToStart, OwnerKnows, QuietBetweenBatches, ErrorsInOrder,
                      FirstErrorReported, shared, history
  <2> QED
    BY <2>2, <2>3, <2>4, <2>5
<1> QED
  BY <1>1, <1>2 DEF HelperCheck

\* The exceptions stay in order when t records a chunk of a batch in progress.
LEMMA RecordDoneErrors ==
  ASSUME IInv, NEW t \in Threads, job[t] # NoChunk,
         NEW failed \in BOOLEAN, RecordDone(t, failed)
  PROVE  /\ error' \in Chunks \cup {NoChunk}
         /\ threw' \in Seq(Chunks)
         /\ ErrorsInOrder'
<1>1. job[t] \in Chunks /\ threw \in Seq(Chunks) /\ error \in Chunks \cup {NoChunk}
  BY DEF IInv, TypeOK
<1>2. error' \in Chunks \cup {NoChunk} /\ threw' \in Seq(Chunks)
  BY <1>1 DEF RecordDone, KeptError
<1>3. CASE ~failed
  BY <1>2, <1>3 DEF RecordDone, KeptError, IInv, ErrorsInOrder
<1>4. CASE failed
  <2>1. threw' = Append(threw, job[t]) /\ rethrown' = rethrown
    BY <1>4 DEF RecordDone
  <2>2. /\ threw' # <<>>
        /\ threw # <<>> => threw'[1] = threw[1]
        /\ threw = <<>> => threw'[1] = job[t]
    BY <1>1, <2>1
  <2>3. threw = <<>> => error = NoChunk
    BY DEF IInv, ErrorsInOrder
  <2>4. threw # <<>> /\ rethrown = <<>> => error # NoChunk
    <3>1. SUFFICES ASSUME threw # <<>>, rethrown = <<>> PROVE error # NoChunk
      OBVIOUS
    <3>2. error = threw[1] /\ threw[1] \in Chunks
      BY <1>1, <3>1 DEF IInv, ErrorsInOrder
    <3> QED
      BY <3>2, PoolAssumption DEF Chunks
  <2>5. error' = IF error = NoChunk THEN job[t] ELSE error
    BY <1>4 DEF RecordDone, KeptError
  <2> QED
    BY <1>2, <2>1, <2>2, <2>3, <2>4, <2>5, PoolAssumption DEF IInv, ErrorsInOrder, Chunks
<1> QED
  BY <1>2, <1>3, <1>4

\* What any thread that records its chunk preserves: helper and owner follow.
LEMMA RecordDoneIInv ==
  ASSUME IInv, NEW t \in Threads, job[t] # NoChunk,
         NEW failed \in BOOLEAN, RecordDone(t, failed)
  PROVE  /\ ~over
         /\ RunningIsExact' /\ ChunksRunOnce' /\ StartedChunks' /\ ErrorsInOrder'
         /\ done' \subseteq Chunks /\ running' \in Nat
         /\ error' \in Chunks \cup {NoChunk} /\ threw' \in Seq(Chunks)
         /\ job' \in [Threads -> Chunks \cup {NoChunk}]
         /\ job'[t] = NoChunk
         /\ \A u \in Threads \ {t} : job'[u] = job[u]
<1>1. TypeOK /\ RunningIsExact /\ QuietBetweenBatches /\ ChunksRunOnce /\ StartedChunks
  BY DEF IInv
<1>2. t \in Executing
  BY DEF Executing
<1>3. ~over
  BY <1>1, <1>2 DEF QuietBetweenBatches
<1>4. /\ Executing' = Executing \ {t}
      /\ RunningIsExact'
      /\ running' \in Nat
      /\ job' \in [Threads -> Chunks \cup {NoChunk}]
      /\ job'[t] = NoChunk
      /\ \A u \in Threads \ {t} : job'[u] = job[u]
      /\ job[t] \in Chunks
  BY <1>1, RecordDoneCounts
<1>5. done' = done \cup {job[t]} /\ next_chunk' = next_chunk /\ chunk_count' = chunk_count
  BY DEF RecordDone
<1>6. StartedChunks'
  BY <1>1, <1>2, <1>5 DEF StartedChunks, ChunksRunOnce
<1>7. ChunksRunOnce'
  <2>1. \A u \in Executing' : u \in Executing /\ u # t /\ job'[u] = job[u]
    BY <1>4 DEF Executing
  <2> QED
    BY <1>1, <1>2, <1>5, <2>1 DEF ChunksRunOnce
<1>8. done' \subseteq Chunks
  BY <1>1, <1>4, <1>5 DEF TypeOK
<1> QED
  BY <1>3, <1>4, <1>6, <1>7, <1>8, RecordDoneErrors

\* A helper that is done with its chunk records it and wakes the owner.
LEMMA HelperDoneIInv ==
  ASSUME IInv, NEW h \in Helpers, HelperDone(h)
  PROVE  IInv'
<1>1. PICK failed \in BOOLEAN : RecordDone(h, failed)
  BY DEF HelperDone
<1>2. h \in Threads /\ h # Owner /\ job[h] # NoChunk
  BY PoolAssumption DEF IInv, StatesMatchJobs, Threads, HelperDone
<1>3. /\ ~over
      /\ RunningIsExact' /\ ChunksRunOnce' /\ StartedChunks' /\ ErrorsInOrder'
      /\ done' \subseteq Chunks /\ running' \in Nat
      /\ error' \in Chunks \cup {NoChunk} /\ threw' \in Seq(Chunks)
      /\ job' \in [Threads -> Chunks \cup {NoChunk}]
      /\ job'[h] = NoChunk
      /\ \A u \in Threads \ {h} : job'[u] = job[u]
  BY <1>1, <1>2, RecordDoneIInv
<1>4. UNCHANGED <<chunk_count, next_chunk, stopping, batches, rethrown, target, destroying, over>>
  BY <1>1 DEF HelperDone, RecordDone
<1>5. /\ owner' \in OwnerStates
      /\ owner' = "wait_run" <=> owner = "wait_run"
      /\ owner' \in {"finish", "finish_asleep"} => owner \in {"finish", "finish_asleep"}
      /\ owner' \in {"notify_start", "wait", "wait_asleep", "wait_run"}
           => owner \in {"notify_start", "wait", "wait_asleep", "wait_run"}
      /\ owner' \in {"wait", "wait_asleep", "wait_run"}
           => owner \in {"wait", "wait_asleep", "wait_run"}
      /\ owner' \in {"stop", "notify_stop", "join", "gone"} => owner' = owner
  BY DEF IInv, TypeOK, OwnerStates, HelperDone, Woken
<1>6. helper' = [helper EXCEPT ![h] = "ready"] /\ helper' \in [Helpers -> HelperStates]
  BY DEF IInv, TypeOK, HelperStates, HelperDone
<1>7. TypeOK'
  BY <1>3, <1>4, <1>5, <1>6 DEF IInv, TypeOK
<1>8. StatesMatchJobs'
  BY <1>2, <1>3, <1>5, <1>6 DEF IInv, TypeOK, StatesMatchJobs, Threads
<1>9. NoneLeftToStart' /\ OwnerKnows' /\ QuietBetweenBatches' /\ FirstErrorReported'
  BY <1>3, <1>4, <1>5 DEF IInv, NoneLeftToStart, OwnerKnows, QuietBetweenBatches,
                          FirstErrorReported
<1> QED
  BY <1>3, <1>7, <1>8, <1>9 DEF IInv

\* Start() resets the counters of a batch that really is over.
LEMMA StartIInv == ASSUME IInv, Start PROVE IInv'
<1> USE DEF IInv
<1>1. Executing = {} /\ Executing' = {}
  BY DEF Start, QuietBetweenBatches, Executing
<1>2. TypeOK'
  <2>1. threw' \in Seq(Chunks) /\ rethrown' \in Seq([call : Calls, chunk : Chunks])
    BY DEF Start
  <2>2. /\ chunk_count' \in 0..MaxChunks /\ next_chunk' \in 0..MaxChunks
        /\ running' \in Nat /\ batches' \in 0..MaxBatches
    BY PoolAssumption DEF Start, TypeOK
  <2>3. owner' \in OwnerStates /\ over' \in BOOLEAN
    BY Zenon DEF Start, OwnerStates
  <2>4. done' \subseteq Chunks /\ error' \in Chunks \cup {NoChunk}
    BY DEF Start
  <2> QED
    BY <2>1, <2>2, <2>3, <2>4 DEF Start, TypeOK
<1>3. RunningIsExact' /\ QuietBetweenBatches' /\ ChunksRunOnce'
  BY <1>1, FS_EmptySet DEF Start, RunningIsExact, QuietBetweenBatches, ChunksRunOnce
<1>4. StatesMatchJobs'
  BY DEF Start, StatesMatchJobs
<1>5. StartedChunks' /\ NoneLeftToStart' /\ OwnerKnows'
  BY <1>2 DEF Start, StartedChunks, NoneLeftToStart, OwnerKnows, TypeOK
<1>6. ErrorsInOrder' /\ FirstErrorReported'
  BY DEF Start, ErrorsInOrder, FirstErrorReported
<1> QED
  BY <1>2, <1>3, <1>4, <1>5, <1>6

\* notify_all() of work_ready_ only turns sleepers into contenders.
LEMMA WakeHelpersStates ==
  ASSUME TypeOK, StatesMatchJobs, WakeHelpers, UNCHANGED job
  PROVE  /\ helper' \in [Helpers -> HelperStates]
         /\ \A h \in Helpers : helper'[h] = "run" <=> job'[h] # NoChunk
  BY DEF TypeOK, StatesMatchJobs, WakeHelpers, HelperStates

\* The steps that move a thread and change neither the counters nor the jobs.
LEMMA ControlStepIInv ==
  ASSUME IInv,
         StartNotify \/ WaitFor \/ FinishWaits \/ DestroyStops \/ DestroyNotify
           \/ DestroyJoins \/ SpuriousWakeup
  PROVE  IInv'
<1> USE DEF IInv
<1>1. /\ UNCHANGED <<chunk_count, next_chunk, done, running, error, destroying, over, job,
                      batches, threw, rethrown>>
      /\ stopping' \in BOOLEAN
  BY DEF StartNotify, WaitFor, FinishWaits, DestroyStops, DestroyNotify, DestroyJoins,
         SpuriousWakeup, shared, history, TypeOK
<1>2. Executing' = Executing /\ RunningIsExact' /\ ChunksRunOnce' /\ StartedChunks'
  BY <1>1, QuietStep
<1>3. QuietBetweenBatches' /\ ErrorsInOrder' /\ FirstErrorReported'
  BY <1>1, <1>2 DEF QuietBetweenBatches, ErrorsInOrder, FirstErrorReported
<1>4. CASE StartNotify
  <2>1. /\ helper' \in [Helpers -> HelperStates]
        /\ \A h \in Helpers : helper'[h] = "run" <=> job'[h] # NoChunk
    BY <1>1, <1>4, WakeHelpersStates DEF StartNotify
  <2>2. owner = "notify_start" /\ owner' = "idle" /\ target' = target
    BY <1>4 DEF StartNotify
  <2> QED
    BY <1>1, <1>2, <1>3, <2>1, <2>2
       DEF TypeOK, StatesMatchJobs, NoneLeftToStart, OwnerKnows, OwnerStates
<1>5. CASE WaitFor
  <2>1. owner = "idle" /\ owner' = "wait" /\ ~over /\ target' \in Chunks /\ helper' = helper
    BY <1>5 DEF WaitFor
  <2> QED
    BY <1>1, <1>2, <1>3, <2>1
       DEF TypeOK, StatesMatchJobs, NoneLeftToStart, OwnerKnows, OwnerStates
<1>6. CASE FinishWaits
  <2>1. owner = "finish" /\ owner' = "finish_asleep" /\ target' = target /\ helper' = helper
    BY <1>6 DEF FinishWaits
  <2> QED
    BY <1>1, <1>2, <1>3, <2>1
       DEF TypeOK, StatesMatchJobs, NoneLeftToStart, OwnerKnows, OwnerStates
<1>7. CASE DestroyStops
  <2>1. owner = "stop" /\ owner' = "notify_stop" /\ target' = target /\ helper' = helper
    BY <1>7 DEF DestroyStops
  <2> QED
    BY <1>1, <1>2, <1>3, <2>1
       DEF TypeOK, StatesMatchJobs, NoneLeftToStart, OwnerKnows, OwnerStates
<1>8. CASE DestroyNotify
  <2>1. /\ helper' \in [Helpers -> HelperStates]
        /\ \A h \in Helpers : helper'[h] = "run" <=> job'[h] # NoChunk
    BY <1>1, <1>8, WakeHelpersStates DEF DestroyNotify
  <2>2. owner = "notify_stop" /\ owner' = "join" /\ target' = target
    BY <1>8 DEF DestroyNotify
  <2> QED
    BY <1>1, <1>2, <1>3, <2>1, <2>2
       DEF TypeOK, StatesMatchJobs, NoneLeftToStart, OwnerKnows, OwnerStates
<1>9. CASE DestroyJoins
  <2>1. owner = "join" /\ owner' = "gone" /\ target' = target /\ helper' = helper
    BY <1>9 DEF DestroyJoins
  <2> QED
    BY <1>1, <1>2, <1>3, <2>1
       DEF TypeOK, StatesMatchJobs, NoneLeftToStart, OwnerKnows, OwnerStates
<1>10. CASE SpuriousWakeup
  <2>1. /\ helper' \in [Helpers -> HelperStates]
        /\ \A h \in Helpers : helper'[h] = "run" <=> helper[h] = "run"
        /\ target' = target
    BY <1>10 DEF SpuriousWakeup, TypeOK, HelperStates
  <2>2. \/ owner' = owner
        \/ owner = "wait_asleep" /\ owner' = "wait"
        \/ owner = "finish_asleep" /\ owner' = "finish"
    BY <1>10 DEF SpuriousWakeup, Woken
  <2> QED
    BY <1>1, <1>2, <1>3, <2>1, <2>2
       DEF TypeOK, StatesMatchJobs, NoneLeftToStart, OwnerKnows, OwnerStates
<1> QED
  BY <1>4, <1>5, <1>6, <1>7, <1>8, <1>9, <1>10

\* WaitFor() in its loop: it runs a chunk nobody has taken, or sleeps.
LEMMA WaitForHelpsIInv == ASSUME IInv, WaitForHelps PROVE IInv'
<1> USE DEF IInv
<1>1. CASE Unstarted /\ owner' = "wait_run" /\ TakeNext(Owner)
  <2>1. /\ job[Owner] = NoChunk /\ Owner \in Threads /\ Owner \notin Helpers
        /\ owner = "wait"
    BY PoolAssumption DEF StatesMatchJobs, Threads, WaitForHelps
  <2>2. /\ ~over
        /\ RunningIsExact' /\ ChunksRunOnce' /\ StartedChunks'
        /\ next_chunk' \in 0..MaxChunks /\ running' \in Nat
        /\ job' \in [Threads -> Chunks \cup {NoChunk}]
        /\ job'[Owner] # NoChunk
        /\ \A u \in Threads \ {Owner} : job'[u] = job[u]
    BY <1>1, <2>1, TakeNextIInv
  <2>3. UNCHANGED <<chunk_count, done, error, stopping, helper, target, destroying,
                    over, batches, threw, rethrown>>
    BY <1>1 DEF WaitForHelps, TakeNext, history
  <2>4. TypeOK'
    BY <1>1, <2>2, <2>3 DEF TypeOK, OwnerStates
  <2>5. StatesMatchJobs'
    BY <1>1, <2>1, <2>2, <2>3 DEF StatesMatchJobs, TypeOK, Threads
  <2>6. NoneLeftToStart' /\ OwnerKnows' /\ QuietBetweenBatches'
    BY <1>1, <2>1, <2>2, <2>3 DEF NoneLeftToStart, OwnerKnows, QuietBetweenBatches
  <2>7. ErrorsInOrder' /\ FirstErrorReported'
    BY <2>3 DEF ErrorsInOrder, FirstErrorReported
  <2> QED
    BY <2>2, <2>4, <2>5, <2>6, <2>7
<1>2. CASE owner' = "wait_asleep" /\ UNCHANGED <<shared, job>>
  <2>1. /\ owner = "wait"
        /\ UNCHANGED <<shared, job, helper, target, destroying, over, history>>
    BY <1>2 DEF WaitForHelps
  <2>2. Executing' = Executing /\ RunningIsExact' /\ ChunksRunOnce' /\ StartedChunks'
    BY <2>1, QuietStep DEF shared
  <2>3. TypeOK' /\ StatesMatchJobs'
    BY <1>2, <2>1 DEF TypeOK, StatesMatchJobs, OwnerStates, shared, history
  <2>4. /\ NoneLeftToStart' /\ OwnerKnows' /\ QuietBetweenBatches'
        /\ ErrorsInOrder' /\ FirstErrorReported'
    BY <1>2, <2>1, <2>2 DEF NoneLeftToStart, OwnerKnows, QuietBetweenBatches, ErrorsInOrder,
                            FirstErrorReported, shared, history
  <2> QED
    BY <2>2, <2>3, <2>4
<1> QED
  BY <1>1, <1>2 DEF WaitForHelps

\* The owner records the chunk it ran itself.
LEMMA OwnerDoneIInv == ASSUME IInv, OwnerDone PROVE IInv'
<1>1. PICK failed \in BOOLEAN : RecordDone(Owner, failed)
  BY DEF OwnerDone
<1>2. /\ Owner \in Threads /\ Owner \notin Helpers /\ job[Owner] # NoChunk
      /\ owner = "wait_run" /\ owner' = "wait" /\ helper' = helper
  BY PoolAssumption DEF IInv, StatesMatchJobs, Threads, OwnerDone
<1>3. /\ ~over
      /\ RunningIsExact' /\ ChunksRunOnce' /\ StartedChunks' /\ ErrorsInOrder'
      /\ done' \subseteq Chunks /\ running' \in Nat
      /\ error' \in Chunks \cup {NoChunk} /\ threw' \in Seq(Chunks)
      /\ job' \in [Threads -> Chunks \cup {NoChunk}]
      /\ job'[Owner] = NoChunk
      /\ \A u \in Threads \ {Owner} : job'[u] = job[u]
  BY <1>1, <1>2, RecordDoneIInv
<1>4. UNCHANGED <<chunk_count, next_chunk, stopping, batches, rethrown, target, destroying, over>>
  BY <1>1 DEF OwnerDone, RecordDone
<1>5. TypeOK'
  BY <1>2, <1>3, <1>4 DEF IInv, TypeOK, OwnerStates
<1>6. StatesMatchJobs'
  BY <1>2, <1>3 DEF IInv, TypeOK, StatesMatchJobs, Threads
<1>7. NoneLeftToStart' /\ OwnerKnows' /\ QuietBetweenBatches' /\ FirstErrorReported'
  BY <1>2, <1>3, <1>4 DEF IInv, NoneLeftToStart, OwnerKnows, QuietBetweenBatches,
                          FirstErrorReported
<1> QED
  BY <1>3, <1>5, <1>6, <1>7 DEF IInv

\* Finish(), called by the owner or by the destructor, drops the chunks nobody
\* started.
LEMMA FinishBeginsIInv ==
  ASSUME IInv, owner = "idle", FinishBegins, destroying' \in BOOLEAN
  PROVE  IInv'
<1> USE DEF IInv
<1>1. /\ next_chunk' = chunk_count /\ owner' = "finish"
      /\ UNCHANGED <<chunk_count, done, running, error, stopping, helper, target, over,
                     job, batches, threw, rethrown>>
  BY DEF FinishBegins, FirstDropped, history
<1>2. Executing' = Executing
  BY <1>1 DEF Executing
<1>3. TypeOK'
  BY <1>1 DEF TypeOK, OwnerStates
<1>4. \A c \in done : c \in Nat
  BY PoolAssumption DEF TypeOK, Chunks
<1>5. \A t \in Executing : job[t] \in Nat
  BY PoolAssumption DEF TypeOK, Chunks, Executing
<1>6. next_chunk \in Nat /\ chunk_count \in Nat
  BY DEF TypeOK
<1>7. StartedChunks'
  BY <1>1, <1>4, <1>6 DEF StartedChunks
<1>8. ChunksRunOnce'
  BY <1>1, <1>2, <1>5, <1>6 DEF ChunksRunOnce, StartedChunks
<1>9. RunningIsExact' /\ QuietBetweenBatches'
  BY <1>1, <1>2 DEF RunningIsExact, QuietBetweenBatches
<1>10. StatesMatchJobs' /\ NoneLeftToStart' /\ OwnerKnows'
  BY <1>1 DEF StatesMatchJobs, NoneLeftToStart, OwnerKnows
<1>11. ErrorsInOrder' /\ FirstErrorReported'
  BY <1>1 DEF ErrorsInOrder, FirstErrorReported
<1> QED
  BY <1>3, <1>7, <1>8, <1>9, <1>10, <1>11

\* Rethrowing the kept exception keeps the report in order, and leaves nothing
\* unreported.
LEMMA RethrowErrors ==
  ASSUME IInv, NEW call \in Calls, NEW next, Rethrow(call, next)
  PROVE  /\ rethrown' \in Seq([call : Calls, chunk : Chunks])
         /\ error' = NoChunk /\ threw' = threw
         /\ ErrorsInOrder'
         /\ threw # <<>> => rethrown' # <<>> /\ rethrown'[1].chunk = threw[1]
<1> DEFINE R == [call : Calls, chunk : Chunks]
<1>1. rethrown \in Seq(R) /\ error \in Chunks \cup {NoChunk} /\ threw \in Seq(Chunks)
  BY DEF IInv, TypeOK
<1>2. error' = NoChunk /\ threw' = threw
  BY DEF Rethrow
<1>3. CASE error = NoChunk
  <2>1. rethrown' = rethrown
    BY <1>3 DEF Rethrow
  <2>2. threw # <<>> => threw[1] \in Chunks
    BY <1>1
  <2>3. threw # <<>> => rethrown # <<>>
    BY <1>3, <2>2, PoolAssumption DEF IInv, ErrorsInOrder, Chunks
  <2> QED
    BY <1>1, <1>2, <2>1, <2>3 DEF IInv, ErrorsInOrder
<1>4. CASE error # NoChunk
  <2> DEFINE r == [call |-> call, chunk |-> error]
  <2>1. rethrown' = Append(rethrown, r)
    BY <1>4 DEF Rethrow
  <2>2. r \in R /\ r.chunk = error
    BY <1>1, <1>4
  <2> HIDE DEF r
  <2>3. /\ rethrown' \in Seq(R) /\ rethrown' # <<>>
        /\ rethrown = <<>> => rethrown'[1] = r
        /\ rethrown # <<>> => rethrown'[1] = rethrown[1]
    BY <1>1, <2>1, <2>2
  <2>4. threw # <<>> /\ rethrown'[1].chunk = threw[1]
    BY <1>4, <2>2, <2>3 DEF IInv, ErrorsInOrder
  <2> QED
    BY <1>2, <2>3, <2>4 DEF ErrorsInOrder
<1> QED
  BY <1>3, <1>4

\* WaitFor() returns, or throws the kept exception.
LEMMA WaitForReturnsIInv == ASSUME IInv, WaitForReturns PROVE IInv'
<1> USE DEF IInv
<1>1. Rethrow("WaitFor", "idle") /\ "WaitFor" \in Calls
  BY DEF WaitForReturns, Calls
<1>2. /\ rethrown' \in Seq([call : Calls, chunk : Chunks])
      /\ error' = NoChunk /\ threw' = threw
      /\ ErrorsInOrder'
  BY <1>1, RethrowErrors
<1>3. /\ owner = "wait" /\ owner' = "idle" /\ target' = NoChunk
      /\ UNCHANGED <<chunk_count, next_chunk, done, running, stopping, batches,
                     helper, destroying, over, job>>
  BY <1>1 DEF WaitForReturns, Rethrow
<1>4. Executing' = Executing /\ RunningIsExact' /\ ChunksRunOnce' /\ StartedChunks'
  BY <1>3, QuietStep
<1>5. TypeOK'
  BY <1>2, <1>3 DEF TypeOK, OwnerStates
<1>6. ~over
  BY <1>3 DEF OwnerKnows
<1>7. /\ StatesMatchJobs' /\ NoneLeftToStart' /\ OwnerKnows' /\ QuietBetweenBatches'
      /\ FirstErrorReported'
  BY <1>3, <1>6 DEF StatesMatchJobs, NoneLeftToStart, OwnerKnows, QuietBetweenBatches,
                    FirstErrorReported
<1> QED
  BY <1>2, <1>4, <1>5, <1>7

\* No thread runs a chunk when the count says so.
LEMMA NoneRuns == ASSUME TypeOK, RunningIsExact, running = 0 PROVE Executing = {}
<1>1. IsFiniteSet(Executing) /\ Cardinality(Executing) = 0
  BY ExecutingFinite DEF RunningIsExact
<1> QED
  BY <1>1, FS_EmptySet

\* Finish() returns, or throws, when nothing runs any more.
LEMMA FinishReturnsIInv == ASSUME IInv, FinishReturns PROVE IInv'
<1> USE DEF IInv
<1>1. /\ Rethrow("Finish", IF destroying THEN "stop" ELSE "idle")
      /\ "Finish" \in Calls
  BY DEF FinishReturns, Calls
<1>2. /\ rethrown' \in Seq([call : Calls, chunk : Chunks])
      /\ error' = NoChunk /\ threw' = threw
      /\ ErrorsInOrder'
      /\ threw # <<>> => rethrown' # <<>> /\ rethrown'[1].chunk = threw[1]
  BY <1>1, RethrowErrors
<1>3. /\ owner = "finish" /\ owner' \in {"stop", "idle"} /\ over' = TRUE
      /\ UNCHANGED <<chunk_count, next_chunk, done, running, stopping, batches,
                     helper, target, destroying, job>>
  BY <1>1 DEF FinishReturns, Rethrow
<1>4. Executing' = Executing /\ RunningIsExact' /\ ChunksRunOnce' /\ StartedChunks'
  BY <1>3, QuietStep
<1>5. Executing = {}
  BY NoneRuns DEF FinishReturns, AllRecorded
<1>6. TypeOK'
  BY <1>2, <1>3 DEF TypeOK, OwnerStates
<1>7. /\ StatesMatchJobs' /\ NoneLeftToStart' /\ OwnerKnows'
  BY <1>3 DEF StatesMatchJobs, NoneLeftToStart, OwnerKnows
<1>8. QuietBetweenBatches' /\ FirstErrorReported'
  BY <1>2, <1>4, <1>5 DEF QuietBetweenBatches, FirstErrorReported
<1> QED
  BY <1>2, <1>4, <1>6, <1>7, <1>8

\* Nothing that any thread does breaks the invariant.
LEMMA NextIInv == IInv /\ [Next]_vars => IInv'
<1> SUFFICES ASSUME IInv, [Next]_vars PROVE IInv'
  OBVIOUS
<1>1. ASSUME NEW h \in Helpers, HelperStep(h) PROVE IInv'
  BY <1>1, HelperCheckIInv, HelperDoneIInv DEF HelperStep
<1>2. CASE OwnerStep
  BY <1>2, ControlStepIInv, WaitForReturnsIInv, WaitForHelpsIInv, OwnerDoneIInv,
     FinishReturnsIInv DEF OwnerStep
<1>3. CASE Start
  BY <1>3, StartIInv
<1>4. CASE WaitFor \/ SpuriousWakeup
  BY <1>4, ControlStepIInv
<1>5. CASE Finish
  BY <1>5, FinishBeginsIInv DEF Finish, IInv, TypeOK
<1>6. CASE Destroy
  <2>1. destroying' \in BOOLEAN
    BY <1>6, Zenon DEF Destroy
  <2> QED
    BY <1>6, <2>1, FinishBeginsIInv DEF Destroy
<1>7. CASE Gone \/ UNCHANGED vars
  <2>1. UNCHANGED <<shared, helper, owner, target, destroying, over, job, history>>
    BY <1>7 DEF Gone, vars
  <2>2. Executing' = Executing /\ RunningIsExact' /\ ChunksRunOnce' /\ StartedChunks'
    BY <2>1, QuietStep DEF shared
  <2>3. TypeOK'
    BY <2>1 DEF IInv, TypeOK, shared, history
  <2>4. StatesMatchJobs' /\ NoneLeftToStart' /\ OwnerKnows' /\ QuietBetweenBatches'
    BY <2>1, <2>2 DEF IInv, StatesMatchJobs, NoneLeftToStart, OwnerKnows,
                      QuietBetweenBatches, shared
  <2>5. ErrorsInOrder' /\ FirstErrorReported'
    BY <2>1 DEF IInv, ErrorsInOrder, FirstErrorReported, shared, history
  <2> QED
    BY <2>2, <2>3, <2>4, <2>5 DEF IInv
<1> QED
  BY <1>1, <1>2, <1>3, <1>4, <1>5, <1>6, <1>7 DEF Next

\* The invariant holds of every behaviour of the pool.
THEOREM Inductive == Spec => []IInv
  BY InitIInv, NextIInv, PTL DEF Spec

\* The counters, the states of the threads and the exceptions keep their types:
\* next_chunk_ never passes the end of the batch.
THEOREM TypeCorrect == Spec => []TypeOK
  BY Inductive, PTL DEF IInv

\* running_ counts the threads that are inside a work function, in every state.
THEOREM RunningCounts == Spec => []RunningIsExact
  BY Inductive, PTL DEF IInv

\* Between Finish() and the next Start() no thread is inside a work function.
THEOREM FinishDrains == Spec => []QuietBetweenBatches
  BY Inductive, PTL DEF IInv

\* A chunk of a batch runs at most once, on one thread.
THEOREM RunsOnce == Spec => []ChunksRunOnce
  BY Inductive, PTL DEF IInv

\* When a chunk threw, the owner has been thrown the first exception by the time
\* the batch is over.
THEOREM ReportsFirstError == Spec => []FirstErrorReported
  BY Inductive, PTL DEF IInv
----------------------------------------------------------------------------
(* The pool implements BatchContract. *)

Active == {job[t] : t \in Executing}

\* A thread that starts a chunk begins the next one of the batch.
LEMMA TakeNextSimulates ==
  ASSUME IInv, NEW t \in Threads, job[t] = NoChunk, Unstarted, TakeNext(t),
         UNCHANGED over
  PROVE  Contract!Begin
<1>1. TypeOK /\ RunningIsExact
  BY DEF IInv
<1>2. /\ Executing' = Executing \cup {t}
      /\ job'[t] = next_chunk
      /\ \A u \in Threads \ {t} : job'[u] = job[u]
  BY <1>1, TakeNextCounts
<1>3. ~over
  BY TakeNextIInv
<1>4. \A u \in Executing : u # t /\ job'[u] = job[u]
  BY <1>2 DEF Executing
<1>5. Active' = Active \cup {next_chunk}
  BY <1>2, <1>4 DEF Active
<1> QED
  BY <1>3, <1>5 DEF Contract!Begin, Active, TakeNext, Unstarted

\* A thread that records its chunk completes it.
LEMMA RecordDoneSimulates ==
  ASSUME IInv, NEW t \in Threads, job[t] # NoChunk,
         NEW failed \in BOOLEAN, RecordDone(t, failed), UNCHANGED over
  PROVE  Contract!Complete
<1>1. TypeOK /\ RunningIsExact /\ ChunksRunOnce
  BY DEF IInv
<1>2. /\ Executing' = Executing \ {t}
      /\ \A u \in Threads \ {t} : job'[u] = job[u]
  BY <1>1, RecordDoneCounts
<1>3. t \in Executing /\ job[t] \in Active
  BY DEF Executing, Active
<1>4. \A u \in Executing : u # t => job'[u] = job[u] /\ job[u] # job[t]
  BY <1>1, <1>2, <1>3 DEF Executing, ChunksRunOnce
<1>5. Active' = Active \ {job[t]}
  BY <1>2, <1>3, <1>4 DEF Active
<1>6. done' = done \cup {job[t]} /\ UNCHANGED <<over, chunk_count, next_chunk>>
  BY DEF RecordDone
<1>7. \E c \in Active :
        /\ Active' = Active \ {c}
        /\ done' = done \cup {c}
        /\ UNCHANGED <<~over, chunk_count, next_chunk>>
  <2>1. (~over)' = ~over
    BY <1>6
  <2> QED
    BY <1>3, <1>5, <1>6, <2>1, Zenon
<1> QED
  BY <1>7, Zenon DEF Contract!Complete, Active

\* Every step of the pool is a step of the contract or changes nothing it sees.
LEMMA StepSimulates == IInv /\ [Next]_vars => [Contract!Next]_Contract!vars
<1> SUFFICES ASSUME IInv, [Next]_vars PROVE Contract!Next \/ UNCHANGED Contract!vars
  OBVIOUS
<1>1. ASSUME UNCHANGED <<over, chunk_count, next_chunk, job, done>>
      PROVE  UNCHANGED Contract!vars
  BY <1>1 DEF Contract!vars, Executing
<1>2. ASSUME NEW h \in Helpers, HelperCheck(h)
      PROVE  Contract!Next \/ UNCHANGED Contract!vars
  <2>1. CASE Unstarted /\ TakeNext(h)
    <3>1. h \in Threads /\ job[h] = NoChunk /\ UNCHANGED over
      BY <1>2 DEF HelperCheck, IInv, StatesMatchJobs, Threads
    <3> QED
      BY <2>1, <3>1, TakeNextSimulates DEF Contract!Next
  <2>2. CASE UNCHANGED <<shared, job>>
    BY <1>1, <1>2, <2>2 DEF HelperCheck, shared
  <2> QED
    BY <1>2, <2>1, <2>2 DEF HelperCheck
<1>3. ASSUME NEW h \in Helpers, HelperDone(h)
      PROVE  Contract!Next
  <2>1. h \in Threads /\ job[h] # NoChunk /\ UNCHANGED over
    BY <1>3 DEF HelperDone, IInv, StatesMatchJobs, Threads
  <2> QED
    BY <1>3, <2>1, RecordDoneSimulates DEF HelperDone, Contract!Next
<1>4. CASE WaitForHelps
  <2>1. CASE Unstarted /\ TakeNext(Owner)
    <3>1. Owner \in Threads /\ job[Owner] = NoChunk /\ UNCHANGED over
      BY <1>4 DEF WaitForHelps, IInv, StatesMatchJobs, Threads
    <3> QED
      BY <2>1, <3>1, TakeNextSimulates DEF Contract!Next
  <2>2. CASE UNCHANGED <<shared, job>>
    BY <1>1, <1>4, <2>2 DEF WaitForHelps, shared
  <2> QED
    BY <1>4, <2>1, <2>2 DEF WaitForHelps
<1>5. CASE OwnerDone
  <2>1. Owner \in Threads /\ job[Owner] # NoChunk /\ UNCHANGED over
    BY <1>5 DEF OwnerDone, IInv, StatesMatchJobs, Threads
  <2> QED
    BY <1>5, <2>1, RecordDoneSimulates DEF OwnerDone, Contract!Next
<1>6. CASE Start
  <2>1. UNCHANGED job /\ Executing' = Executing
    BY <1>6 DEF Start, Executing
  <2> QED
    BY <1>6, <2>1 DEF Start, Contract!Next, Contract!Open
<1>7. CASE Finish \/ Destroy
  <2>1. FinishBegins
    BY <1>7 DEF Finish, Destroy
  <2>2. UNCHANGED <<job, over, chunk_count, done>> /\ next_chunk' = chunk_count
    BY <2>1 DEF FinishBegins, FirstDropped
  <2>3. Executing' = Executing
    BY <2>2 DEF Executing
  <2> QED
    BY <2>2, <2>3 DEF Contract!Next, Contract!Abandon
<1>8. CASE FinishReturns
  <2>1. /\ owner = "finish" /\ over' = TRUE
        /\ UNCHANGED <<job, chunk_count, next_chunk, done>>
    BY <1>8 DEF FinishReturns, Rethrow
  <2>2. Executing = {} /\ Executing' = {} /\ next_chunk = chunk_count
    BY <1>8, <2>1, NoneRuns DEF FinishReturns, AllRecorded, IInv, NoneLeftToStart, Executing
  <2>3. CASE over
    BY <1>1, <2>1, <2>3 DEF IInv, TypeOK
  <2>4. CASE ~over
    BY <2>1, <2>2, <2>4 DEF Contract!Next, Contract!Close
  <2> QED
    BY <2>3, <2>4
<1>9. CASE \/ StartNotify \/ WaitForReturns \/ FinishWaits \/ DestroyStops
           \/ DestroyNotify \/ DestroyJoins \/ WaitFor \/ SpuriousWakeup \/ Gone
           \/ UNCHANGED vars
  <2>1. UNCHANGED <<over, chunk_count, next_chunk, job, done>>
    BY <1>9 DEF StartNotify, WaitForReturns, Rethrow, FinishWaits, DestroyStops,
                DestroyNotify, DestroyJoins, WaitFor, SpuriousWakeup, Gone, vars, shared
  <2> QED
    BY <1>1, <2>1
<1> QED
  BY <1>2, <1>3, <1>4, <1>5, <1>6, <1>7, <1>8, <1>9 DEF Next, HelperStep, OwnerStep

\* A pool without a batch is a contract without a batch.
LEMMA InitSimulates == Init => Contract!Init
<1> SUFFICES ASSUME Init PROVE Contract!Init
  OBVIOUS
<1>1. Executing = {}
  BY DEF Init, Executing
<1> QED
  BY <1>1 DEF Init, Contract!Init

\* The pool keeps its promise: chunks start in order, each once, and a batch is
\* closed only when nothing runs any more.
THEOREM PoolImplementsContract == Spec => ImplementsContract
  BY Inductive, InitSimulates, StepSimulates, PTL DEF Spec, ImplementsContract, Contract!Spec
=============================================================================
