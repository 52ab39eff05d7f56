--------------------------- MODULE BatchContract ---------------------------
(***************************************************************************)
(* What the header of Util::ChunkPool promises of a batch of numbered      *)
(* chunks, without its threads, its lock or its condition variables:       *)
(* chunks start in increasing order, each at most once; a chunk that no    *)
(* thread started may be dropped; a batch is closed only when nothing runs *)
(* any more, and only then may the next one be opened.                     *)
(***************************************************************************)
EXTENDS Naturals

CONSTANT MaxChunks   \* chunks of one batch, at most

VARIABLES
  open,      \* a batch was started and not finished
  count,     \* chunks of the batch
  next,      \* the next chunk to start
  active,    \* the chunks being run
  finished   \* the chunks that were run

vars == <<open, count, next, active, finished>>

Init ==
  /\ open = FALSE
  /\ count = 0
  /\ next = 0
  /\ active = {}
  /\ finished = {}

\* A batch may be opened when the one before it is closed.
Open ==
  /\ ~open
  /\ open' = TRUE
  /\ count' \in 0..MaxChunks
  /\ next' = 0
  /\ finished' = {}
  /\ UNCHANGED active

\* Chunks start in increasing order.
Begin ==
  /\ open
  /\ next < count
  /\ active' = active \cup {next}
  /\ next' = next + 1
  /\ UNCHANGED <<open, count, finished>>

Complete ==
  \E c \in active :
    /\ active' = active \ {c}
    /\ finished' = finished \cup {c}
    /\ UNCHANGED <<open, count, next>>

\* Chunks that no thread started are dropped.
Abandon ==
  /\ next' = count
  /\ UNCHANGED <<open, count, active, finished>>

Close ==
  /\ open
  /\ active = {}
  /\ next = count
  /\ open' = FALSE
  /\ UNCHANGED <<count, next, active, finished>>

Next == Open \/ Begin \/ Complete \/ Abandon \/ Close

Spec == Init /\ [][Next]_vars
=============================================================================
