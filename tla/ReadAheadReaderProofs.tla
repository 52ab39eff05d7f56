----------------------- MODULE ReadAheadReaderProofs -----------------------
(***************************************************************************)
(* Proofs about ReadAheadReader, for any media, any requests, any size of  *)
(* a chunk and of the window.                                              *)
(*                                                                         *)
(* The invariant they rest on follows the bytes: a chunk that is ready, or *)
(* that the worker read and has yet to record, has the bytes of the open   *)
(* medium as long as the window holds it, and so has what the caller was   *)
(* served. Open() may come at any time because it empties the window first.*)
(***************************************************************************)
EXTENDS ReadAheadReader, SelectionProofs

\* The states of the caller in a read of the window, and in any read.
Streaming == {"serve", "asleep", "woken", "served", "want_inner", "direct", "relock_ok",
              "relock_failed", "complete"}
Reading == Streaming \cup {"want_direct", "direct_only"}

\* The chunks are records.
ChunksTyped ==
  /\ chunk = [c \in Ids |-> chunk[c]]
  /\ \A c \in Ids : chunk[c] \in [addr : Nat, size : Nat, state : ChunkStates,
                                  cancelled : BOOLEAN, data : {chunk[c].data}]

\* A chunk k with the bytes of medium m.
IsCurrent(m, k) ==
  LET r == [start |-> k.addr, len |-> k.size]
  IN  Disk!Readable(m, r) /\ k.data = Disk!Bytes(m, r)

\* Chunk c has the bytes of the open medium.
Current(c) == IsCurrent(medium, chunk[c])

\* A chunk is in the window once, and starts at or above the floor.
OnceInWindow == \A i, j \in DOMAIN window : window[i] = window[j] => i = j
FloorUnder == \A i \in DOMAIN window : chunk[window[i]].addr >= prefetch_floor

ReadyWasRead == \A i \in DOMAIN window : chunk[window[i]].state = "Ready" => Current(window[i])

\* The worker has a chunk in the states in which it reads one, knows when that
\* was dropped, and has read the open medium if it was not.
JobKnown ==
  /\ job # NoChunk <=> worker \in {"want_inner", "reading", "record"}
  /\ job # NoChunk /\ job \notin ToSet(window) => chunk[job].cancelled
  /\ worker = "record" /\ job_ok /\ job \in ToSet(window) => Current(job)

\* Who is inside the wrapped reader.
InnerHeld ==
  /\ inner = "worker" <=> worker = "reading"
  /\ inner = "caller" <=> caller \in {"direct", "direct_only"}

\* What the caller asked for, and what it was given so far.
CallKnown ==
  /\ caller \in Streaming => ~NotStreamed(request)
  /\ caller \in Reading => dest = [i \in 0..(request.len - 1) |-> dest[i]]
  /\ caller \notin Streaming => copied = 0
  /\ caller \notin Reading => request = Disk!NoRequest
  /\ caller \in Reading \cup {"want_open", "want_hint"} => answer = NoAnswer
  /\ caller = "want_open" => window = <<>>

ServedPart ==
  caller \in Streaming \ {"relock_ok"} =>
    \A i \in 0..(copied - 1) :
      /\ dest[i] = Disk!Content(medium, request.start + i)
      /\ medium # NoMedium /\ request.start + i \notin BadOf[medium]

ReadEnds ==
  /\ caller = "complete" => copied = request.len
  /\ caller = "relock_ok" =>
       Disk!Readable(medium, request) /\ dest = Disk!Bytes(medium, request)
  /\ caller = "relock_failed" => ~Disk!Readable(medium, request)

WindowInv == WindowShape /\ OnceInWindow /\ FloorUnder /\ ReadyWasRead
CallInv == CallKnown /\ ServedPart /\ ReadEnds

IInv ==
  /\ TypeOK /\ ChunksTyped
  /\ WindowInv
  /\ JobKnown /\ InnerHeld
  /\ NothingForgotten
  /\ CallInv
----------------------------------------------------------------------------
(* The window. *)

\* A chunk of the window has its types.
LEMMA WindowTyped ==
  ASSUME TypeOK, ChunksTyped, NEW i \in DOMAIN window
  PROVE  /\ window[i] \in Ids /\ window[i] # NoChunk
         /\ chunk[window[i]].addr \in Nat /\ chunk[window[i]].size \in Nat
         /\ i \in Nat
<1>1. window[i] \in Ids /\ i \in Nat
  BY DEF TypeOK
<1> QED
  BY <1>1, NoChunkAssumption DEF TypeOK

\* Where a chunk ends.
LEMMA EndTyped ==
  ASSUME TypeOK, NEW c \in Ids
  PROVE  End(c) \in Nat
<1>1. chunk[c].addr \in Nat /\ chunk[c].size \in Nat
  BY DEF TypeOK
<1> QED
  BY <1>1 DEF End

\* Holding() finds a chunk that holds the address.
LEMMA HoldingFinds ==
  ASSUME TypeOK, ChunksTyped, NEW pos, Holding(pos) # NoChunk
  PROVE  \E i \in DOMAIN window : /\ window[i] = Holding(pos)
                                  /\ chunk[window[i]].addr <= pos /\ pos < End(window[i])
<1> DEFINE found == {i \in DOMAIN window : chunk[window[i]].addr <= pos /\ pos < End(window[i])}
           first == CHOOSE i \in found : \A j \in found : i <= j
<1>1. found # {} /\ Holding(pos) = window[first]
  BY DEF Holding
<1>2. found \subseteq Nat
  BY WindowTyped
<1>3. \E i \in found : \A j \in found : i <= j
  BY <1>1, <1>2, LeastNatural
<1>4. first \in found
  BY <1>3
<1> QED
  BY <1>1, <1>4

\* NextQueued() finds a queued chunk when there is one.
LEMMA NextQueuedFinds ==
  ASSUME TypeOK, ChunksTyped
  PROVE  /\ NextQueued = NoChunk <=>
              \A i \in DOMAIN window : chunk[window[i]].state # "Queued"
         /\ NextQueued # NoChunk => \E i \in DOMAIN window :
              window[i] = NextQueued /\ chunk[window[i]].state = "Queued"
<1> DEFINE queued == {i \in DOMAIN window : chunk[window[i]].state = "Queued"}
           first == CHOOSE i \in queued : \A j \in queued : i <= j
<1>1. NextQueued = IF queued = {} THEN NoChunk ELSE window[first]
  BY DEF NextQueued
<1>2. queued \subseteq Nat
  BY WindowTyped
<1>3. ASSUME queued # {} PROVE first \in queued
  <2>1. \E i \in queued : \A j \in queued : i <= j
    BY <1>2, <1>3, LeastNatural
  <2> QED
    BY <2>1
<1> HIDE DEF first
<1>4. CASE queued = {}
  BY <1>1, <1>4
<1>5. CASE queued # {}
  <2>1. first \in DOMAIN window /\ chunk[window[first]].state = "Queued"
    BY <1>3, <1>5
  <2>2. NextQueued = window[first] /\ window[first] # NoChunk
    BY <1>1, <1>5, <2>1, WindowTyped
  <2> QED
    BY <2>1, <2>2
<1> QED
  BY <1>4, <1>5

\* The types of TypeOK that the chunks have as records.
LEMMA ChunksFit ==
  ASSUME ChunksTyped
  PROVE  \A c \in Ids : /\ chunk[c].addr \in Nat
                        /\ chunk[c].size \in Nat
                        /\ chunk[c].state \in ChunkStates
                        /\ chunk[c].cancelled \in BOOLEAN
  BY DEF ChunksTyped

\* k is the chunks once the chunks cs left the window.
AreCancelled(k, cs) ==
  /\ k = [c \in Ids |-> k[c]]
  /\ \A c \in Ids : k[c] \in [addr : Nat, size : Nat, state : ChunkStates,
                              cancelled : BOOLEAN, data : {k[c].data}]
  /\ \A c \in Ids \ cs : k[c] = chunk[c]
  /\ job \in Ids /\ job \in cs => k[job].cancelled

LEMMA CancelledChunks ==
  ASSUME ChunksTyped, NEW cs, NEW k, k = Cancelled(cs)
  PROVE  AreCancelled(k, cs)
<1>1. k = [c \in Ids |-> k[c]]
  BY DEF Cancelled
<1>2. \A c \in Ids : k[c] = CASE c \notin cs -> chunk[c]
                              [] c \in cs /\ c = job -> [chunk[c] EXCEPT !.cancelled = TRUE]
                              [] OTHER -> Freed
  BY DEF Cancelled
<1>3. \A c \in Ids : c \notin cs => k[c] = chunk[c]
  BY <1>2
<1>4. \A c \in Ids : c \in cs /\ c = job => k[c] = [chunk[c] EXCEPT !.cancelled = TRUE]
  BY <1>2
<1>5. \A c \in Ids : c \in cs /\ c # job => k[c] = Freed
  BY <1>2
<1> HIDE DEF Cancelled
<1>6. ASSUME NEW c \in Ids
      PROVE  k[c] \in [addr : Nat, size : Nat, state : ChunkStates,
                       cancelled : BOOLEAN, data : {k[c].data}]
  <2>0. chunk[c] \in [addr : Nat, size : Nat, state : ChunkStates,
                      cancelled : BOOLEAN, data : {chunk[c].data}]
    BY DEF ChunksTyped
  <2>1. CASE c \notin cs
    BY <1>3, <2>0, <2>1
  <2>2. CASE c \in cs /\ c = job
    BY <1>4, <2>0, <2>2
  <2>3. CASE c \in cs /\ c # job
    <3>1. /\ k[c] = [addr |-> 0, size |-> 0, state |-> "Queued", cancelled |-> TRUE, data |-> <<>>]
          /\ k[c].data = <<>> /\ "Queued" \in ChunkStates
      BY <1>5, <2>3 DEF Freed, ChunkStates
    <3> QED
      BY <3>1
  <2> QED
    BY <2>1, <2>2, <2>3
<1>7. job \in Ids /\ job \in cs => k[job].cancelled
  BY <1>4 DEF ChunksTyped
<1> QED
  BY <1>1, <1>3, <1>6, <1>7 DEF AreCancelled

\* DropWindow() leaves an empty window, and tells the worker.
LEMMA DropWindowHolds ==
  ASSUME TypeOK, ChunksTyped, JobKnown, DropWindow, job' = job, worker' = worker,
         job_ok' = job_ok, medium' = medium
  PROVE  ChunksTyped' /\ WindowInv' /\ JobKnown' /\ NothingForgotten' /\ window' = <<>>
<1>1. chunk' = Cancelled(ToSet(window)) /\ window' = <<>>
  BY DEF DropWindow
<1>2. ChunksTyped' /\ (job \in Ids /\ job \in ToSet(window) => chunk'[job].cancelled)
      /\ \A c \in Ids \ ToSet(window) : chunk'[c] = chunk[c]
  <2>1. /\ chunk' = [c \in Ids |-> chunk'[c]]
        /\ \A c \in Ids : chunk'[c] \in [addr : Nat, size : Nat, state : ChunkStates,
                                         cancelled : BOOLEAN, data : {chunk'[c].data}]
        /\ \A c \in Ids \ ToSet(window) : chunk'[c] = chunk[c]
        /\ job \in Ids /\ job \in ToSet(window) => chunk'[job].cancelled
    BY <1>1, CancelledChunks DEF AreCancelled
  <2> QED
    BY <2>1 DEF ChunksTyped
<1>3. ToSet(window') = {}
  BY <1>1 DEF ToSet
<1>4. JobKnown'
  BY <1>2, <1>3 DEF JobKnown, TypeOK
<1>5. WindowInv'
  BY <1>1, ReaderAssumption DEF WindowInv, WindowShape, OnceInWindow, FloorUnder, ReadyWasRead
<1>6. NothingForgotten'
  BY <1>1 DEF NothingForgotten, NextQueued
<1> QED
  BY <1>1, <1>2, <1>4, <1>5, <1>6

\* A chunk is never empty.
LEMMA RoundUpPositive ==
  ASSUME NEW n \in Nat \ {0}
  PROVE  RoundUp(n) \in Nat \ {0}
<1> DEFINE a == n + Alignment - 1
           q == a \div Alignment
<1>1. Alignment \in Nat \ {0} /\ a \in Nat /\ a >= Alignment
  BY ReaderAssumption
<1>2. q \in Nat /\ q >= 1
  BY <1>1
<1>3. RoundUp(n) = q * Alignment
  BY DEF RoundUp
<1> HIDE DEF q
<1> QED
  BY <1>1, <1>2, <1>3

LEMMA ChunkSizePositive ==
  ASSUME NEW size \in Nat
  PROVE  ChunkSize(size) \in Nat \ {0}
<1> DEFINE configured == RoundUp(Least(Greatest(ChunkBytes, 1), MaxChunkBytes))
<1>1. Least(Greatest(ChunkBytes, 1), MaxChunkBytes) \in Nat \ {0}
  BY ReaderAssumption DEF Least, Greatest
<1>2. configured \in Nat \ {0}
  BY <1>1, RoundUpPositive
<1>3. ChunkSize(size) = RoundUp(Least(Greatest(configured, size), MaxChunkBytes))
  BY DEF ChunkSize
<1> HIDE DEF configured
<1>4. Least(Greatest(configured, size), MaxChunkBytes) \in Nat \ {0}
  BY <1>2, ReaderAssumption DEF Least, Greatest
<1> QED
  BY <1>3, <1>4, RoundUpPositive

\* One identity more than the window has places is enough.
LEMMA FreshExists ==
  ASSUME NEW kept \in SUBSET Ids, NEW n \in Nat, Cardinality(kept) + n <= WindowChunks
  PROVE  /\ Fresh(n, kept) \in [1..n -> Ids \ (kept \cup {job})]
         /\ \A i, j \in 1..n : Fresh(n, kept)[i] = Fresh(n, kept)[j] => i = j
<1> DEFINE left == Ids \ (kept \cup {job})
           m == Cardinality(left)
<1>1. IsFiniteSet(Ids) /\ Cardinality(Ids) = WindowChunks + 1
  BY ReaderAssumption, FS_Interval DEF Ids
<1>2. IsFiniteSet(kept) /\ Cardinality(kept) \in Nat
  BY <1>1, FS_Subset, FS_CardinalityType
<1>3. IsFiniteSet(kept \cup {job}) /\ Cardinality(kept \cup {job}) <= Cardinality(kept) + 1
      /\ Cardinality(kept \cup {job}) \in Nat
  <2>1. IsFiniteSet(kept \cup {job})
        /\ Cardinality(kept \cup {job}) =
             IF job \in kept THEN Cardinality(kept) ELSE Cardinality(kept) + 1
    BY <1>2, FS_AddElement
  <2> QED
    BY <1>2, <2>1
<1>4. /\ Cardinality(left) = Cardinality(Ids) - Cardinality(Ids \cap (kept \cup {job}))
      /\ IsFiniteSet(left)
  BY <1>1, FS_Difference
<1>5. /\ Cardinality(Ids \cap (kept \cup {job})) <= Cardinality(kept \cup {job})
      /\ IsFiniteSet(Ids \cap (kept \cup {job}))
  BY <1>3, FS_Intersection
<1>6. m \in Nat /\ n <= m
  <2>1. Cardinality(Ids \cap (kept \cup {job})) \in Nat
    BY <1>5, FS_CardinalityType
  <2>2. m \in Nat
    BY <1>4, FS_CardinalityType
  <2> QED
    BY <1>1, <1>2, <1>3, <1>4, <1>5, <2>1, <2>2, ReaderAssumption
<1>7. ExistsBijection(1..m, left)
  BY <1>4, FS_CardinalityType
<1> HIDE DEF m, left
<1>8. PICK g : g \in Bijection(1..m, left)
  BY <1>7 DEF ExistsBijection
<1>9. g \in [1..m -> left] /\ \A i, j \in 1..m : g[i] = g[j] => i = j
  BY <1>8 DEF Bijection, Injection, Surjection, IsInjective
<1>10. \E s \in [1..n -> left] : \A i, j \in 1..n : s[i] = s[j] => i = j
  <2> DEFINE s == [i \in 1..n |-> g[i]]
  <2>1. \A i \in 1..n : i \in 1..m
    BY <1>6
  <2>2. s \in [1..n -> left]
    BY <1>9, <2>1
  <2>3. \A i, j \in 1..n : s[i] = s[j] => i = j
    BY <1>9, <2>1
  <2> HIDE DEF s
  <2> QED
    BY <2>2, <2>3
<1>11. Fresh(n, kept) = CHOOSE s \in [1..n -> left] : \A i, j \in 1..n : s[i] = s[j] => i = j
  BY DEF Fresh, left
<1> QED
  BY <1>10, <1>11 DEF left

\* No more chunks are trimmed than there are.
LEMMA TrimmedBound ==
  ASSUME TypeOK, NEW end
  PROVE  Trimmed(end) \in 0..Len(window)
<1> DEFINE cut == {i \in DOMAIN window : \A j \in 1..i : End(window[j]) <= end}
<1>1. Len(window) \in Nat /\ DOMAIN window = 1..Len(window)
  BY DEF TypeOK
<1>2. cut \in SUBSET (1..Len(window)) /\ Trimmed(end) = Cardinality(cut)
  BY <1>1 DEF Trimmed
<1> HIDE DEF cut
<1> QED
  BY <1>1, <1>2, PlacesCounted

\* kept, of length k, is the window without its first t chunks, and left the
\* chunks without those.
TrimmedTo(kept, k, left, t) ==
  /\ kept \in Seq(Ids) /\ k = Len(kept) /\ DOMAIN kept = 1..k /\ k <= Len(window)
  /\ \A i \in 1..k : /\ kept[i] \in Ids /\ i + t \in DOMAIN window /\ kept[i] = window[i + t]
                     /\ left[kept[i]] = chunk[kept[i]]
  /\ \A i, j \in 1..k : kept[i] = kept[j] => i = j
  /\ left = [c \in Ids |-> left[c]]
  /\ \A c \in Ids : left[c] \in [addr : Nat, size : Nat, state : ChunkStates,
                                 cancelled : BOOLEAN, data : {left[c].data}]
  /\ job \in Ids /\ job \notin ToSet(kept) => left[job].cancelled

\* What is left of the window once its first t chunks are dropped.
LEMMA TrimKeeps ==
  ASSUME TypeOK, WindowInv, JobKnown, NEW t \in 0..Len(window),
         NEW kept \in Seq(Ids), Suffix(kept, window, t),
         NEW cut, \A c : c \in cut <=> \E i \in 1..t : window[i] = c,
         NEW left, AreCancelled(left, cut)
  PROVE  TrimmedTo(kept, Len(kept), left, t)
<1>1. DOMAIN window = 1..Len(window) /\ Len(window) \in Nat /\ t \in Nat
  BY DEF TypeOK
<1>2. \A i, j \in 1..Len(kept) : kept[i] = kept[j] => i = j
  <2> TAKE i, j \in 1..Len(kept)
  <2>1. /\ i + t \in DOMAIN window /\ kept[i] = window[i + t]
        /\ j + t \in DOMAIN window /\ kept[j] = window[j + t]
    BY <1>1 DEF Suffix
  <2>2. kept[i] = kept[j] => i + t = j + t
    BY <2>1 DEF WindowInv, OnceInWindow
  <2> QED
    BY <1>1, <2>2
<1>3. \A i \in 1..Len(kept) : kept[i] \notin cut
  <2> SUFFICES ASSUME NEW i \in 1..Len(kept), NEW j \in 1..t, kept[i] = window[j] PROVE FALSE
    OBVIOUS
  <2>1. i + t \in DOMAIN window /\ kept[i] = window[i + t] /\ j \in DOMAIN window
    BY <1>1 DEF Suffix
  <2>2. i + t = j
    BY <2>1 DEF WindowInv, OnceInWindow
  <2> QED
    BY <1>1, <2>2
<1>4. \A i \in 1..Len(kept) : left[kept[i]] = chunk[kept[i]]
  BY <1>3 DEF AreCancelled
<1>5. ASSUME job \in Ids, job \notin ToSet(kept) PROVE left[job].cancelled
  <2>1. CASE job \in cut
    BY <1>5, <2>1 DEF AreCancelled
  <2>2. CASE job \notin cut
    <3>1. job \notin ToSet(window)
      <4> SUFFICES ASSUME NEW i \in 1..Len(window), job = window[i] PROVE FALSE
        BY <1>1 DEF ToSet
      <4>1. i \notin 1..t
        BY <2>2
      <4>2. i - t \in DOMAIN kept /\ kept[i - t] = job
        BY <1>1, <4>1 DEF Suffix
      <4> QED
        BY <1>5, <4>2 DEF ToSet
    <3>2. chunk[job].cancelled /\ left[job] = chunk[job]
      BY <1>5, <2>2, <3>1, NoChunkAssumption DEF JobKnown, AreCancelled
    <3> QED
      BY <3>2
  <2> QED
    BY <2>1, <2>2
<1>6. \A i \in 1..Len(kept) : /\ kept[i] \in Ids /\ i + t \in DOMAIN window
                              /\ kept[i] = window[i + t]
  BY <1>1 DEF Suffix
<1>7. DOMAIN kept = 1..Len(kept) /\ Len(kept) <= Len(window)
  BY <1>1 DEF Suffix
<1> QED
  BY <1>2, <1>4, <1>5, <1>6, <1>7 DEF TrimmedTo, AreCancelled

\* The window is trimmed to kept, and nothing is queued.
LEMMA TrimHolds ==
  ASSUME TypeOK, ChunksTyped, WindowInv, JobKnown, NothingForgotten, NEW t \in Nat,
         NEW kept, NEW k \in Nat, NEW left, TrimmedTo(kept, k, left, t),
         window' = kept, chunk' = left,
         worker' = worker \/ (worker = "absent" /\ worker' = "ready"),
         UNCHANGED <<medium, prefetch_floor, job, job_ok>>
  PROVE  ChunksTyped' /\ WindowInv' /\ JobKnown' /\ NothingForgotten'
<1>1. /\ \A i, j \in 1..k : kept[i] = kept[j] => i = j
      /\ job \in Ids /\ job \notin ToSet(kept) => left[job].cancelled
  BY DEF TrimmedTo
<1>2. ChunksTyped'
  BY DEF TrimmedTo, ChunksTyped
<1>3. /\ DOMAIN window' = 1..k /\ k <= Len(window) /\ Len(window') = k
      /\ Len(window) \in Nat /\ DOMAIN window = 1..Len(window)
      /\ \A i \in 1..k : /\ i + t \in DOMAIN window /\ window'[i] = window[i + t]
                         /\ chunk'[window'[i]] = chunk[window[i + t]]
  <2>1. Len(window) \in Nat /\ DOMAIN window = 1..Len(window)
    BY DEF TypeOK
  <2> QED
    BY <2>1 DEF TrimmedTo
<1>4. WindowShape'
  <2>1. Len(window') <= WindowChunks
    BY <1>3, ReaderAssumption DEF WindowInv, WindowShape
  <2>2. ASSUME NEW i \in DOMAIN window'
        PROVE  /\ chunk'[window'[i]].size > 0
               /\ (chunk[window[i]].addr + chunk[window[i]].size)' <= AddrMax
               /\ ~chunk'[window'[i]].cancelled
               /\ i > 1 => chunk'[window'[i]].addr =
                             (chunk[window[i - 1]].addr + chunk[window[i - 1]].size)'
    <3>1. i \in 1..k /\ (i > 1 => i - 1 \in 1..k /\ i + t > 1)
      BY <1>3
    <3>2. (i + t) - 1 = (i - 1) + t
      BY <1>3, <3>1
    <3> QED
      BY <1>3, <3>1, <3>2 DEF WindowInv, WindowShape, End
  <2> QED
    BY <2>1, <2>2 DEF WindowShape, End
<1>5. OnceInWindow' /\ FloorUnder'
  BY <1>1, <1>3 DEF WindowInv, OnceInWindow, FloorUnder
<1>6. ReadyWasRead'
  BY <1>3 DEF WindowInv, ReadyWasRead, Current
<1>7. ToSet(kept) \subseteq ToSet(window)
  BY <1>3 DEF ToSet
<1>8. JobKnown'
  <2>1. job \in ToSet(kept) => chunk'[job] = chunk[job]
    BY <1>1, <1>3 DEF ToSet
  <2> QED
    BY <1>1, <1>7, <2>1 DEF JobKnown, TypeOK, Current
<1>9. NothingForgotten'
  <2>1. TypeOK /\ ChunksTyped => (NextQueued = NoChunk <=>
          \A i \in DOMAIN window : chunk[window[i]].state # "Queued")
    BY NextQueuedFinds
  <2>2. worker' \in {"absent", "asleep"} =>
          \A i \in DOMAIN window' : chunk'[window'[i]].state # "Queued"
    BY <1>3, <2>1 DEF NothingForgotten
  <2> QED
    BY <2>2 DEF NothingForgotten, NextQueued
<1> QED
  BY <1>2, <1>4, <1>5, <1>6, <1>8, <1>9 DEF WindowInv

\* n chunks ids, of that many bytes, are queued after the k chunks kept: at[i]
\* says where the i-th of them starts.
Queues(kept, k, left, ids, at, n, bytes) ==
  /\ ids \in [1..n -> Ids \ (ToSet(kept) \cup {job})]
  /\ \A i, j \in 1..n : ids[i] = ids[j] => i = j
  /\ \A i \in 1..n : at[i] \in Nat /\ at[i] >= prefetch_floor /\ at[i] + bytes <= AddrMax
  /\ \A i \in 1..n : i > 1 => at[i] = at[i - 1] + bytes
  /\ k > 0 => at[1] = End(kept[k])
  /\ window' \in Seq(Ids) /\ Len(window') = k + n
  /\ \A i \in 1..k : window'[i] = kept[i]
  /\ \A i \in 1..n : window'[k + i] = ids[i]
  /\ chunk' = [c \in Ids |-> chunk'[c]]
  /\ \A i \in 1..n : chunk'[ids[i]] = NewChunk(at[i], bytes)
  /\ \A c \in Ids : (\A i \in 1..n : ids[i] # c) => chunk'[c] = left[c]

\* The window is trimmed to kept, and n chunks are queued after it.
LEMMA QueueHolds ==
  ASSUME TypeOK, ChunksTyped, WindowInv, JobKnown, NEW t \in Nat,
         NEW kept, NEW k \in Nat, NEW left, TrimmedTo(kept, k, left, t),
         NEW n \in Nat \ {0}, k + n <= WindowChunks, NEW bytes \in Nat \ {0},
         NEW ids, NEW at, Queues(kept, k, left, ids, at, n, bytes),
         worker' = Notified,
         UNCHANGED <<medium, prefetch_floor, job, job_ok>>
  PROVE  ChunksTyped' /\ WindowInv' /\ JobKnown' /\ NothingForgotten'
<1>1. /\ \A i \in 1..k : left[kept[i]] = chunk[kept[i]]
      /\ \A i, j \in 1..k : kept[i] = kept[j] => i = j
      /\ job \in Ids /\ job \notin ToSet(kept) => left[job].cancelled
  BY DEF TrimmedTo
<1>2. /\ DOMAIN kept = 1..k /\ \A i \in 1..k : kept[i] \in Ids
      /\ DOMAIN window' = 1..(k + n)
      /\ \A i \in 1..k : i + t \in DOMAIN window /\ kept[i] = window[i + t]
  <2>1. DOMAIN window' = 1..(k + n)
    BY DEF Queues
  <2> QED
    BY <2>1 DEF TrimmedTo
<1>3. \A i \in 1..n : /\ ids[i] \in Ids /\ ids[i] # job
                      /\ \A j \in 1..k : ids[i] # kept[j]
  BY <1>2 DEF ToSet, Queues
<1>4. \A i \in 1..k : window'[i] = window[i + t] /\ chunk'[window'[i]] = chunk[window[i + t]]
  <2> TAKE i \in 1..k
  <2>1. window'[i] = kept[i] /\ kept[i] \in Ids /\ kept[i] = window[i + t]
    BY <1>2 DEF Queues
  <2>2. chunk'[kept[i]] = left[kept[i]]
    BY <1>3, <2>1 DEF Queues
  <2> QED
    BY <1>1, <2>1, <2>2
<1>6. \A i \in 1..n : /\ chunk'[ids[i]].addr = at[i] /\ chunk'[ids[i]].size = bytes
                      /\ chunk'[ids[i]].state = "Queued" /\ ~chunk'[ids[i]].cancelled
                      /\ chunk'[ids[i]] \in [addr : Nat, size : Nat, state : ChunkStates,
                                     cancelled : BOOLEAN, data : {chunk'[ids[i]].data}]
  <2> TAKE i \in 1..n
  <2>1. chunk'[ids[i]] = NewChunk(at[i], bytes) /\ at[i] \in Nat
    BY DEF Queues
  <2> QED
    BY <2>1 DEF NewChunk, ChunkStates
<1>7. \A i \in 1..n : i > 1 => at[i] = at[i - 1] + bytes
  BY DEF Queues
<1>9. \A i \in 1..n : at[i] >= prefetch_floor /\ at[i] + bytes <= AddrMax
  BY DEF Queues
<1>10. ChunksTyped'
  <2>1. ASSUME NEW c \in Ids
        PROVE  chunk'[c] \in [addr : Nat, size : Nat, state : ChunkStates,
                              cancelled : BOOLEAN, data : {chunk'[c].data}]
    <3>1. CASE \E i \in 1..n : ids[i] = c
      BY <1>6, <3>1
    <3>2. CASE \A i \in 1..n : ids[i] # c
      <4>1. chunk'[c] = left[c]
        BY <3>2 DEF Queues
      <4> QED
        BY <4>1 DEF TrimmedTo
    <3> QED
      BY <3>1, <3>2
  <2> QED
    BY <2>1 DEF ChunksTyped, Queues
<1>11. \A i \in 1..(k + n) : i \in 1..k \/ (i - k \in 1..n /\ window'[i] = ids[i - k] /\ i > k)
  <2> TAKE i \in 1..(k + n)
  <2>1. i \in 1..k \/ (i - k \in 1..n /\ k + (i - k) = i /\ i > k)
    OBVIOUS
  <2> QED
    BY <2>1 DEF Queues
<1>12. WindowShape'
  <2>1. Len(window') <= WindowChunks
    BY DEF Queues
  <2>2. ASSUME NEW i \in 1..k
        PROVE  /\ chunk'[window'[i]].size > 0
               /\ chunk'[window'[i]].addr + chunk'[window'[i]].size <= AddrMax
               /\ ~chunk'[window'[i]].cancelled
               /\ i > 1 => chunk'[window'[i]].addr =
                             chunk'[window'[i - 1]].addr + chunk'[window'[i - 1]].size
    <3>1. i + t \in DOMAIN window /\ chunk'[window'[i]] = chunk[window[i + t]]
      BY <1>2, <1>4
    <3>2. /\ chunk[window[i + t]].size > 0
          /\ chunk[window[i + t]].addr + chunk[window[i + t]].size <= AddrMax
          /\ ~chunk[window[i + t]].cancelled
          /\ i + t > 1 => chunk[window[i + t]].addr =
               chunk[window[(i + t) - 1]].addr + chunk[window[(i + t) - 1]].size
      BY <3>1 DEF WindowInv, WindowShape, End
    <3>3. ASSUME i > 1
          PROVE  chunk'[window'[i - 1]] = chunk[window[(i + t) - 1]] /\ i + t > 1
      <4>1. i - 1 \in 1..k /\ (i - 1) + t = (i + t) - 1 /\ i + t > 1
        BY <3>3
      <4> QED
        BY <1>4, <4>1
    <3> QED
      BY <3>1, <3>2, <3>3
  <2>3. ASSUME NEW i \in 1..(k + n), i > k
        PROVE  /\ chunk'[window'[i]].size > 0
               /\ chunk'[window'[i]].addr + chunk'[window'[i]].size <= AddrMax
               /\ ~chunk'[window'[i]].cancelled
               /\ i > 1 => chunk'[window'[i]].addr =
                             chunk'[window'[i - 1]].addr + chunk'[window'[i - 1]].size
    <3>1. i - k \in 1..n /\ window'[i] = ids[i - k]
      BY <1>2, <1>11, <2>3
    <3>2. CASE i - k = 1 /\ i > 1
      <4>1. i - 1 = k /\ k \in 1..k
        BY <3>2
      <4>2. at[1] = chunk[kept[k]].addr + chunk[kept[k]].size
        BY <4>1 DEF End, Queues
      <4>3. chunk'[window'[i - 1]] = chunk[kept[k]]
        BY <1>2, <1>4, <4>1
      <4> QED
        BY <1>6, <1>9, <3>1, <3>2, <4>2, <4>3
    <3>3. CASE i - k > 1
      <4>1. PICK j \in 2..n : j = i - k
        BY <3>1, <3>3
      <4>2. j - 1 \in 1..n /\ k + (j - 1) = i - 1
        BY <4>1
      <4>3. window'[i - 1] = ids[j - 1]
        BY <4>2 DEF Queues
      <4>4. at[j] = at[j - 1] + bytes
        BY <1>7, <4>1
      <4>5. window'[i] = ids[j] /\ j \in 1..n
        BY <3>1, <4>1
      <4> QED
        BY <1>6, <1>9, <4>2, <4>3, <4>4, <4>5
    <3>4. CASE i = 1
      BY <1>6, <1>9, <3>1, <3>4
    <3> QED
      BY <1>2, <3>1, <3>2, <3>3, <3>4
  <2>4. \A i \in 1..(k + n) :
               /\ chunk'[window'[i]].size > 0
               /\ chunk'[window'[i]].addr + chunk'[window'[i]].size <= AddrMax
               /\ ~chunk'[window'[i]].cancelled
               /\ i > 1 => chunk'[window'[i]].addr =
                             chunk'[window'[i - 1]].addr + chunk'[window'[i - 1]].size
    BY <1>11, <2>2, <2>3
  <2> QED
    BY <1>2, <2>1, <2>4 DEF WindowShape, End
<1>13. OnceInWindow'
  <2>1. ASSUME NEW i \in 1..(k + n), NEW j \in 1..(k + n), window'[i] = window'[j] PROVE i = j
    <3>1. CASE i \in 1..k /\ j \in 1..k
      BY <1>1, <2>1, <3>1 DEF Queues
    <3>2. CASE i \in 1..k /\ j \notin 1..k
      <4>1. window'[i] = kept[i]
        BY <3>2 DEF Queues
      <4>2. j - k \in 1..n /\ window'[j] = ids[j - k]
        BY <1>11, <3>2
      <4> QED
        BY <1>3, <2>1, <3>2, <4>1, <4>2
    <3>3. CASE i \notin 1..k /\ j \in 1..k
      <4>1. window'[j] = kept[j]
        BY <3>3 DEF Queues
      <4>2. i - k \in 1..n /\ window'[i] = ids[i - k]
        BY <1>11, <3>3
      <4> QED
        BY <1>3, <2>1, <3>3, <4>1, <4>2
    <3>4. CASE i \notin 1..k /\ j \notin 1..k
      <4>1. /\ i - k \in 1..n /\ window'[i] = ids[i - k]
            /\ j - k \in 1..n /\ window'[j] = ids[j - k]
        BY <1>11, <3>4
      <4>2. i - k = j - k
        BY <2>1, <4>1 DEF Queues
      <4> QED
        BY <4>2
    <3> QED
      BY <3>1, <3>2, <3>3, <3>4
  <2> QED
    BY <1>2, <2>1 DEF OnceInWindow
<1>14. FloorUnder'
  <2>1. ASSUME NEW i \in 1..k PROVE chunk'[window'[i]].addr >= prefetch_floor
    BY <1>2, <1>4 DEF WindowInv, FloorUnder
  <2>2. ASSUME NEW i \in 1..n PROVE chunk'[ids[i]].addr >= prefetch_floor
    BY <1>6, <1>9
  <2>3. \A i \in 1..(k + n) : chunk'[window'[i]].addr >= prefetch_floor
    BY <1>11, <2>1, <2>2
  <2> QED
    BY <1>2, <2>3 DEF FloorUnder
<1>15. ReadyWasRead'
  BY <1>2, <1>4, <1>6, <1>11 DEF WindowInv, ReadyWasRead, Current
<1>16. JobKnown'
  <2>1. job \in ToSet(window') <=> job \in ToSet(kept)
    <3>1. job \in ToSet(kept) <=> \E i \in 1..k : kept[i] = job
      BY <1>2 DEF ToSet
    <3>2. job \in ToSet(window') <=> \E i \in 1..(k + n) : window'[i] = job
      BY <1>2 DEF ToSet
    <3>3. \A i \in 1..k : i \in 1..(k + n) /\ window'[i] = kept[i]
      BY DEF Queues
    <3> QED
      BY <1>3, <1>11, <3>1, <3>2, <3>3
  <2>2. job \in Ids => chunk'[job] = left[job]
    BY <1>3 DEF Queues
  <2>3. job \in ToSet(kept) => left[job] = chunk[job] /\ job \in ToSet(window)
    BY <1>1, <1>2 DEF ToSet
  <2>4. worker' \in {"want_inner", "reading", "record"} <=>
        worker \in {"want_inner", "reading", "record"}
    BY DEF Notified
  <2>5. worker' = "record" <=> worker = "record"
    BY DEF Notified
  <2> QED
    BY <1>1, <2>1, <2>2, <2>3, <2>4, <2>5 DEF JobKnown, TypeOK, Current
<1>17. NothingForgotten'
  BY DEF NothingForgotten, Notified
<1> QED
  BY <1>10, <1>12, <1>13, <1>14, <1>15, <1>16, <1>17 DEF WindowInv

\* Where the chunks queued one after the other start.
Starts(first, bytes, n) == [i \in 1..n |-> StartOf(i, first, bytes)]

Follow(at, first, bytes, n) ==
  /\ \A i \in 1..n : at[i] \in Nat
  /\ \A i \in 1..n : i > 1 => at[i] = at[i - 1] + bytes
  /\ n > 0 => at[1] = first

LEMMA StartsFollow ==
  ASSUME NEW first \in Nat, NEW bytes \in Nat, NEW n \in Nat, NEW at, at = Starts(first, bytes, n)
  PROVE  Follow(at, first, bytes, n)
<1>0. \A i \in 1..n : at[i] = first + (i - 1) * bytes
  BY DEF Starts, StartOf
<1>1. ASSUME NEW i \in 1..n PROVE at[i] \in Nat
  <2>1. (i - 1) * bytes \in Nat
    <3>1. PICK j \in Nat : j = i - 1
      BY <1>1
    <3>2. j * bytes \in Nat
      OBVIOUS
    <3> QED
      BY <3>1, <3>2
  <2> QED
    BY <1>0, <2>1
<1>2. ASSUME NEW i \in 1..n, i > 1 PROVE at[i] = at[i - 1] + bytes
  <2>1. i - 1 \in 1..n /\ at[i - 1] = first + ((i - 1) - 1) * bytes
    BY <1>0, <1>2
  <2>2. PICK j \in Nat : j = (i - 1) - 1
    BY <1>2
  <2>3. i - 1 = j + 1 /\ (j + 1) * bytes = j * bytes + bytes
    BY <2>2
  <2> QED
    BY <1>0, <2>1, <2>2, <2>3
<1>3. n > 0 => at[1] = first
  <2>1. (1 - 1) * bytes = 0
    OBVIOUS
  <2> QED
    BY <1>0, <2>1
<1> QED
  BY <1>1, <1>2, <1>3 DEF Follow

\* What QueueChunks() queues.
LEMMA QueuesChunks ==
  ASSUME TypeOK, NEW t \in Nat, NEW kept, NEW k \in Nat, NEW left, TrimmedTo(kept, k, left, t),
         NEW n \in Nat \ {0}, k + n <= WindowChunks, NEW bytes \in Nat \ {0},
         NEW first \in Nat, k > 0 => first = End(kept[k]),
         \A i \in 1..n : /\ AboveFloor(StartOf(i, first, bytes))
                         /\ Addressable(StartOf(i, first, bytes), bytes),
         QueueChunks(n, kept, left, first, bytes)
  PROVE  \E ids, at : Queues(kept, k, left, ids, at, n, bytes)
<1>1. kept \in Seq(Ids) /\ k = Len(kept) /\ DOMAIN kept = 1..k
  BY DEF TrimmedTo
<1>2. ToSet(kept) \in SUBSET Ids /\ Cardinality(ToSet(kept)) \in 0..k
  <2>1. ToSet(kept) = {kept[i] : i \in DOMAIN kept}
    BY DEF ToSet
  <2>2. ToSet(kept) \in SUBSET Ids
    BY <1>1, <2>1
  <2>3. Cardinality({kept[i] : i \in DOMAIN kept}) \in 0..k
    BY <1>1, ElementsCounted
  <2> QED
    BY <2>1, <2>2, <2>3
<1>3. PICK ids : ids = Fresh(n, ToSet(kept))
  OBVIOUS
<1>4. /\ ids \in [1..n -> Ids \ (ToSet(kept) \cup {job})]
      /\ \A i, j \in 1..n : ids[i] = ids[j] => i = j
  <2>1. Cardinality(ToSet(kept)) + n <= WindowChunks
    BY <1>2, ReaderAssumption
  <2> QED
    BY <1>2, <1>3, <2>1, FreshExists
<1>5. PICK made : made = [c \in ToSet(ids) |-> CHOOSE i \in 1..n : ids[i] = c]
  OBVIOUS
<1>6. PICK at : at = Starts(first, bytes, n)
  OBVIOUS
<1>7. /\ window' = kept \o ids
      /\ chunk' = [c \in Ids |-> IF c \in ToSet(ids)
                                THEN NewChunk(StartOf(made[c], first, bytes), bytes)
                                ELSE left[c]]
  BY <1>3, <1>5 DEF QueueChunks
<1>8. /\ \A i \in 1..n : at[i] \in Nat
      /\ \A i \in 1..n : i > 1 => at[i] = at[i - 1] + bytes
      /\ at[1] = first
  <2>1. n \in Nat /\ n > 0 /\ bytes \in Nat
    OBVIOUS
  <2>2. Follow(at, first, bytes, n)
    BY <1>6, <2>1, StartsFollow
  <2> QED
    BY <2>1, <2>2 DEF Follow
<1>9. \A i \in 1..n : at[i] = StartOf(i, first, bytes)
  BY <1>6 DEF Starts
<1>10. \A i \in 1..n : at[i] >= prefetch_floor /\ at[i] + bytes <= AddrMax
  <2> TAKE i \in 1..n
  <2>1. AboveFloor(at[i]) /\ Addressable(at[i], bytes) /\ at[i] \in Nat
    BY <1>8, <1>9
  <2>2. prefetch_floor \in Nat /\ AddrMax \in Nat
    BY ReaderAssumption DEF TypeOK
  <2> QED
    BY <2>1, <2>2 DEF AboveFloor, Addressable
<1>11. ToSet(ids) = {ids[i] : i \in 1..n} /\ \A i \in 1..n : ids[i] \in Ids
  BY <1>4 DEF ToSet
<1>12. \A i \in 1..n : ids[i] \in ToSet(ids) /\ made[ids[i]] = i
  <2> TAKE i \in 1..n
  <2>1. ids[i] \in ToSet(ids)
    BY <1>11
  <2>2. made[ids[i]] = CHOOSE j \in 1..n : ids[j] = ids[i]
    BY <1>5, <2>1
  <2>3. \A j \in 1..n : ids[j] = ids[i] <=> j = i
    BY <1>4
  <2> QED
    BY <2>1, <2>2, <2>3
<1>13. /\ window' \in Seq(Ids) /\ Len(window') = k + n
       /\ \A i \in 1..k : window'[i] = kept[i]
       /\ \A i \in 1..n : window'[k + i] = ids[i]
  <2>1. ids \in Seq(Ids) /\ Len(ids) = n
    BY <1>4
  <2>2. Joined(kept \o ids, kept, ids, Ids)
    BY <1>1, <2>1, ConcatPlaces
  <2>3. Joined(window', kept, ids, Ids)
    BY <1>7, <2>2
  <2> QED
    BY <1>1, <2>1, <2>3 DEF Joined
<1>14. /\ chunk' = [c \in Ids |-> chunk'[c]]
       /\ \A i \in 1..n : chunk'[ids[i]] = NewChunk(at[i], bytes)
       /\ \A c \in Ids : (\A i \in 1..n : ids[i] # c) => chunk'[c] = left[c]
  <2>1. \A c \in Ids : chunk'[c] = IF c \in ToSet(ids)
                                   THEN NewChunk(StartOf(made[c], first, bytes), bytes)
                                   ELSE left[c]
    BY <1>7
  <2>2. chunk' = [c \in Ids |-> chunk'[c]]
    BY <1>7
  <2> QED
    BY <1>9, <1>11, <1>12, <2>1, <2>2
<1>15. k > 0 => at[1] = End(kept[k])
  BY <1>8
<1>16. Queues(kept, k, left, ids, at, n, bytes)
  BY <1>4, <1>8, <1>10, <1>13, <1>14, <1>15 DEF Queues
<1> QED
  BY <1>16

\* TrimWindow() and TopUp() keep the window sound.
LEMMA TopUpHolds ==
  ASSUME TypeOK, ChunksTyped, WindowInv, JobKnown, NothingForgotten,
         NEW end \in Nat, NEW size \in Nat, TrimAndTopUp(end, size),
         UNCHANGED <<medium, prefetch_floor, job, job_ok>>
  PROVE  /\ ChunksTyped' /\ WindowInv' /\ JobKnown' /\ NothingForgotten'
         /\ window' \in Seq(Ids)
         /\ worker' = worker \/ (worker \in {"absent", "asleep"} /\ worker' = "ready")
<1>1. PICK t \in 0..Len(window) : t = Trimmed(end)
  BY TrimmedBound
<1>2. PICK kept \in Seq(Ids) : /\ kept = SubSeq(window, t + 1, Len(window))
                               /\ Suffix(kept, window, t)
  <2>1. window \in Seq(Ids)
    BY DEF TypeOK
  <2> QED
    BY <2>1, SubSeqSuffix
<1>3. PICK cut : cut = {window[i] : i \in 1..t}
  OBVIOUS
<1>4. PICK left : left = Cancelled(cut)
  OBVIOUS
<1>5. PICK bytes \in Nat \ {0} : bytes = ChunkSize(size)
  BY ChunkSizePositive
<1>6. PICK k \in Nat : k = Len(kept)
  OBVIOUS
<1>7. TrimmedTo(kept, k, left, t)
  <2>1. AreCancelled(left, cut)
    BY <1>4, CancelledChunks
  <2>2. \A c : c \in cut <=> \E i \in 1..t : window[i] = c
    BY <1>3
  <2> QED
    BY <1>2, <1>6, <2>1, <2>2, TrimKeeps
<1>8. PICK first \in Nat : first = IF kept = <<>> THEN end ELSE End(Last(kept))
  <2>1. CASE kept = <<>>
    BY <2>1
  <2>2. CASE kept # <<>>
    <3>1. k \in 1..k /\ Last(kept) = kept[k] /\ kept[k] \in Ids
      BY <1>6, <2>2 DEF Last
    <3>2. End(kept[k]) \in Nat
      BY <3>1, EndTyped
    <3> QED
      BY <2>2, <3>1, <3>2
  <2> QED
    BY <2>1, <2>2
<1>9. TopUp(kept, left, first, bytes)
  BY <1>1, <1>2, <1>3, <1>4, <1>5, <1>8 DEF TrimAndTopUp
<1> DEFINE fitting == {n \in 1..(WindowChunks - Len(kept)) :
                         \A i \in 1..n : /\ AboveFloor(StartOf(i, first, bytes))
                                         /\ Addressable(StartOf(i, first, bytes), bytes)}
<1>10. CASE /\ window' = kept
            /\ chunk' = left
            /\ worker' \in IF worker = "absent" /\ fitting # {}
                           THEN {"absent", "ready"} ELSE {worker}
  <2>1. worker' = worker \/ (worker = "absent" /\ worker' = "ready")
    BY <1>10
  <2>2. t \in Nat
    BY DEF TypeOK
  <2>3. ChunksTyped' /\ WindowInv' /\ JobKnown' /\ NothingForgotten'
    BY <1>7, <1>10, <2>1, <2>2, TrimHolds
  <2> QED
    BY <1>10, <2>1, <2>3
<1>11. CASE \E n \in fitting : QueueChunks(n, kept, left, first, bytes)
  <2>1. PICK n \in fitting : QueueChunks(n, kept, left, first, bytes)
    BY <1>11
  <2>2. k > 0 => first = End(kept[k])
    BY <1>6, <1>8 DEF Last
  <2>3. \A i \in 1..n : AboveFloor(StartOf(i, first, bytes))
                        /\ Addressable(StartOf(i, first, bytes), bytes)
    OBVIOUS
  <2>4. n \in Nat \ {0} /\ k + n <= WindowChunks /\ t \in Nat
    BY <1>6, ReaderAssumption
  <2> HIDE DEF fitting
  <2>5. PICK ids, at : Queues(kept, k, left, ids, at, n, bytes)
    BY <1>7, <2>1, <2>2, <2>3, <2>4, QueuesChunks
  <2>6. worker' = Notified
    BY <2>1 DEF QueueChunks
  <2>7. ChunksTyped' /\ WindowInv' /\ JobKnown' /\ NothingForgotten'
    BY <1>7, <2>4, <2>5, <2>6, QueueHolds
  <2>8. window' \in Seq(Ids)
    BY <2>5 DEF Queues
  <2> QED
    BY <2>6, <2>7, <2>8 DEF Notified
<1> QED
  BY <1>9, <1>10, <1>11 DEF TopUp
----------------------------------------------------------------------------
(* The steps of the worker. *)

\* TypeOK but for the chunks, whose types ChunksTyped gives.
RestTyped ==
  /\ medium \in Media \cup {NoMedium}
  /\ inner \in {"free", "worker", "caller"}
  /\ window \in Seq(Ids)
  /\ stop \in BOOLEAN
  /\ has_last \in BOOLEAN
  /\ last_end \in 0..AddrMax
  /\ last_size \in Nat
  /\ prefetch_floor \in 0..AddrMax
  /\ worker \in WorkerStates
  /\ job \in Ids \cup {NoChunk}
  /\ job_ok \in BOOLEAN
  /\ caller \in CallerStates
  /\ request \in [start : Int, len : Nat]
  /\ copied \in 0..request.len

LEMMA TypesRest ==
  ASSUME TypeOK
  PROVE  RestTyped
  BY DEF TypeOK, RestTyped

LEMMA TypesNext ==
  ASSUME ChunksTyped', RestTyped'
  PROVE  TypeOK'
<1>1. \A c \in Ids : /\ chunk'[c].addr \in Nat
                     /\ chunk'[c].size \in Nat
                     /\ chunk'[c].state \in ChunkStates
                     /\ chunk'[c].cancelled \in BOOLEAN
  BY DEF ChunksTyped
<1> QED
  BY <1>1 DEF TypeOK, RestTyped

\* What holds of the window and of the worker's chunk.
WindowPart == ChunksTyped /\ WindowInv /\ JobKnown /\ NothingForgotten

\* A step of the caller that leaves the window and the worker alone.
LEMMA WindowStays ==
  ASSUME WindowPart, UNCHANGED <<medium, windowVars, workerVars>>
  PROVE  WindowPart'
<1>1. UNCHANGED <<medium, chunk, window, prefetch_floor, worker, job, job_ok>>
  BY DEF windowVars, workerVars
<1>2. ChunksTyped'
  BY <1>1 DEF WindowPart, ChunksTyped
<1>3. WindowInv'
  BY <1>1 DEF WindowPart, WindowInv, WindowShape, OnceInWindow, FloorUnder, ReadyWasRead,
              Current, End
<1>4. JobKnown'
  BY <1>1 DEF WindowPart, JobKnown, Current
<1>5. NothingForgotten'
  BY <1>1 DEF WindowPart, NothingForgotten, NextQueued
<1> QED
  BY <1>2, <1>3, <1>4, <1>5 DEF WindowPart

\* A step of the worker leaves the call alone.
LEMMA CallStays ==
  ASSUME CallInv, UNCHANGED <<medium, window, callVars>>,
         caller' = caller \/ (caller = "asleep" /\ caller' = "woken")
  PROVE  CallInv'
<1>1. UNCHANGED <<medium, window, request, dest, copied, answer>>
  BY DEF callVars
<1>2. CallKnown'
  BY <1>1 DEF CallInv, CallKnown, Streaming, Reading, NotStreamed
<1>3. ServedPart'
  BY <1>1 DEF CallInv, ServedPart, Streaming
<1>4. ReadEnds'
  BY <1>1 DEF CallInv, ReadEnds
<1> QED
  BY <1>2, <1>3, <1>4 DEF CallInv

\* Chunk c becomes k, in its place.
LEMMA ChunkReplaced ==
  ASSUME TypeOK, ChunksTyped, WindowInv, NEW c \in Ids,
         NEW k, k \in [addr : Nat, size : Nat, state : ChunkStates, cancelled : BOOLEAN,
                       data : {k.data}],
         chunk' = [chunk EXCEPT ![c] = k], UNCHANGED <<window, prefetch_floor>>,
         c \in ToSet(window) => /\ k.addr = chunk[c].addr /\ k.size = chunk[c].size
                                /\ ~k.cancelled
  PROVE  /\ ChunksTyped' /\ WindowShape' /\ OnceInWindow' /\ FloorUnder'
         /\ chunk'[c] = k /\ \A d \in Ids \ {c} : chunk'[d] = chunk[d]
<1>1. /\ chunk' = [d \in Ids |-> chunk'[d]]
      /\ chunk'[c] = k /\ \A d \in Ids \ {c} : chunk'[d] = chunk[d]
  BY DEF ChunksTyped
<1>2. ChunksTyped'
  BY <1>1 DEF ChunksTyped
<1>3. \A i \in DOMAIN window : /\ window[i] \in Ids
                               /\ chunk'[window[i]].addr = chunk[window[i]].addr
                               /\ chunk'[window[i]].size = chunk[window[i]].size
                               /\ ~chunk[window[i]].cancelled => ~chunk'[window[i]].cancelled
  <2> TAKE i \in DOMAIN window
  <2>1. window[i] \in Ids /\ window[i] \in ToSet(window)
    BY WindowTyped DEF ToSet
  <2> QED
    BY <1>1, <2>1
<1>4. \A i \in DOMAIN window : i > 1 => i - 1 \in DOMAIN window
  BY DEF TypeOK
<1>5. WindowShape'
  BY <1>3, <1>4 DEF WindowInv, WindowShape, End
<1>6. OnceInWindow' /\ FloorUnder'
  BY <1>3 DEF WindowInv, OnceInWindow, FloorUnder
<1> QED
  BY <1>1, <1>2, <1>5, <1>6

\* WorkerCheck takes the first queued chunk, or sleeps when there is none.
LEMMA WorkerCheckHolds ==
  ASSUME IInv, WorkerCheck
  PROVE  IInv'
<1>1. /\ TypeOK /\ RestTyped /\ ChunksTyped /\ WindowInv /\ JobKnown /\ InnerHeld
      /\ NothingForgotten /\ CallInv
  BY TypesRest DEF IInv
<1>2. /\ UNCHANGED <<medium, inner, window, has_last, last_end, last_size, prefetch_floor,
                     stop, job_ok, caller, request, dest, copied, answer>>
      /\ worker = "ready" /\ job = NoChunk
  BY <1>1 DEF WorkerCheck, callVars, JobKnown
<1>3. CallInv'
  BY <1>1, <1>2, CallStays DEF callVars
<1>4. CASE UNCHANGED <<chunk, job>> /\ (worker' = "exited" \/
                                        (worker' = "asleep" /\ NextQueued = NoChunk))
  <2>1. ChunksTyped'
    BY <1>1, <1>4 DEF ChunksTyped
  <2>2. WindowInv'
    BY <1>1, <1>2, <1>4 DEF WindowInv, WindowShape, OnceInWindow, FloorUnder, ReadyWasRead,
                            Current, End
  <2>3. JobKnown' /\ InnerHeld'
    BY <1>1, <1>2, <1>4 DEF JobKnown, InnerHeld
  <2>4. NothingForgotten'
    BY <1>2, <1>4 DEF NothingForgotten, NextQueued
  <2>5. RestTyped'
    BY <1>1, <1>2, <1>4 DEF RestTyped, WorkerStates
  <2> QED
    BY <1>3, <2>1, <2>2, <2>3, <2>4, <2>5, TypesNext DEF IInv
<1>5. CASE /\ NextQueued # NoChunk
           /\ worker' = "want_inner"
           /\ job' = NextQueued
           /\ chunk' = [chunk EXCEPT ![NextQueued].state = "Reading"]
  <2>1. PICK i \in DOMAIN window : window[i] = NextQueued
    BY <1>1, <1>5, NextQueuedFinds
  <2>2. PICK c \in Ids : c = NextQueued /\ c \in ToSet(window) /\ c # NoChunk
    BY <1>1, <1>5, <2>1, WindowTyped DEF ToSet
  <2>3. PICK k : k = [chunk[c] EXCEPT !.state = "Reading"]
    OBVIOUS
  <2>4. /\ k \in [addr : Nat, size : Nat, state : ChunkStates, cancelled : BOOLEAN,
                  data : {k.data}]
        /\ k.addr = chunk[c].addr /\ k.size = chunk[c].size /\ k.cancelled = chunk[c].cancelled
        /\ k.state = "Reading"
    BY <1>1, <2>3 DEF ChunksTyped, ChunkStates
  <2>5. ~chunk[c].cancelled
    BY <1>1, <2>1, <2>2 DEF WindowInv, WindowShape
  <2>6. chunk' = [chunk EXCEPT ![c] = k]
    BY <1>5, <2>2, <2>3
  <2>7. /\ ChunksTyped' /\ WindowShape' /\ OnceInWindow' /\ FloorUnder'
        /\ chunk'[c] = k /\ \A d \in Ids \ {c} : chunk'[d] = chunk[d]
    BY <1>1, <1>2, <2>4, <2>5, <2>6, ChunkReplaced
  <2>8. ReadyWasRead'
    <3> SUFFICES ASSUME NEW j \in DOMAIN window, chunk'[window[j]].state = "Ready"
                 PROVE  IsCurrent(medium, chunk'[window[j]])
      BY <1>2 DEF ReadyWasRead, Current
    <3>1. window[j] \in Ids \ {c}
      BY <1>1, <2>4, <2>7, WindowTyped
    <3> QED
      BY <1>1, <2>7, <3>1 DEF WindowInv, ReadyWasRead, Current
  <2>9. JobKnown'
    BY <1>2, <1>5, <2>2 DEF JobKnown
  <2>10. NothingForgotten' /\ InnerHeld'
    BY <1>1, <1>2, <1>5 DEF NothingForgotten, InnerHeld
  <2>11. RestTyped'
    BY <1>1, <1>2, <1>5, <2>2 DEF RestTyped, WorkerStates
  <2> QED
    BY <1>3, <2>7, <2>8, <2>9, <2>10, <2>11, TypesNext DEF IInv, WindowInv
<1> QED
  BY <1>4, <1>5 DEF WorkerCheck

\* The worker is woken, or goes in or out of the wait for the wrapped reader.
LEMMA WorkerMovesHolds ==
  ASSUME IInv, WorkerSpurious \/ WorkerEnters
  PROVE  IInv'
<1>1. /\ TypeOK /\ RestTyped /\ ChunksTyped /\ WindowInv /\ JobKnown /\ InnerHeld
      /\ NothingForgotten /\ CallInv
  BY TypesRest DEF IInv
<1>2. UNCHANGED <<medium, chunk, window, has_last, last_end, last_size, prefetch_floor,
                  stop, job, caller, request, dest, copied, answer>>
  BY DEF WorkerSpurious, WorkerEnters, windowVars, callVars
<1>3. CallInv'
  BY <1>1, <1>2, CallStays DEF callVars
<1>4. ChunksTyped'
  BY <1>1, <1>2 DEF ChunksTyped
<1>5. WindowInv'
  BY <1>1, <1>2 DEF WindowInv, WindowShape, OnceInWindow, FloorUnder, ReadyWasRead,
                    Current, End
<1>6. JobKnown' /\ InnerHeld' /\ NothingForgotten' /\ RestTyped'
  <2>1. CASE WorkerSpurious
    BY <1>1, <1>2, <2>1 DEF WorkerSpurious, JobKnown, InnerHeld, NothingForgotten, RestTyped,
                            WorkerStates
  <2>2. CASE WorkerEnters
    BY <1>1, <1>2, <2>2 DEF WorkerEnters, JobKnown, InnerHeld, NothingForgotten, RestTyped,
                            WorkerStates
  <2> QED
    BY <2>1, <2>2
<1> QED
  BY <1>3, <1>4, <1>5, <1>6, TypesNext DEF IInv

\* The wrapped reader gives the worker the bytes of the open medium.
LEMMA WorkerReadsHolds ==
  ASSUME IInv, WorkerReads
  PROVE  IInv'
<1>1. /\ TypeOK /\ RestTyped /\ ChunksTyped /\ WindowInv /\ JobKnown /\ InnerHeld
      /\ NothingForgotten /\ CallInv
  BY TypesRest DEF IInv
<1>2. /\ UNCHANGED <<medium, window, has_last, last_end, last_size, prefetch_floor,
                     stop, job, caller, request, dest, copied, answer>>
      /\ worker = "reading" /\ worker' = "record" /\ inner' = "free" /\ job_ok' \in BOOLEAN
  BY DEF WorkerReads, callVars
<1>3. CallInv'
  BY <1>1, <1>2, CallStays DEF callVars
<1>4. job # NoChunk /\ job \in Ids /\ (job \notin ToSet(window) => chunk[job].cancelled)
  BY <1>1, <1>2 DEF JobKnown, RestTyped
<1>5. InnerHeld' /\ NothingForgotten' /\ RestTyped'
  BY <1>1, <1>2 DEF InnerHeld, NothingForgotten, RestTyped, WorkerStates
<1>6. CASE job_ok' = FALSE /\ chunk' = chunk
  <2>1. ChunksTyped'
    BY <1>1, <1>6 DEF ChunksTyped
  <2>2. WindowInv'
    BY <1>1, <1>2, <1>6 DEF WindowInv, WindowShape, OnceInWindow, FloorUnder, ReadyWasRead,
                            Current, End
  <2>3. JobKnown'
    BY <1>1, <1>2, <1>4, <1>6 DEF JobKnown
  <2> QED
    BY <1>3, <1>5, <2>1, <2>2, <2>3, TypesNext DEF IInv
<1>7. ASSUME NEW r, r = [start |-> chunk[job].addr, len |-> chunk[job].size],
             Disk!Readable(medium, r),
             chunk' = [chunk EXCEPT ![job].data = Disk!Bytes(medium, r)]
      PROVE  IInv'
  <2>1. PICK k : k = [chunk[job] EXCEPT !.data = Disk!Bytes(medium, r)]
    OBVIOUS
  <2>2. /\ k \in [addr : Nat, size : Nat, state : ChunkStates, cancelled : BOOLEAN,
                  data : {k.data}]
        /\ k.addr = chunk[job].addr /\ k.size = chunk[job].size
        /\ k.cancelled = chunk[job].cancelled
        /\ k.data = Disk!Bytes(medium, r)
    BY <1>1, <1>4, <2>1 DEF ChunksTyped
  <2>3. job \in ToSet(window) => ~chunk[job].cancelled
    BY <1>1 DEF WindowInv, WindowShape, ToSet
  <2>4. chunk' = [chunk EXCEPT ![job] = k]
    BY <1>7, <2>1
  <2>5. /\ ChunksTyped' /\ WindowShape' /\ OnceInWindow' /\ FloorUnder'
        /\ chunk'[job] = k /\ \A d \in Ids \ {job} : chunk'[d] = chunk[d]
    BY <1>1, <1>2, <1>4, <2>2, <2>3, <2>4, ChunkReplaced
  <2>6. IsCurrent(medium, chunk'[job])
    BY <1>7, <2>2, <2>5 DEF IsCurrent
  <2>7. ReadyWasRead'
    <3> SUFFICES ASSUME NEW j \in DOMAIN window, chunk'[window[j]].state = "Ready"
                 PROVE  IsCurrent(medium, chunk'[window[j]])
      BY <1>2 DEF ReadyWasRead, Current
    <3>1. CASE window[j] = job
      BY <2>6, <3>1
    <3>2. CASE window[j] # job
      <4>1. chunk'[window[j]] = chunk[window[j]]
        BY <1>1, <2>5, <3>2, WindowTyped
      <4> QED
        BY <1>1, <4>1 DEF WindowInv, ReadyWasRead, Current
    <3> QED
      BY <3>1, <3>2
  <2>8. JobKnown'
    <3>1. chunk'[job].cancelled = chunk[job].cancelled
      BY <2>2, <2>5
    <3> QED
      BY <1>2, <1>4, <2>6, <3>1 DEF JobKnown, Current
  <2> QED
    BY <1>3, <1>5, <2>5, <2>7, <2>8, TypesNext DEF IInv, WindowInv
<1> QED
  BY <1>6, <1>7 DEF WorkerReads

\* The worker records what it read, and frees what the window no longer holds.
LEMMA WorkerRecordsHolds ==
  ASSUME IInv, WorkerRecords
  PROVE  IInv'
<1>1. /\ TypeOK /\ RestTyped /\ ChunksTyped /\ WindowInv /\ JobKnown /\ InnerHeld
      /\ NothingForgotten /\ CallInv
  BY TypesRest DEF IInv
<1>2. /\ UNCHANGED <<medium, inner, window, has_last, last_end, last_size, prefetch_floor,
                     stop, job_ok, request, dest, copied, answer>>
      /\ worker = "record" /\ worker' = "ready" /\ job' = NoChunk
      /\ caller' = caller \/ (caller = "asleep" /\ caller' = "woken")
  BY DEF WorkerRecords, callVars
<1>3. CallInv'
  BY <1>1, <1>2, CallStays DEF callVars
<1>4. job # NoChunk /\ job \in Ids /\ (job_ok /\ job \in ToSet(window) => Current(job))
  BY <1>1, <1>2 DEF JobKnown, RestTyped
<1>5. InnerHeld' /\ NothingForgotten' /\ JobKnown' /\ RestTyped'
  BY <1>1, <1>2 DEF InnerHeld, NothingForgotten, JobKnown, RestTyped, WorkerStates,
                    CallerStates
<1>6. PICK k : k = IF job \notin ToSet(window) THEN Freed
                   ELSE [chunk[job] EXCEPT !.state = IF job_ok THEN "Ready" ELSE "Failed"]
  OBVIOUS
<1>7. chunk' = [chunk EXCEPT ![job] = k]
  BY <1>6 DEF WorkerRecords
<1>8. k \in [addr : Nat, size : Nat, state : ChunkStates, cancelled : BOOLEAN, data : {k.data}]
  <2>1. CASE job \notin ToSet(window)
    <3>1. /\ k = [addr |-> 0, size |-> 0, state |-> "Queued", cancelled |-> TRUE, data |-> <<>>]
          /\ k.data = <<>> /\ "Queued" \in ChunkStates
      BY <1>6, <2>1 DEF Freed, ChunkStates
    <3> QED
      BY <3>1
  <2>2. CASE job \in ToSet(window)
    BY <1>1, <1>4, <1>6, <2>2 DEF ChunksTyped, ChunkStates
  <2> QED
    BY <2>1, <2>2
<1>9. job \in ToSet(window) =>
        /\ k.addr = chunk[job].addr /\ k.size = chunk[job].size /\ k.data = chunk[job].data
        /\ k.cancelled = chunk[job].cancelled /\ ~chunk[job].cancelled
        /\ k.state = IF job_ok THEN "Ready" ELSE "Failed"
  <2>1. job \in ToSet(window) => ~chunk[job].cancelled
    BY <1>1 DEF WindowInv, WindowShape, ToSet
  <2> QED
    BY <1>1, <1>4, <1>6, <2>1 DEF ChunksTyped
<1>10. /\ ChunksTyped' /\ WindowShape' /\ OnceInWindow' /\ FloorUnder'
       /\ chunk'[job] = k /\ \A d \in Ids \ {job} : chunk'[d] = chunk[d]
  BY <1>1, <1>2, <1>4, <1>7, <1>8, <1>9, ChunkReplaced
<1>11. ReadyWasRead'
  <2> SUFFICES ASSUME NEW j \in DOMAIN window, chunk'[window[j]].state = "Ready"
               PROVE  IsCurrent(medium, chunk'[window[j]])
    BY <1>2 DEF ReadyWasRead, Current
  <2>1. CASE window[j] = job
    <3>1. job \in ToSet(window)
      BY <2>1 DEF ToSet
    <3>2. IsCurrent(medium, chunk[job])
      BY <1>4, <1>9, <1>10, <2>1, <3>1 DEF Current
    <3> QED
      BY <1>9, <1>10, <2>1, <3>1, <3>2 DEF IsCurrent
  <2>2. CASE window[j] # job
    <3>1. chunk'[window[j]] = chunk[window[j]]
      BY <1>1, <1>10, <2>2, WindowTyped
    <3> QED
      BY <1>1, <3>1 DEF WindowInv, ReadyWasRead, Current
  <2> QED
    BY <2>1, <2>2
<1> QED
  BY <1>3, <1>5, <1>10, <1>11, TypesNext DEF IInv, WindowInv
----------------------------------------------------------------------------
(* The steps of the caller. *)

LEMMA InvParts ==
  ASSUME IInv
  PROVE  TypeOK /\ RestTyped /\ WindowPart /\ InnerHeld /\ CallInv
  BY TypesRest DEF IInv, WindowPart

LEMMA InvNext ==
  ASSUME RestTyped', WindowPart', InnerHeld', CallInv'
  PROVE  IInv'
  BY TypesNext DEF IInv, WindowPart

\* The whole invariant in a step that leaves everything alone.
LEMMA NothingHappens ==
  ASSUME IInv, UNCHANGED vars
  PROVE  IInv'
<1>1. TypeOK /\ RestTyped /\ WindowPart /\ InnerHeld /\ CallInv
  BY InvParts
<1>2. UNCHANGED <<medium, inner, chunk, window, has_last, last_end, last_size, prefetch_floor,
                  stop, worker, job, job_ok, caller, request, dest, copied, answer>>
  BY DEF vars, windowVars, workerVars, callVars
<1>3. WindowPart'
  BY <1>1, <1>2, WindowStays DEF windowVars, workerVars
<1>4. CallInv'
  BY <1>1, <1>2, CallStays DEF callVars
<1>5. RestTyped' /\ InnerHeld'
  BY <1>1, <1>2 DEF RestTyped, InnerHeld
<1> QED
  BY <1>3, <1>4, <1>5, InvNext

\* A read is called.
LEMMA CallReadIntoHolds ==
  ASSUME IInv, CallReadInto
  PROVE  IInv'
<1>1. TypeOK /\ RestTyped /\ WindowPart /\ InnerHeld /\ CallInv
  BY InvParts
<1>2. PICK r \in Requests :
        /\ request' = r
        /\ dest' = [i \in 0..(r.len - 1) |-> Garbage]
        /\ caller' = IF NotStreamed(r) THEN "want_direct" ELSE "serve"
  BY DEF CallReadInto
<1>3. /\ UNCHANGED <<medium, inner, chunk, window, has_last, last_end, last_size,
                     prefetch_floor, stop, worker, job, job_ok>>
      /\ caller = "idle" /\ copied' = 0 /\ answer' = NoAnswer
  BY DEF CallReadInto, windowVars, workerVars
<1>4. r \in [start : Int, len : Nat] /\ 0 \in 0..r.len
  BY ReaderAssumption
<1>5. WindowPart'
  BY <1>1, <1>3, WindowStays DEF windowVars, workerVars
<1>6. dest' = [i \in 0..(request'.len - 1) |-> dest'[i]]
  BY <1>2
<1>7. RestTyped' /\ InnerHeld'
  BY <1>1, <1>2, <1>3, <1>4 DEF RestTyped, InnerHeld, CallerStates
<1>8. CallKnown'
  BY <1>2, <1>3, <1>6 DEF CallKnown, Streaming, Reading, NotStreamed
<1>9. ServedPart' /\ ReadEnds'
  <2>1. 0..(copied' - 1) = {}
    BY <1>3
  <2>2. caller' \notin {"complete", "relock_ok", "relock_failed"}
    BY <1>2
  <2> QED
    BY <2>1, <2>2 DEF ServedPart, ReadEnds
<1> QED
  BY <1>5, <1>7, <1>8, <1>9, InvNext DEF CallInv

\* The caller moves between two states of a read, with what it was served.
LEMMA ServeMovesHolds ==
  ASSUME IInv, ServeEnds \/ ServeWaits \/ ServeSpurious \/ DirectEnters
  PROVE  IInv'
<1>1. TypeOK /\ RestTyped /\ WindowPart /\ InnerHeld /\ CallInv
  BY InvParts
<1>2. UNCHANGED <<medium, chunk, window, has_last, last_end, last_size, prefetch_floor,
                  stop, worker, job, job_ok, request, dest, copied, answer>>
  BY DEF ServeEnds, ServeWaits, ServeSpurious, DirectEnters, windowVars, workerVars, callVars
<1>3. WindowPart'
  BY <1>1, <1>2, WindowStays DEF windowVars, workerVars
<1>4. RestTyped' /\ InnerHeld'
  BY <1>1, <1>2 DEF RestTyped, InnerHeld, CallerStates, ServeEnds, ServeWaits, ServeSpurious,
                    DirectEnters
<1>5. \/ /\ caller \in {"serve", "asleep", "woken", "want_inner"}
         /\ caller' \in {"served", "asleep", "woken", "direct"}
      \/ caller = "want_direct" /\ caller' = "direct_only"
  BY DEF ServeEnds, ServeWaits, ServeSpurious, DirectEnters
<1>6. CallKnown'
  BY <1>1, <1>2, <1>5 DEF CallInv, CallKnown, Streaming, Reading, NotStreamed
<1>7. ServedPart'
  BY <1>1, <1>2, <1>5 DEF CallInv, ServedPart, Streaming
<1>8. ReadEnds'
  BY <1>5 DEF ReadEnds
<1> QED
  BY <1>3, <1>4, <1>6, <1>7, <1>8, InvNext DEF CallInv

\* The leading bytes that were copied are those of the medium, and so are the ones
\* of a chunk that is ready.
LEMMA ServeCopiesHolds ==
  ASSUME IInv, ServeCopies
  PROVE  IInv'
<1>1. TypeOK /\ RestTyped /\ WindowPart /\ InnerHeld /\ CallInv
  BY InvParts
<1>2. PICK c : c = Wanted
  OBVIOUS
<1>3. PICK j \in DOMAIN window : /\ window[j] = c
                                 /\ chunk[c].addr <= Pos /\ Pos < End(c)
  <2>1. Holding(Pos) # NoChunk /\ c = Holding(Pos)
    BY <1>2 DEF ServeCopies, Wanted
  <2> QED
    BY <1>1, <2>1, HoldingFinds DEF WindowPart
<1>4. /\ c \in Ids /\ chunk[c].addr \in Nat /\ chunk[c].size \in Nat
      /\ request.start \in Int /\ request.len \in Nat /\ copied \in Nat
      /\ copied <= request.len
  BY <1>1, <1>3, WindowTyped DEF WindowPart, RestTyped
<1>5. PICK addr \in Nat : addr = chunk[c].addr
  BY <1>4
<1>6. PICK size \in Nat : size = chunk[c].size
  BY <1>4
<1>7. PICK start \in Int : start = request.start
  BY <1>4
<1>8. PICK was \in Nat : was = copied
  BY <1>4
<1>9. addr <= start + was /\ start + was < addr + size
  BY <1>3, <1>5, <1>6, <1>7, <1>8 DEF Pos, End
<1>10. PICK count \in Nat : /\ count = Least(request.len - copied, size - (start + was - addr))
                            /\ was + count <= request.len
                            /\ (start + was - addr) + count <= size
  BY <1>4, <1>8, <1>9 DEF Least
<1>11. IsCurrent(medium, chunk[c])
  <2>1. chunk[c].state = "Ready"
    BY <1>2 DEF ServeCopies, Answered
  <2> QED
    BY <1>1, <1>3, <2>1 DEF WindowPart, WindowInv, ReadyWasRead, Current
<1>12. /\ medium # NoMedium
       /\ \A i \in 0..(size - 1) : /\ chunk[c].data[i] = Disk!Content(medium, addr + i)
                                   /\ addr + i \notin BadOf[medium]
  <2>1. /\ medium # NoMedium
        /\ (addr .. (addr + size - 1)) \cap BadOf[medium] = {}
        /\ chunk[c].data = [i \in 0..(size - 1) |-> Disk!Content(medium, addr + i)]
    BY <1>5, <1>6, <1>11 DEF IsCurrent, Disk!Readable, Disk!Range, Disk!Bytes
  <2>2. \A i \in 0..(size - 1) : addr + i \in addr .. (addr + size - 1)
    OBVIOUS
  <2> QED
    BY <2>1, <2>2
<1>13. /\ dest' = [i \in DOMAIN dest |->
                     IF was <= i /\ i < was + count
                     THEN chunk[c].data[(start + was - addr) + i - was] ELSE dest[i]]
       /\ copied' = was + count
  BY <1>2, <1>5, <1>6, <1>7, <1>8, <1>10 DEF ServeCopies, CopyCount, Pos
<1>14. /\ UNCHANGED <<medium, inner, chunk, window, has_last, last_end, last_size,
                      prefetch_floor, stop, worker, job, job_ok, request, answer>>
       /\ caller \in {"serve", "woken"} /\ caller' = "serve"
  BY DEF ServeCopies, windowVars, workerVars
<1>15. WindowPart'
  BY <1>1, <1>14, WindowStays DEF windowVars, workerVars
<1>16. RestTyped' /\ InnerHeld'
  <2>1. copied' \in 0..request'.len
    BY <1>4, <1>10, <1>13, <1>14
  <2> QED
    BY <1>1, <1>14, <2>1 DEF RestTyped, InnerHeld, CallerStates
<1>17. /\ DOMAIN dest = 0..(request.len - 1) /\ ~NotStreamed(request) /\ answer = NoAnswer
       /\ \A i \in 0..(was - 1) :
            /\ dest[i] = Disk!Content(medium, start + i)
            /\ medium # NoMedium /\ start + i \notin BadOf[medium]
  <2>1. dest = [i \in 0..(request.len - 1) |-> dest[i]]
    BY <1>1, <1>14 DEF CallInv, CallKnown, Streaming, Reading
  <2>2. ~NotStreamed(request) /\ answer = NoAnswer
    BY <1>1, <1>14 DEF CallInv, CallKnown, Streaming, Reading
  <2> QED
    BY <1>1, <1>7, <1>8, <1>14, <2>1, <2>2 DEF CallInv, ServedPart, Streaming
<1>18. dest' = [i \in 0..(request'.len - 1) |-> dest'[i]]
  BY <1>13, <1>14, <1>17
<1>19. CallKnown'
  BY <1>14, <1>17, <1>18 DEF CallKnown, Streaming, Reading, NotStreamed
<1>20. ASSUME NEW i \in 0..(was + count - 1)
       PROVE  /\ dest'[i] = Disk!Content(medium, start + i)
              /\ medium # NoMedium /\ start + i \notin BadOf[medium]
  <2>0. DOMAIN dest = 0..(request.len - 1)
    BY <1>17
  <2>1. i \in DOMAIN dest
    <3>1. i <= request.len - 1
      BY <1>4, <1>10
    <3> QED
      BY <1>4, <2>0, <3>1
  <2>2. CASE i < was
    <3>1. dest'[i] = dest[i] /\ i \in 0..(was - 1)
      BY <1>13, <2>1, <2>2
    <3> QED
      BY <1>17, <3>1
  <2>3. CASE i >= was
    <3>1. PICK o \in Int : o = (start + was - addr) + i - was
      OBVIOUS
    <3>2. o \in 0..(size - 1) /\ addr + o = start + i
      BY <1>9, <1>10, <2>3, <3>1
    <3>3. dest'[i] = chunk[c].data[o]
      BY <1>13, <2>1, <2>3, <3>1
    <3> QED
      BY <1>12, <3>2, <3>3
  <2> QED
    BY <2>2, <2>3
<1>21. ServedPart'
  <2>1. copied' = was + count /\ request'.start = start /\ medium' = medium
    BY <1>7, <1>13, <1>14
  <2>2. \A i \in 0..(copied' - 1) :
          /\ dest'[i] = Disk!Content(medium', request'.start + i)
          /\ medium' # NoMedium /\ request'.start + i \notin BadOf[medium']
    BY <1>20, <2>1
  <2> QED
    BY <2>2 DEF ServedPart
<1>22. ReadEnds'
  BY <1>14 DEF ReadEnds
<1> QED
  BY <1>15, <1>16, <1>19, <1>21, <1>22, InvNext DEF CallInv

\* The leading bytes are served, from places that can be read.
Served ==
  \A i \in 0..(copied - 1) :
    /\ dest[i] = Disk!Content(medium, request.start + i)
    /\ medium # NoMedium /\ request.start + i \notin BadOf[medium]

\* The wrapped reader can read what is left exactly when it could read the whole
\* request, and gives what the window did not.
LEMMA RestOfRead ==
  ASSUME RestTyped, ~NotStreamed(request), Served,
         dest = [i \in 0..(request.len - 1) |-> dest[i]]
  PROVE  /\ Disk!Readable(medium, Rest) <=> Disk!Readable(medium, request)
         /\ Filled = Disk!Bytes(medium, request)
<1>1. PICK start \in Int : start = request.start
  BY DEF RestTyped
<1>2. PICK len \in Nat : len = request.len
  BY DEF RestTyped
<1>3. PICK was \in Nat : was = copied
  BY <1>2 DEF RestTyped
<1>4. /\ AddrMax \in Nat /\ was <= len /\ start >= 0 /\ len <= AddrMax - start
  BY <1>1, <1>2, <1>3, ReaderAssumption DEF RestTyped, NotStreamed
<1>5. \A i \in 0..(was - 1) : /\ dest[i] = Disk!Content(medium, start + i)
                              /\ medium # NoMedium /\ start + i \notin BadOf[medium]
  BY <1>1, <1>3 DEF Served
<1>6. Rest.start = start + was /\ Rest.len = len - was
  BY <1>1, <1>2, <1>3 DEF Rest, Pos
<1>7. ASSUME Disk!Readable(medium, request) PROVE Disk!Readable(medium, Rest)
  <2>1. /\ medium # NoMedium
        /\ (start .. (start + len - 1)) \subseteq 0..(AddrMax - 1)
        /\ (start .. (start + len - 1)) \cap BadOf[medium] = {}
    BY <1>1, <1>2, <1>7 DEF Disk!Readable, Disk!Range
  <2>2. ((start + was) .. ((start + was) + (len - was) - 1)) \subseteq start .. (start + len - 1)
    BY <1>4
  <2>3. start + was >= 0
    BY <1>4
  <2> QED
    BY <1>6, <2>1, <2>2, <2>3 DEF Disk!Readable, Disk!Range
<1>8. ASSUME Disk!Readable(medium, Rest) PROVE Disk!Readable(medium, request)
  <2>1. /\ medium # NoMedium
        /\ ((start + was) .. ((start + was) + (len - was) - 1)) \cap BadOf[medium] = {}
    BY <1>6, <1>8 DEF Disk!Readable, Disk!Range
  <2>2. ASSUME NEW a \in start .. (start + len - 1)
        PROVE  a \notin BadOf[medium] /\ a \in 0..(AddrMax - 1)
    <3>1. CASE a < start + was
      <4>1. PICK i \in 0..(was - 1) : start + i = a
        <5>1. a - start \in 0..(was - 1) /\ start + (a - start) = a
          BY <3>1
        <5> QED
          BY <5>1
      <4>2. start + i \notin BadOf[medium]
        BY <1>5
      <4>3. a \in 0..(AddrMax - 1)
        BY <1>4, <2>2
      <4> QED
        BY <4>1, <4>2, <4>3
    <3>2. CASE a >= start + was
      <4>1. a \in (start + was) .. ((start + was) + (len - was) - 1)
        BY <1>4, <3>2
      <4> QED
        BY <1>4, <2>1, <4>1
    <3> QED
      BY <3>1, <3>2
  <2>3. /\ (start .. (start + len - 1)) \subseteq 0..(AddrMax - 1)
        /\ (start .. (start + len - 1)) \cap BadOf[medium] = {}
    BY <2>2
  <2> QED
    BY <1>1, <1>2, <1>4, <2>1, <2>3 DEF Disk!Readable, Disk!Range
<1>9. Filled = Disk!Bytes(medium, request)
  <2>1. \A j \in 0..((len - was) - 1) :
          Disk!Bytes(medium, Rest)[j] = Disk!Content(medium, (start + was) + j)
    BY <1>6 DEF Disk!Bytes
  <2>2. Filled = [i \in 0..(len - 1) |-> IF i < was THEN dest[i]
                                         ELSE Disk!Bytes(medium, Rest)[i - was]]
    BY <1>2, <1>3 DEF Filled
  <2>3. ASSUME NEW i \in 0..(len - 1)
        PROVE  Filled[i] = Disk!Content(medium, start + i)
    <3>1. CASE i < was
      <4>1. i \in 0..(was - 1) /\ Filled[i] = dest[i]
        BY <2>2, <3>1
      <4> QED
        BY <1>5, <4>1
    <3>2. CASE i >= was
      <4>1. PICK j \in 0..((len - was) - 1) : j = i - was
        BY <1>4, <3>2
      <4>2. (start + was) + j = start + i
        BY <4>1
      <4>3. Filled[i] = Disk!Bytes(medium, Rest)[j]
        BY <2>2, <3>2, <4>1
      <4> QED
        BY <2>1, <4>2, <4>3
    <3> QED
      BY <3>1, <3>2
  <2>4. Disk!Bytes(medium, request) = [i \in 0..(len - 1) |-> Disk!Content(medium, start + i)]
    BY <1>1, <1>2 DEF Disk!Bytes
  <2> QED
    BY <2>2, <2>3, <2>4
<1> QED
  BY <1>7, <1>8, <1>9

\* What the invariant says of a call that streams.
LEMMA StreamKnown ==
  ASSUME CallInv, caller \in Streaming
  PROVE  /\ ~NotStreamed(request) /\ answer = NoAnswer
         /\ dest = [i \in 0..(request.len - 1) |-> dest[i]]
         /\ caller # "relock_ok" => Served
<1>1. ~NotStreamed(request) /\ answer = NoAnswer
  BY DEF CallInv, CallKnown, Reading
<1>2. dest = [i \in 0..(request.len - 1) |-> dest[i]]
  BY DEF CallInv, CallKnown, Reading
<1>3. caller # "relock_ok" => Served
  BY DEF CallInv, ServedPart, Served
<1> QED
  BY <1>1, <1>2, <1>3

\* A call that returns leaves nothing behind.
LEMMA ReturnsHolds ==
  ASSUME caller' = "idle", request' = Disk!NoRequest, copied' = 0
  PROVE  CallInv' /\ request' \in [start : Int, len : Nat] /\ copied' \in 0..request'.len
<1>1. 0..(copied' - 1) = {}
  OBVIOUS
<1>2. CallKnown'
  BY DEF CallKnown, Streaming, Reading
<1>3. ServedPart' /\ ReadEnds'
  BY <1>1 DEF ServedPart, ReadEnds, Streaming
<1>4. request' \in [start : Int, len : Nat] /\ copied' \in 0..request'.len
  BY DEF Disk!NoRequest
<1> QED
  BY <1>2, <1>3, <1>4 DEF CallInv

\* The direct read of what is left.
LEMMA DirectReadsHolds ==
  ASSUME IInv, DirectReads
  PROVE  IInv'
<1>1. TypeOK /\ RestTyped /\ WindowPart /\ InnerHeld /\ CallInv
  BY InvParts
<1>2. /\ UNCHANGED <<medium, chunk, window, has_last, last_end, last_size, prefetch_floor,
                     stop, worker, job, job_ok>>
      /\ caller = "direct" /\ inner' = "free"
  BY DEF DirectReads, windowVars, workerVars
<1>3. WindowPart'
  BY <1>1, <1>2, WindowStays DEF windowVars, workerVars
<1>4. /\ ~NotStreamed(request) /\ answer = NoAnswer /\ Served
      /\ dest = [i \in 0..(request.len - 1) |-> dest[i]]
  BY <1>1, <1>2, StreamKnown DEF Streaming
<1>5. /\ Disk!Readable(medium, Rest) <=> Disk!Readable(medium, request)
      /\ Filled = Disk!Bytes(medium, request)
  BY <1>1, <1>4, RestOfRead
<1>6. worker # "reading"
  BY <1>1, <1>2 DEF InnerHeld
<1>7. CASE /\ Disk!Readable(medium, Rest) /\ dest' = Filled /\ caller' = "relock_ok"
           /\ UNCHANGED <<request, copied, answer>>
  <2>1. RestTyped' /\ InnerHeld'
    BY <1>1, <1>2, <1>6, <1>7 DEF RestTyped, InnerHeld, CallerStates
  <2>2. dest' = [i \in 0..(request'.len - 1) |-> dest'[i]]
    BY <1>5, <1>7 DEF Disk!Bytes
  <2>3. CallKnown'
    BY <1>4, <1>7, <2>2 DEF CallKnown, Streaming, Reading, NotStreamed
  <2>4. ServedPart'
    BY <1>7 DEF ServedPart
  <2>5. ReadEnds'
    BY <1>2, <1>5, <1>7 DEF ReadEnds
  <2> QED
    BY <1>3, <2>1, <2>3, <2>4, <2>5, InvNext DEF CallInv
<1>8. CASE ~Disk!Readable(medium, Rest) /\ caller' = "relock_failed" /\ UNCHANGED callVars
  <2>0. UNCHANGED <<request, dest, copied, answer>>
    BY <1>8 DEF callVars
  <2>1. RestTyped' /\ InnerHeld'
    BY <1>1, <1>2, <1>6, <1>8, <2>0 DEF RestTyped, InnerHeld, CallerStates
  <2>3. CallKnown'
    BY <1>4, <1>8, <2>0 DEF CallKnown, Streaming, Reading, NotStreamed
  <2>4. ServedPart'
    BY <1>2, <1>4, <2>0 DEF ServedPart, Served
  <2>5. ReadEnds'
    BY <1>2, <1>5, <1>8, <2>0 DEF ReadEnds
  <2> QED
    BY <1>3, <2>1, <2>3, <2>4, <2>5, InvNext DEF CallInv
<1>9. CASE Returns(FALSE, dest)
  <2>1. CallInv' /\ request' \in [start : Int, len : Nat] /\ copied' \in 0..request'.len
        /\ caller' = "idle"
    BY <1>9, ReturnsHolds DEF Returns
  <2>2. RestTyped' /\ InnerHeld'
    BY <1>1, <1>2, <1>6, <2>1 DEF RestTyped, InnerHeld, CallerStates
  <2> QED
    BY <1>3, <2>1, <2>2, InvNext
<1> QED
  BY <1>7, <1>8, <1>9 DEF DirectReads

LEMMA DirectOnlyReadsHolds ==
  ASSUME IInv, DirectOnlyReads
  PROVE  IInv'
<1>1. TypeOK /\ RestTyped /\ WindowPart /\ InnerHeld /\ CallInv
  BY InvParts
<1>2. /\ UNCHANGED <<medium, chunk, window, has_last, last_end, last_size, prefetch_floor,
                     stop, worker, job, job_ok>>
      /\ caller = "direct_only" /\ inner' = "free"
      /\ caller' = "idle" /\ request' = Disk!NoRequest /\ copied' = 0
  BY DEF DirectOnlyReads, windowVars, workerVars, Returns
<1>3. WindowPart'
  BY <1>1, <1>2, WindowStays DEF windowVars, workerVars
<1>4. CallInv' /\ request' \in [start : Int, len : Nat] /\ copied' \in 0..request'.len
  BY <1>2, ReturnsHolds
<1>5. RestTyped' /\ InnerHeld'
  BY <1>1, <1>2, <1>4 DEF RestTyped, InnerHeld, CallerStates
<1> QED
  BY <1>3, <1>4, <1>5, InvNext

\* A read that was served, or failed, forgets the window where it must.
LEMMA DropsHolds ==
  ASSUME IInv, ServeDrops \/ ReadFails \/ CallOpen \/ Destroy
  PROVE  IInv'
<1>1. TypeOK /\ RestTyped /\ WindowPart /\ InnerHeld /\ CallInv
  BY InvParts
<1>2. /\ DropWindow
      /\ UNCHANGED <<medium, inner, worker, job, job_ok, last_end, last_size>>
      /\ has_last' \in {has_last, FALSE} /\ stop' \in {stop, TRUE}
  BY DEF ServeDrops, ReadFails, CallOpen, Destroy, Forget, workerVars
<1>3. WindowPart' /\ window' = <<>>
  BY <1>1, <1>2, DropWindowHolds DEF WindowPart
<1>4. /\ window' \in Seq(Ids) /\ inner' = inner /\ worker' = worker
      /\ has_last' \in BOOLEAN /\ stop' \in BOOLEAN
  <2>1. has_last' \in BOOLEAN /\ stop' \in BOOLEAN
    BY <1>1, <1>2, Zenon DEF RestTyped
  <2>2. window' \in Seq(Ids)
    BY <1>3
  <2> QED
    BY <1>2, <2>1, <2>2
<1>5. CASE ServeDrops
  <2>1. /\ UNCHANGED <<request, dest, copied, answer>>
        /\ caller \in {"serve", "woken"} /\ caller' = "served"
        /\ Wanted # NoChunk /\ prefetch_floor' = End(Wanted)
    BY <1>5 DEF ServeDrops, callVars
  <2>2. PICK j \in DOMAIN window : window[j] = Wanted
    BY <1>1, <2>1, HoldingFinds DEF Wanted, WindowPart
  <2>3. prefetch_floor' \in 0..AddrMax
    <3>1. End(window[j]) <= AddrMax
      BY <1>1, <2>2 DEF WindowPart, WindowInv, WindowShape
    <3>2. End(window[j]) \in Nat
      BY <1>1, <2>2, WindowTyped DEF WindowPart, End
    <3> QED
      BY <2>1, <2>2, <3>1, <3>2, ReaderAssumption
  <2>4. RestTyped' /\ InnerHeld'
    BY <1>1, <1>2, <1>4, <2>1, <2>3 DEF RestTyped, InnerHeld, CallerStates
  <2>5. CallKnown'
    BY <1>1, <2>1 DEF CallInv, CallKnown, Streaming, Reading, NotStreamed
  <2>6. ServedPart'
    BY <1>1, <1>2, <2>1 DEF CallInv, ServedPart, Streaming
  <2>7. ReadEnds'
    BY <2>1 DEF ReadEnds
  <2> QED
    BY <1>3, <2>4, <2>5, <2>6, <2>7, InvNext DEF CallInv
<1>6. CASE ReadFails
  <2>1. /\ caller' = "idle" /\ request' = Disk!NoRequest /\ copied' = 0
        /\ prefetch_floor' = prefetch_floor /\ caller = "relock_failed"
    BY <1>6 DEF ReadFails, Returns
  <2>2. CallInv' /\ request' \in [start : Int, len : Nat] /\ copied' \in 0..request'.len
    BY <2>1, ReturnsHolds
  <2>3. RestTyped' /\ InnerHeld'
    BY <1>1, <1>2, <1>4, <2>1, <2>2 DEF RestTyped, InnerHeld, CallerStates
  <2> QED
    BY <1>3, <2>2, <2>3, InvNext
<1>7. CASE CallOpen \/ Destroy
  <2>1. /\ UNCHANGED <<request, dest, copied>> /\ caller = "idle"
        /\ prefetch_floor' \in {prefetch_floor, 0}
        /\ \/ caller' = "want_open" /\ answer' = NoAnswer
           \/ caller' = "notify_stop"
    BY <1>7 DEF CallOpen, Destroy, callVars
  <2>2. copied = 0 /\ request = Disk!NoRequest
    BY <1>1, <2>1 DEF CallInv, CallKnown, Streaming, Reading
  <2>3. RestTyped' /\ InnerHeld'
    <3>1. prefetch_floor' \in 0..AddrMax
      BY <1>1, <2>1, ReaderAssumption DEF RestTyped
    <3> QED
      BY <1>1, <1>2, <1>4, <2>1, <3>1 DEF RestTyped, InnerHeld, CallerStates
  <2>4. CallKnown'
    BY <1>3, <2>1, <2>2 DEF CallKnown, Streaming, Reading
  <2>5. ServedPart' /\ ReadEnds'
    BY <2>1 DEF ServedPart, ReadEnds, Streaming
  <2> QED
    BY <1>3, <2>3, <2>4, <2>5, InvNext DEF CallInv
<1> QED
  BY <1>5, <1>6, <1>7

\* What was not served goes on to the wrapped reader.
LEMMA ServedGoesOnHolds ==
  ASSUME IInv, ServedGoesOn
  PROVE  IInv'
<1>1. TypeOK /\ RestTyped /\ WindowPart /\ InnerHeld /\ CallInv
  BY InvParts
<1>2. /\ UNCHANGED <<medium, inner, has_last, last_end, last_size, prefetch_floor, stop,
                     worker, job, job_ok, request, dest, copied, answer>>
      /\ caller = "served" /\ caller' \in {"complete", "want_inner"}
      /\ caller' = "complete" => copied = request.len
  BY DEF ServedGoesOn, workerVars, callVars
<1>3. WindowPart' /\ window' \in Seq(Ids)
  <2>1. CASE DropWindow
    <3>1. WindowPart' /\ window' = <<>>
      BY <1>1, <1>2, <2>1, DropWindowHolds DEF WindowPart
    <3> QED
      BY <3>1
  <2>2. CASE UNCHANGED <<chunk, window>>
    <3>1. WindowPart'
      BY <1>1, <1>2, <2>2, WindowStays DEF windowVars, workerVars
    <3> QED
      BY <1>1, <2>2, <3>1 DEF RestTyped
  <2> QED
    BY <2>1, <2>2 DEF ServedGoesOn
<1>4. RestTyped' /\ InnerHeld'
  BY <1>1, <1>2, <1>3 DEF RestTyped, InnerHeld, CallerStates
<1>5. CallKnown'
  BY <1>1, <1>2 DEF CallInv, CallKnown, Streaming, Reading, NotStreamed
<1>6. ServedPart' /\ ReadEnds'
  BY <1>1, <1>2 DEF CallInv, ServedPart, ReadEnds, Streaming
<1> QED
  BY <1>3, <1>4, <1>5, <1>6, InvNext DEF CallInv

\* The read is complete, and the window moves with it.
LEMMA ReadCompletesHolds ==
  ASSUME IInv, ReadCompletes
  PROVE  IInv'
<1>1. TypeOK /\ RestTyped /\ WindowPart /\ InnerHeld /\ CallInv
  BY InvParts
<1>2. PICK end : end = request.start + request.len
  OBVIOUS
<1>3. /\ UNCHANGED <<medium, inner, prefetch_floor, stop, job, job_ok>>
      /\ caller \in {"complete", "relock_ok"} /\ has_last' = TRUE
      /\ last_end' = end /\ last_size' = request.len
      /\ caller' = "idle" /\ request' = Disk!NoRequest /\ copied' = 0
      /\ TrimAndTopUp(end, request.len) \/ UNCHANGED <<chunk, window, worker>>
  BY <1>2 DEF ReadCompletes, Returns
<1>4. end \in 0..AddrMax /\ end \in Nat /\ request.len \in Nat
  <2>1. ~NotStreamed(request)
    BY <1>1, <1>3, StreamKnown DEF Streaming
  <2>2. request.start \in Int /\ request.len \in Nat /\ AddrMax \in Nat
    BY <1>1, ReaderAssumption DEF RestTyped
  <2> QED
    BY <1>2, <2>1, <2>2 DEF NotStreamed
<1>5. /\ WindowPart' /\ window' \in Seq(Ids)
      /\ worker' = worker \/ (worker \in {"absent", "asleep"} /\ worker' = "ready")
  <2>1. CASE TrimAndTopUp(end, request.len)
    <3>1. PICK size \in Nat : size = request.len
      BY <1>4
    <3>2. TrimAndTopUp(end, size)
      BY <2>1, <3>1
    <3> QED
      BY <1>1, <1>3, <1>4, <3>2, TopUpHolds DEF WindowPart
  <2>2. CASE UNCHANGED <<chunk, window, worker>>
    <3>1. /\ ChunksTyped' /\ WindowInv' /\ JobKnown' /\ NothingForgotten'
      <4>1. ChunksTyped'
        BY <1>1, <2>2 DEF WindowPart, ChunksTyped
      <4>2. WindowInv'
        BY <1>1, <1>3, <2>2 DEF WindowPart, WindowInv, WindowShape, OnceInWindow, FloorUnder,
                                ReadyWasRead, Current, End
      <4>3. JobKnown' /\ NothingForgotten'
        BY <1>1, <1>3, <2>2 DEF WindowPart, JobKnown, Current, NothingForgotten, NextQueued
      <4> QED
        BY <4>1, <4>2, <4>3
    <3> QED
      BY <1>1, <2>2, <3>1 DEF WindowPart, RestTyped
  <2> QED
    BY <1>3, <2>1, <2>2
<1>6. CallInv' /\ request' \in [start : Int, len : Nat] /\ copied' \in 0..request'.len
  BY <1>3, ReturnsHolds
<1>7. RestTyped' /\ InnerHeld'
  BY <1>1, <1>3, <1>4, <1>5, <1>6 DEF RestTyped, InnerHeld, CallerStates, WorkerStates
<1> QED
  BY <1>5, <1>6, <1>7, InvNext

\* The medium changes under an empty window, with the worker outside of the
\* wrapped reader.
LEMMA OpenInnerHolds ==
  ASSUME IInv, OpenInner
  PROVE  IInv'
<1>1. TypeOK /\ RestTyped /\ WindowPart /\ InnerHeld /\ CallInv
  BY InvParts
<1>2. /\ UNCHANGED <<inner, chunk, window, has_last, last_end, last_size, prefetch_floor,
                     stop, worker, job, job_ok, request, dest, copied, answer>>
      /\ medium' \in Media \cup {NoMedium} /\ caller = "want_open" /\ caller' = "idle"
  BY DEF OpenInner, windowVars, workerVars, callVars
<1>3. window = <<>> /\ copied = 0 /\ request = Disk!NoRequest
  BY <1>1, <1>2 DEF CallInv, CallKnown, Streaming, Reading
<1>4. WindowPart'
  <2>1. ChunksTyped'
    BY <1>1, <1>2 DEF WindowPart, ChunksTyped
  <2>2. WindowInv'
    BY <1>2, <1>3, ReaderAssumption DEF WindowInv, WindowShape, OnceInWindow, FloorUnder,
                                        ReadyWasRead
  <2>3. JobKnown'
    <3>1. ToSet(window) = {}
      BY <1>3 DEF ToSet
    <3> QED
      BY <1>1, <1>2, <3>1 DEF WindowPart, JobKnown
  <2>4. NothingForgotten'
    BY <1>1, <1>2 DEF WindowPart, NothingForgotten, NextQueued
  <2> QED
    BY <2>1, <2>2, <2>3, <2>4 DEF WindowPart
<1>5. CallInv' /\ request' \in [start : Int, len : Nat] /\ copied' \in 0..request'.len
  BY <1>2, <1>3, ReturnsHolds
<1>6. RestTyped' /\ InnerHeld'
  BY <1>1, <1>2 DEF RestTyped, InnerHeld, CallerStates
<1> QED
  BY <1>4, <1>5, <1>6, InvNext

\* The hints, and the end of the destructor.
LEMMA OtherCallsHolds ==
  ASSUME IInv, CallHint \/ HintPassed \/ DestroyNotifies \/ DestroyJoins
  PROVE  IInv'
<1>1. TypeOK /\ RestTyped /\ WindowPart /\ InnerHeld /\ CallInv
  BY InvParts
<1>2. /\ UNCHANGED <<medium, inner, chunk, window, has_last, last_end, last_size, prefetch_floor,
                     stop, job, job_ok, request, dest, copied>>
      /\ caller \in {"idle", "want_hint", "notify_stop", "join"}
      /\ \/ caller' \in {"idle", "join", "gone"} /\ answer' = answer
         \/ caller' = "want_hint" /\ answer' = NoAnswer
      /\ worker' = worker \/ (worker = "asleep" /\ worker' = "ready")
  BY DEF CallHint, HintPassed, DestroyNotifies, DestroyJoins, windowVars, workerVars, callVars
<1>3. copied = 0 /\ request = Disk!NoRequest
  BY <1>1, <1>2 DEF CallInv, CallKnown, Streaming, Reading
<1>4. WindowPart'
  <2>1. ChunksTyped'
    BY <1>1, <1>2 DEF WindowPart, ChunksTyped
  <2>2. WindowInv'
    BY <1>1, <1>2 DEF WindowPart, WindowInv, WindowShape, OnceInWindow, FloorUnder,
                      ReadyWasRead, Current, End
  <2>3. JobKnown' /\ NothingForgotten'
    BY <1>1, <1>2 DEF WindowPart, JobKnown, Current, NothingForgotten, NextQueued
  <2> QED
    BY <2>1, <2>2, <2>3 DEF WindowPart
<1>5. CallKnown'
  BY <1>2, <1>3 DEF CallKnown, Streaming, Reading
<1>6. ServedPart' /\ ReadEnds'
  BY <1>2 DEF ServedPart, ReadEnds, Streaming
<1>7. RestTyped' /\ InnerHeld'
  BY <1>1, <1>2 DEF RestTyped, InnerHeld, CallerStates, WorkerStates
<1> QED
  BY <1>4, <1>5, <1>6, <1>7, InvNext DEF CallInv
----------------------------------------------------------------------------
(* The theorems. *)

LEMMA InitHolds ==
  ASSUME Init
  PROVE  IInv
<1>1. /\ chunk = [c \in Ids |-> Freed] /\ window = <<>> /\ job = NoChunk /\ worker = "absent"
      /\ caller = "idle" /\ copied = 0 /\ request = Disk!NoRequest /\ inner = "free"
  BY DEF Init
<1>2. /\ Freed.data = <<>>
      /\ Freed \in [addr : Nat, size : Nat, state : ChunkStates, cancelled : BOOLEAN,
                    data : {Freed.data}]
  BY DEF Freed, ChunkStates
<1>3. ChunksTyped
  BY <1>1, <1>2 DEF ChunksTyped
<1>4. TypeOK
  <2>1. request \in [start : Int, len : Nat] /\ copied \in 0..request.len
    BY <1>1 DEF Disk!NoRequest
  <2>2. 0 \in 0..AddrMax
    BY ReaderAssumption
  <2>3. window \in Seq(Ids)
    BY <1>1
  <2> QED
    BY <1>3, <2>1, <2>2, <2>3, ChunksFit DEF Init, TypeOK, WorkerStates, CallerStates
<1>5. WindowInv
  BY <1>1, ReaderAssumption DEF WindowInv, WindowShape, OnceInWindow, FloorUnder, ReadyWasRead
<1>6. JobKnown /\ InnerHeld
  BY <1>1 DEF JobKnown, InnerHeld
<1>7. NothingForgotten
  BY <1>1 DEF NothingForgotten, NextQueued
<1>8. CallInv
  BY <1>1 DEF CallInv, CallKnown, ServedPart, ReadEnds, Streaming, Reading
<1> QED
  BY <1>3, <1>4, <1>5, <1>6, <1>7, <1>8 DEF IInv

LEMMA NextHolds ==
  ASSUME IInv, [Next]_vars
  PROVE  IInv'
<1>1. CASE WorkerStep
  BY <1>1, WorkerCheckHolds, WorkerMovesHolds, WorkerReadsHolds, WorkerRecordsHolds
     DEF WorkerStep
<1>2. CASE CallerStep
  BY <1>2, ServeMovesHolds, ServeCopiesHolds, DropsHolds, ServedGoesOnHolds, DirectReadsHolds,
     DirectOnlyReadsHolds, ReadCompletesHolds, OpenInnerHolds, OtherCallsHolds
     DEF CallerStep
<1>3. CASE \/ WorkerSpurious \/ ServeSpurious \/ CallReadInto \/ CallOpen \/ CallHint \/ Destroy
  BY <1>3, WorkerMovesHolds, ServeMovesHolds, CallReadIntoHolds, DropsHolds, OtherCallsHolds
<1>4. CASE Gone \/ UNCHANGED vars
  BY <1>4, NothingHappens DEF Gone
<1> QED
  BY <1>1, <1>2, <1>3, <1>4 DEF Next

\* IInv holds whatever the two threads do.
THEOREM Invariance == Spec => []IInv
  BY InitHolds, NextHolds, PTL DEF Spec

\* The state of the decorator keeps its types.
THEOREM TypeCorrect == Spec => []TypeOK
<1>1. IInv => TypeOK
  BY DEF IInv
<1> QED
  BY <1>1, Invariance, PTL

\* The chunks of the window follow each other and none of them was dropped, and one
\* that is ready has the bytes of the medium that is open now, whatever Open(),
\* ReadInto() and the worker did in the meantime.
THEOREM WindowStaysSound == Spec => []WindowIsSound
<1>1. ASSUME IInv PROVE WindowIsSound
  <2>1. WindowShape /\ ReadyWasRead
    BY <1>1 DEF IInv, WindowInv
  <2>2. ReadyIsCurrent
    BY <2>1 DEF ReadyIsCurrent, ReadyWasRead, Current, IsCurrent
  <2> QED
    BY <2>1, <2>2 DEF WindowIsSound
<1> QED
  BY <1>1, Invariance, PTL

\* The wake-up of the worker is never lost: it sleeps, or was not started, only
\* while the window has nothing queued.
THEOREM NothingIsForgotten == Spec => []NothingForgotten
<1>1. IInv => NothingForgotten
  BY DEF IInv
<1> QED
  BY <1>1, Invariance, PTL

\* Only WorkerEnters sends the worker into the wrapped reader.
LEMMA OnlyEnters ==
  ASSUME IInv, Next, ~WorkerEnters, worker = "want_inner"
  PROVE  worker' # "reading"
<1>1. CASE WorkerStep
  BY <1>1 DEF WorkerStep, WorkerCheck, WorkerReads, WorkerRecords
<1>2. CASE ReadCompletes
  <2>1. worker' = worker \/ TrimAndTopUp(request.start + request.len, request.len)
    BY <1>2 DEF ReadCompletes
  <2>2. ASSUME NEW kept, NEW left, NEW first, NEW bytes, TopUp(kept, left, first, bytes)
        PROVE  worker' = worker
    BY <2>2 DEF TopUp, QueueChunks, Notified
  <2> QED
    BY <2>1, <2>2 DEF TrimAndTopUp
<1>3. CASE CallerStep /\ ~ReadCompletes
  BY <1>3 DEF CallerStep, ServeEnds, ServeWaits, ServeCopies, ServeDrops, ServedGoesOn,
              DirectEnters, DirectReads, DirectOnlyReads, ReadFails, OpenInner, HintPassed,
              DestroyNotifies, DestroyJoins, workerVars
<1>4. CASE ~WorkerStep /\ ~CallerStep
  BY <1>4 DEF Next, WorkerSpurious, ServeSpurious, CallReadInto, CallOpen, CallHint, Destroy,
              Gone, workerVars, vars
<1> QED
  BY <1>1, <1>2, <1>3, <1>4 DEF CallerStep

\* Only a chunk that could not be read, and Open(), move the floor.
LEMMA FloorMoves ==
  ASSUME Next, ~ServeDrops, ~CallOpen
  PROVE  prefetch_floor' = prefetch_floor
<1>1. CASE WorkerStep
  BY <1>1 DEF WorkerStep, WorkerCheck, WorkerEnters, WorkerReads, WorkerRecords, windowVars
<1>2. CASE CallerStep
  BY <1>2 DEF CallerStep, ServeEnds, ServeWaits, ServeCopies, ServedGoesOn,
              DirectEnters, DirectReads, DirectOnlyReads, ReadFails, ReadCompletes, OpenInner,
              HintPassed, DestroyNotifies, DestroyJoins, windowVars
<1>3. CASE ~WorkerStep /\ ~CallerStep
  BY <1>3 DEF Next, WorkerSpurious, ServeSpurious, CallReadInto, CallHint, Destroy,
              Gone, windowVars, vars
<1> QED
  BY <1>1, <1>2, <1>3

\* The caller leaves a bad place with the floor at its end.
LEMMA BadPlaceLeft ==
  ASSUME Next, TypeOK, MeetsBadPlace, caller' = "served"
  PROVE  prefetch_floor' = End(Wanted)
<1>1. caller \in {"serve", "woken"} /\ copied # request.len /\ Wanted # NoChunk
      /\ chunk[Wanted].state = "Failed"
  <2>1. copied \in Nat /\ request.len \in Nat
    BY DEF TypeOK
  <2> QED
    BY <2>1 DEF MeetsBadPlace
<1>2. CASE WorkerStep
  BY <1>1, <1>2 DEF WorkerStep, WorkerCheck, WorkerEnters, WorkerReads, WorkerRecords
<1>3. CASE ServeDrops
  BY <1>3 DEF ServeDrops
<1>4. CASE CallerStep /\ ~ServeDrops
  BY <1>1, <1>4 DEF CallerStep, ServeEnds, ServeWaits, ServeCopies, ServedGoesOn,
              DirectEnters, DirectReads, DirectOnlyReads, ReadFails, ReadCompletes, OpenInner,
              HintPassed, DestroyNotifies, DestroyJoins
<1>5. CASE ~WorkerStep /\ ~CallerStep
  BY <1>1, <1>5 DEF Next, WorkerSpurious, ServeSpurious, CallReadInto, CallOpen, CallHint,
              Destroy, Gone, vars
<1> QED
  BY <1>2, <1>3, <1>4, <1>5

\* The worker enters the wrapped reader for no chunk that was dropped, and for none
\* that starts below the end of a chunk the caller found bad since the last Open().
THEOREM ReadsNothingInVain == Spec => NoReadInVain
<1>1. ASSUME IInv, [Next]_vars PROVE [DroppedNotRead /\ BadPlaceNotRetried]_vars
  <2> SUFFICES ASSUME Next PROVE DroppedNotRead /\ BadPlaceNotRetried
    BY <1>1
  <2>1. TypeOK /\ RestTyped /\ WindowPart
    BY <1>1, InvParts
  <2>2. DroppedNotRead
    <3> SUFFICES ASSUME worker = "want_inner", worker' = "reading" PROVE job \in ToSet(window)
      BY DEF DroppedNotRead
    <3>1. WorkerEnters
      BY <1>1, OnlyEnters
    <3>2. ~chunk[job].cancelled
      BY <3>1 DEF WorkerEnters, Skipped
    <3> QED
      BY <2>1, <3>2 DEF WindowPart, JobKnown
  <2>3. worker = "want_inner" /\ worker' = "reading" => chunk[job].addr >= prefetch_floor
    <3> SUFFICES ASSUME worker = "want_inner", worker' = "reading"
                 PROVE  chunk[job].addr >= prefetch_floor
      OBVIOUS
    <3>1. job \in ToSet(window)
      BY <2>2 DEF DroppedNotRead
    <3>2. PICK i \in DOMAIN window : window[i] = job
      BY <3>1 DEF ToSet
    <3> QED
      BY <2>1, <3>2 DEF WindowPart, WindowInv, FloorUnder
  <2>4. MeetsBadPlace /\ caller' = "served" => prefetch_floor' >= End(Wanted)
    <3> SUFFICES ASSUME MeetsBadPlace, caller' = "served" PROVE prefetch_floor' >= End(Wanted)
      OBVIOUS
    <3>1. prefetch_floor' = End(Wanted)
      BY <2>1, BadPlaceLeft
    <3>2. PICK j \in DOMAIN window : window[j] = Wanted
      BY <2>1, HoldingFinds DEF Wanted, WindowPart, MeetsBadPlace
    <3>3. End(Wanted) \in Nat
      BY <2>1, <3>2, WindowTyped DEF WindowPart, End
    <3> QED
      BY <3>1, <3>3
  <2>5. prefetch_floor' >= prefetch_floor \/ caller' = "want_open"
    <3>1. CASE ServeDrops
      <4>1. Wanted # NoChunk /\ prefetch_floor' = End(Wanted)
        BY <3>1 DEF ServeDrops
      <4>2. PICK j \in DOMAIN window : window[j] = Wanted
        BY <2>1, <4>1, HoldingFinds DEF Wanted, WindowPart
      <4>3. /\ chunk[window[j]].addr >= prefetch_floor /\ prefetch_floor \in Nat
            /\ chunk[window[j]].addr \in Nat /\ chunk[window[j]].size \in Nat
        BY <2>1, <4>2, WindowTyped DEF WindowPart, WindowInv, FloorUnder, RestTyped
      <4> QED
        BY <4>1, <4>2, <4>3 DEF End
    <3>2. CASE CallOpen
      BY <3>2 DEF CallOpen
    <3>3. CASE ~ServeDrops /\ ~CallOpen
      <4>1. prefetch_floor' = prefetch_floor /\ prefetch_floor \in Nat
        BY <2>1, <3>3, FloorMoves DEF RestTyped
      <4> QED
        BY <4>1
    <3> QED
      BY <3>1, <3>2, <3>3
  <2> QED
    BY <2>2, <2>3, <2>4, <2>5 DEF BadPlaceNotRetried
<1> QED
  BY <1>1, Invariance, PTL DEF Spec, NoReadInVain
----------------------------------------------------------------------------
(* The decorator implements the contract of a reader. *)

\* The steps the contract does not see.
LEMMA SilentSteps ==
  ASSUME WorkerStep \/ WorkerSpurious \/ ServeEnds \/ ServeWaits \/ ServeCopies \/ ServeDrops
         \/ ServeSpurious \/ ServedGoesOn \/ DirectEnters \/ HintPassed \/ Destroy
         \/ DestroyNotifies \/ DestroyJoins \/ Gone
  PROVE  UNCHANGED Disk!vars
<1>1. CASE WorkerStep \/ WorkerSpurious
  BY <1>1 DEF WorkerStep, WorkerCheck, WorkerEnters, WorkerReads, WorkerRecords,
              WorkerSpurious, callVars, Disk!vars
<1>2. CASE \/ ServeEnds \/ ServeWaits \/ ServeCopies \/ ServeDrops \/ ServeSpurious
           \/ ServedGoesOn \/ DirectEnters
  BY <1>2 DEF ServeEnds, ServeWaits, ServeCopies, ServeDrops, ServeSpurious, ServedGoesOn,
              DirectEnters, callVars, Disk!vars
<1>3. CASE HintPassed \/ Destroy \/ DestroyNotifies \/ DestroyJoins \/ Gone
  BY <1>3 DEF HintPassed, Destroy, DestroyNotifies, DestroyJoins, Gone, callVars, vars, Disk!vars
<1> QED
  BY <1>1, <1>2, <1>3

\* The calls.
LEMMA CallsMap ==
  ASSUME IInv, CallReadInto \/ CallOpen \/ CallHint \/ OpenInner
  PROVE  Disk!Next
<1>1. RestTyped /\ CallInv
  BY InvParts
<1>2. CASE CallReadInto
  <2>1. PICK r \in Requests : request' = r
    BY <1>2 DEF CallReadInto
  <2>2. request' \in [start : Int, len : Nat] /\ answer' = NoAnswer /\ medium' = medium
    BY <1>2, <2>1, ReaderAssumption DEF CallReadInto
  <2> QED
    BY <2>2 DEF Disk!Ask, Disk!Next
<1>3. CASE CallOpen \/ CallHint
  BY <1>3 DEF CallOpen, CallHint, Disk!Hint, Disk!Next
<1>4. CASE OpenInner
  <2>1. answer = NoAnswer /\ answer' = answer /\ request' = request
    BY <1>1, <1>4 DEF OpenInner, CallInv, CallKnown, callVars
  <2> QED
    BY <1>4, <2>1 DEF OpenInner, Disk!Open, Disk!Next
<1> QED
  BY <1>2, <1>3, <1>4

\* A read answers what the contract says, and nothing else.
LEMMA ReadAnswers ==
  ASSUME IInv, DirectReads \/ DirectOnlyReads \/ ReadFails \/ ReadCompletes
  PROVE  Disk!Next \/ UNCHANGED Disk!vars
<1>1. RestTyped /\ CallInv
  BY InvParts
<1>2. medium' = medium /\ caller \in Reading
  BY DEF DirectReads, DirectOnlyReads, ReadFails, ReadCompletes, Reading, Streaming
<1>3. answer = NoAnswer
  BY <1>1, <1>2 DEF CallInv, CallKnown
<1>4. ASSUME Disk!Readable(medium, request), NEW bytes, bytes = Disk!Bytes(medium, request),
             Returns(TRUE, bytes)
      PROVE  Disk!Next
  BY <1>2, <1>3, <1>4 DEF Returns, Disk!Answer, Disk!Success, Disk!Next
<1>5. ASSUME ~Disk!Readable(medium, request), NEW bytes, Returns(FALSE, bytes)
      PROVE  Disk!Next
  BY <1>2, <1>3, <1>5 DEF Returns, Disk!Answer, Disk!Next
<1>6. CASE DirectReads
  <2>1. caller = "direct" /\ caller \in Streaming
    BY <1>6 DEF DirectReads, Streaming
  <2>2. /\ ~NotStreamed(request) /\ Served
        /\ dest = [i \in 0..(request.len - 1) |-> dest[i]]
    BY <1>1, <2>1, StreamKnown
  <2>3. Disk!Readable(medium, Rest) <=> Disk!Readable(medium, request)
    BY <1>1, <2>2, RestOfRead
  <2>4. \/ UNCHANGED <<request, answer>>
        \/ ~Disk!Readable(medium, Rest) /\ Returns(FALSE, dest)
    BY <1>6 DEF DirectReads, callVars
  <2> QED
    BY <1>2, <1>5, <2>3, <2>4 DEF Disk!vars
<1>7. CASE DirectOnlyReads
  <2>1. copied = 0 /\ dest = [i \in 0..(request.len - 1) |-> dest[i]]
    BY <1>1, <1>7 DEF DirectOnlyReads, CallInv, CallKnown, Streaming, Reading
  <2>2. Rest = request
    <3>1. request \in [start : Int, len : Nat]
      BY <1>1 DEF RestTyped
    <3>2. request.start + copied = request.start /\ request.len - copied = request.len
      BY <2>1, <3>1
    <3>3. Rest = [start |-> request.start, len |-> request.len]
      BY <3>2 DEF Rest, Pos
    <3> QED
      BY <3>1, <3>3
  <2>3. Filled = Disk!Bytes(medium, request)
    <3>1. PICK len \in Nat : len = request.len
      BY <1>1 DEF RestTyped
    <3>2. Filled = [i \in 0..(len - 1) |-> IF i < 0 THEN dest[i]
                                           ELSE Disk!Bytes(medium, request)[i - 0]]
      BY <2>1, <2>2, <3>1 DEF Filled
    <3>3. \A i \in 0..(len - 1) : Filled[i] = Disk!Bytes(medium, request)[i]
      BY <3>2
    <3>4. /\ DOMAIN Filled = 0..(len - 1)
          /\ Disk!Bytes(medium, request) = [i \in 0..(len - 1) |->
                                              Disk!Content(medium, request.start + i)]
      BY <3>1, <3>2 DEF Disk!Bytes
    <3> QED
      BY <3>2, <3>3, <3>4
  <2> QED
    BY <1>4, <1>5, <1>7, <2>2, <2>3 DEF DirectOnlyReads
<1>8. CASE ReadFails
  <2>1. ~Disk!Readable(medium, request) /\ Returns(FALSE, dest)
    BY <1>1, <1>8 DEF ReadFails, CallInv, ReadEnds
  <2> QED
    BY <1>5, <2>1
<1>9. CASE ReadCompletes
  <2>1. Returns(TRUE, dest) /\ caller \in {"complete", "relock_ok"}
    BY <1>9 DEF ReadCompletes
  <2>2. CASE caller = "relock_ok"
    BY <1>1, <1>4, <2>1, <2>2 DEF CallInv, ReadEnds
  <2>3. CASE caller = "complete"
    <3>1. copied = request.len /\ caller \in Streaming
      BY <1>1, <2>3 DEF CallInv, ReadEnds, Streaming
    <3>2. /\ ~NotStreamed(request) /\ Served
          /\ dest = [i \in 0..(request.len - 1) |-> dest[i]]
      BY <1>1, <2>3, <3>1, StreamKnown
    <3>3. dest = Disk!Bytes(medium, request)
      BY <3>1, <3>2 DEF Served, Disk!Bytes
    <3>4. Disk!Readable(medium, request)
      <4>1. PICK len \in Nat : len = request.len /\ len > 0
        BY <1>1, <3>2 DEF RestTyped, NotStreamed
      <4>2. medium # NoMedium
        <5>1. 0 \in 0..(copied - 1)
          BY <3>1, <4>1
        <5> QED
          BY <3>2, <5>1 DEF Served
      <4>3. Disk!Readable(medium, Rest)
        <5>1. Rest.len = 0 /\ Rest.start \in Nat
          BY <1>1, <3>1, <3>2 DEF Rest, Pos, RestTyped, NotStreamed
        <5>2. Rest.start .. (Rest.start + Rest.len - 1) = {}
          BY <5>1
        <5> QED
          BY <4>2, <5>1, <5>2 DEF Disk!Readable, Disk!Range
      <4> QED
        BY <1>1, <3>2, <4>3, RestOfRead
    <3> QED
      BY <1>4, <2>1, <3>3, <3>4
  <2> QED
    BY <2>1, <2>2, <2>3
<1> QED
  BY <1>6, <1>7, <1>8, <1>9

\* The decorator implements the contract of IDiskReader: whatever was read ahead,
\* a read gives the bytes of the open medium, and fails exactly where the wrapped
\* reader cannot read.
THEOREM ReaderImplementsDisk == Spec => ImplementsDisk
<1>1. ASSUME Init PROVE Disk!Init
  BY <1>1 DEF Init, Disk!Init
<1>2. ASSUME IInv, [Next]_vars PROVE [Disk!Next]_(Disk!vars)
  <2>1. CASE Next
    BY <1>2, <2>1, SilentSteps, CallsMap, ReadAnswers DEF Next, CallerStep
  <2>2. CASE UNCHANGED vars
    BY <2>2 DEF vars, callVars, Disk!vars
  <2> QED
    BY <1>2, <2>1, <2>2
<1> QED
  BY <1>1, <1>2, Invariance, PTL DEF Spec, ImplementsDisk, Disk!Spec
=============================================================================
