---------------------------- MODULE CachedReader ----------------------------
(***************************************************************************)
(* Io::FileReader<FullCache> (src/io/file-reader.cpp): reads of a volume   *)
(* through the blocks of Cache::BlockCache (src/cache/block-cache.cpp),    *)
(* answered with views (src/cache/view.cpp) that keep their bytes alive.   *)
(*                                                                         *)
(* The byte at an address is the address itself, so that bytes at a wrong  *)
(* place show. A read of the disk fails when one byte of it is bad, or     *)
(* past the end. One thread uses the reader, its cache and its views.      *)
(***************************************************************************)
EXTENDS Integers, Sequences, FiniteSets, SequencesExt, FiniteSetsExt, Functions, Selection

CONSTANTS
  BlockBytes,    \* block_bytes_
  MaxRunBlocks,  \* blocks one disk read covers at most
  MaxChecked,    \* max_checked_blocks
  MaxAddress,    \* the largest LONGLONG
  DiskSize,      \* the bytes of the medium
  BadSets,       \* the bytes that cannot be read: one of these sets
  Ceilings,      \* the values of max_cache_bytes
  Requests,      \* the reads a caller may make: a set of [addr, length]
  Views,         \* the variables of type Cache::View a caller has
  None

\* What keeps the bytes of a view: a block of the cache or a buffer of their own.
Owner == [kind : {"block", "stitched"}, id : Nat, size : Nat]

ASSUME CacheAssumption ==
  /\ BlockBytes \in Nat \ {0}
  /\ MaxRunBlocks \in Nat \ {0}
  /\ MaxChecked \in Nat
  /\ MaxAddress \in Nat
  /\ DiskSize \in Nat
  /\ Ceilings \subseteq Nat
  /\ Requests \subseteq [addr : Int, length : Nat]
  /\ IsFiniteSet(Views)
  /\ None \notin Int
  /\ None \notin Requests
  /\ None \notin Owner

VARIABLES
  bad,           \* the bytes that cannot be read
  ceiling,       \* ceiling_
  blocks,        \* the bytes of each cached block, by index
  order,         \* order_: the cached indexes, least recently used first
  stitched_bytes,\* *stitched_bytes_
  views,         \* what each view holds: its owner, where it lies, its bytes
  pc,            \* where the call of Read() is
  request,       \* what it asks for
  got,           \* the block it holds
  cur,           \* the next byte to copy
  out,           \* the bytes copied
  run,           \* run_first_, run_count_ and run_bytes_ of its loader
  failed,        \* failed_ of its loader
  hinted,        \* what Prefetch() of the same range would have announced
  dropped,       \* the blocks dropped since the call began
  disk           \* the reads of the disk it made for blocks

cache == <<blocks, order>>
loader == <<run, failed, disk>>
history == <<hinted, dropped, disk>>
call == <<pc, request, got, cur, out, run, failed, history>>
vars == <<bad, ceiling, cache, stitched_bytes, views, call>>

Cached == DOMAIN blocks
NoRun == [first |-> 0, count |-> 0, bytes |-> <<>>]
EmptyView == [owner |-> None, addr |-> 0, bytes |-> <<>>]
BlockOwner(i) == [kind |-> "block", id |-> i, size |-> 0]
Owners == {views[v].owner : v \in Views}
Buffers == {o \in Owners \ {None} : o.kind = "stitched"}
BufferIds == {o.id : o \in Buffers}

\* The bytes [first, last) of the medium, and whether they can be read.
Content(first, last) == [i \in 1..(last - first) |-> first + i - 1]
Readable(first, last) ==
  \A a \in first..(last - 1) : a \in 0..(DiskSize - 1) /\ a \notin bad
End(r) == r.addr + r.length
BlockOf(a) == a \div BlockBytes
LastIndex == BlockOf(End(request) - 1)
CrossesBlock(r) == BlockOf(r.addr) # BlockOf(End(r) - 1)

Init ==
  /\ bad \in BadSets
  /\ ceiling \in Ceilings
  /\ blocks = [i \in {} |-> <<>>]
  /\ order = <<>>
  /\ stitched_bytes = 0
  /\ views = [v \in Views |-> EmptyView]
  /\ pc = "idle"
  /\ request = None
  /\ got = None
  /\ cur = 0
  /\ out = <<>>
  /\ run = NoRun
  /\ failed = FALSE
  /\ hinted = {}
  /\ dropped = {}
  /\ disk = <<>>
----------------------------------------------------------------------------
(* BlockCache *)

\* A fault: a hit is noted behind the other uses of the block.
TouchedFault(i) == Append(order, i)

\* Find() of a block that is cached: it is the most recently used one.
Touched(i) == Append(Select(order, Cached \ {i}), i)

\* Insert()
Insert(i, bytes) ==
  /\ blocks' = [j \in Cached \cup {i} |-> IF j = i THEN bytes ELSE blocks[j]]
  /\ order' = Append(order, i)

\* HeldBytes()
HeldBytes(stitched) == BlockBytes * Cardinality(Cached) + stitched

\* A fault: the first view of a block does not keep it.
InUseFault(i, vs, held) == Cardinality({v \in Views : vs[v].owner = BlockOwner(i)}) > 1

\* use_count() > 1: a view holds the block, or the read in progress.
InUse(i, vs, held) == i = held \/ \E v \in Views : vs[v].owner = BlockOwner(i)

Unused(vs, held) == Select(order, {i \in Cached : ~InUse(i, vs, held)})

\* Trim(): the fewest unused blocks that bring the total back under the
\* ceiling go, least recently used first, or all of them.
Trimmed(vs, held, stitched) ==
  LET unused == Unused(vs, held)
      over == HeldBytes(stitched) - ceiling
      count == (over + BlockBytes - 1) \div BlockBytes
  IN  IF over <= 0 THEN {}
      ELSE {unused[k] : k \in 1..Min({count, Len(unused)})}

Drop(gone) ==
  /\ blocks' = Restrict(blocks, Cached \ gone)
  /\ order' = Select(order, Cached \ gone)

\* The tally of the stitched buffers once size bytes of them are destroyed.
Uncounted(size, tally) == IF tally >= size THEN tally - size ELSE 0
----------------------------------------------------------------------------
(* The ranges FileReader announces to its reader. *)

\* A fault: the block a range ends in is left out.
BlockEndFault(end) == end - (end % BlockBytes)

\* The end of the block that a range ends in.
BlockEnd(end) == (end + BlockBytes - 1) - ((end + BlockBytes - 1) % BlockBytes)

Span(first, last) == [first |-> first, last |-> last]

\* AnnounceUncachedBlocks(): the longest runs of blocks the cache lacks.
UncachedRuns(first, end) ==
  LET Lacks(i) == i \in BlockOf(first)..(BlockOf(end) - 1) /\ i \notin Cached
      Longest(i, j) == /\ i < j
                       /\ \A k \in i..(j - 1) : Lacks(k)
                       /\ ~Lacks(i - 1)
                       /\ ~Lacks(j)
      spans == {Span(i * BlockBytes, j * BlockBytes) : i, j \in BlockOf(first)..BlockOf(end)}
  IN  {h \in spans : Longest(BlockOf(h.first), BlockOf(h.last))}

\* AnnounceRuns(): whole blocks, none that the cache holds unless there are
\* too many to look at, and none past the largest address.
AnnounceRuns(r) ==
  LET max_end == MaxAddress - BlockBytes
      first == r.addr - (r.addr % BlockBytes)
      end == BlockEnd(End(r))
  IN  IF r.length = 0 \/ r.addr > max_end \/ r.length > max_end - r.addr THEN {}
      ELSE IF (end - first) \div BlockBytes > MaxChecked THEN {Span(first, end)}
      ELSE UncachedRuns(first, end)
----------------------------------------------------------------------------
(* RunBlockLoader: the block at an index. *)

\* The missing blocks from index on, none past the range.
RunLength(index) ==
  Max({n \in 1..MaxRunBlocks :
         \A k \in 1..(n - 1) : index + k <= LastIndex /\ index + k \notin Cached})

\* One block is read alone, and so is each one after a run that failed.
MayRun(index) == RunLength(index) > 1 /\ ~failed

InRun(index) == run.first <= index /\ index < run.first + run.count

\* A fault: each block of the run is given the bytes of the first one.
RunPlaceFault(index) == 0

\* Where the block lies in the run.
RunPlace(index) == index - run.first

ReadDisk(first, last) == disk' = Append(disk, Span(first, last))
Index == BlockOf(cur)
BlockStart == Index * BlockBytes

\* The disk is read once more than a block needs when a run fails.
ReadRun ==
  LET last == BlockStart + RunLength(Index) * BlockBytes
  IN  /\ pc = "get"
      /\ Index \notin Cached
      /\ ~InRun(Index)
      /\ MayRun(Index)
      /\ ReadDisk(BlockStart, last)
      /\ IF Readable(BlockStart, last)
         THEN /\ run' = [first |-> Index, count |-> RunLength(Index),
                         bytes |-> Content(BlockStart, last)]
              /\ UNCHANGED failed
         ELSE /\ failed' = TRUE
              /\ UNCHANGED run
      /\ UNCHANGED <<bad, ceiling, cache, stitched_bytes, views, pc, request,
                     got, cur, out, hinted, dropped>>

GetHit ==
  /\ pc = "get"
  /\ Index \in Cached
  /\ order' = Touched(Index)
  /\ got' = Index
  /\ pc' = "copy"
  /\ UNCHANGED <<bad, ceiling, blocks, stitched_bytes, views, request, cur, out,
                 loader, hinted, dropped>>

\* The run is over once its last block is taken.
GetFromRun ==
  /\ pc = "get"
  /\ Index \notin Cached
  /\ InRun(Index)
  /\ Insert(Index, SubSeq(run.bytes, RunPlace(Index) * BlockBytes + 1,
                                     (RunPlace(Index) + 1) * BlockBytes))
  /\ run' = IF Index - run.first + 1 = run.count THEN [run EXCEPT !.count = 0] ELSE run
  /\ got' = Index
  /\ pc' = "copy"
  /\ UNCHANGED <<bad, ceiling, stitched_bytes, views, request, cur, out, failed,
                 history>>

\* GetOrLoad(): a block that cannot be read whole is never cached. The bytes are
\* then read around the cache.
GetAlone ==
  /\ pc = "get"
  /\ Index \notin Cached
  /\ ~InRun(Index)
  /\ ~MayRun(Index)
  /\ ReadDisk(BlockStart, BlockStart + BlockBytes)
  /\ IF Readable(BlockStart, BlockStart + BlockBytes)
     THEN /\ Insert(Index, Content(BlockStart, BlockStart + BlockBytes))
          /\ got' = Index
          /\ pc' = "copy"
     ELSE /\ pc' = "uncached"
          /\ UNCHANGED <<cache, got>>
  /\ UNCHANGED <<bad, ceiling, stitched_bytes, views, request, cur, out, run,
                 failed, hinted, dropped>>
----------------------------------------------------------------------------
(* Read() *)

\* The view the call returns goes to v: an empty one is given up for it.
Free(v) == views[v] = EmptyView

\* The bytes of the buffer a read across blocks stitches them in.
BufferBytes(r) == IF CrossesBlock(r) THEN r.length ELSE 0

\* A buffer the views do not hold yet.
NewStitched(size) ==
  [kind |-> "stitched", id |-> Min((1..Cardinality(Views)) \ BufferIds), size |-> size]

Given(v, owner, bytes) ==
  [views EXCEPT ![v] = [owner |-> owner, addr |-> request.addr, bytes |-> bytes]]

\* The call is over: what it kept is gone.
Over ==
  /\ pc' = "idle"
  /\ request' = None
  /\ got' = None
  /\ cur' = 0
  /\ out' = <<>>
  /\ run' = NoRun
  /\ failed' = FALSE
  /\ hinted' = {}
  /\ dropped' = {}
  /\ disk' = <<>>

\* The range has no block to cache, or an end no block arithmetic can hold.
Refused(r) == r.addr < 0 \/ r.addr > MaxAddress - r.length

\* A call that is refused, or asks for nothing, leaves everything as it is.
CallRead(r) ==
  /\ pc = "idle"
  /\ \E v \in Views : Free(v)
  /\ r.length # 0
  /\ ~Refused(r)
  /\ pc' = "get"
  /\ request' = r
  /\ cur' = r.addr
  /\ stitched_bytes' = stitched_bytes + BufferBytes(r)
  /\ hinted' = AnnounceRuns(r)
  /\ UNCHANGED <<bad, ceiling, cache, views, got, out, run, failed, dropped, disk>>

\* A read in one block returns a view of the block.
ReturnBlock ==
  /\ pc = "copy"
  /\ ~CrossesBlock(request)
  /\ \E v \in Views :
       LET offset == cur % BlockBytes
           vs == Given(v, BlockOwner(got),
                       SubSeq(blocks[got], offset + 1, offset + request.length))
       IN  /\ Free(v)
           /\ views' = vs
           /\ Drop(Trimmed(vs, got, stitched_bytes))
  /\ Over
  /\ UNCHANGED <<bad, ceiling, stitched_bytes>>

\* One turn of the loop that stitches blocks. The block is held throughout.
CopyBlock ==
  LET offset == cur % BlockBytes
      chunk == Min({BlockBytes - offset, End(request) - cur})
      gone == Trimmed(views, got, stitched_bytes)
  IN  /\ pc = "copy"
      /\ CrossesBlock(request)
      /\ out' = out \o SubSeq(blocks[got], offset + 1, offset + chunk)
      /\ cur' = cur + chunk
      /\ Drop(gone)
      /\ dropped' = dropped \cup gone
      /\ got' = None
      /\ pc' = IF cur + chunk = End(request) THEN "stitched" ELSE "get"
      /\ UNCHANGED <<bad, ceiling, stitched_bytes, views, request, loader, hinted>>

ReturnStitched ==
  /\ pc = "stitched"
  /\ \E v \in Views :
       LET vs == Given(v, NewStitched(request.length), out)
       IN  /\ Free(v)
           /\ views' = vs
           /\ Drop(Trimmed(vs, None, stitched_bytes))
  /\ Over
  /\ UNCHANGED <<bad, ceiling, stitched_bytes>>

\* A fault: the block that the range ends in is read to its end.
UncachedEndFault == BlockEnd(End(request))

\* Where the read around the cache ends: the block may extend past the end of
\* the medium.
UncachedEnd == End(request)

\* ReadUncached(): exactly the bytes asked for, in a buffer of their own. The
\* buffer of the blocks stitched so far, if any, goes away afterwards.
ReadUncached ==
  LET tally == stitched_bytes + request.length
  IN  /\ pc = "uncached"
      /\ IF Readable(request.addr, UncachedEnd)
         THEN /\ \E v \in Views :
                   LET vs == Given(v, NewStitched(request.length),
                                   Content(request.addr, End(request)))
                   IN  /\ Free(v)
                       /\ views' = vs
                       /\ Drop(Trimmed(vs, None, tally))
              /\ stitched_bytes' = Uncounted(BufferBytes(request), tally)
         ELSE /\ stitched_bytes' = Uncounted(BufferBytes(request) + request.length, tally)
              /\ UNCHANGED <<cache, views>>
      /\ Over
      /\ UNCHANGED <<bad, ceiling>>
----------------------------------------------------------------------------
(* View and Minify() *)

CopyView(v, w) ==
  /\ pc = "idle"
  /\ ~Free(v)
  /\ Free(w)
  /\ views' = [views EXCEPT ![w] = views[v]]
  /\ UNCHANGED <<bad, ceiling, cache, stitched_bytes, call>>

\* ~View(): the last holder of a stitched buffer destroys it. The cache is
\* trimmed even when other views hold the same bytes.
DropView(v) ==
  LET vs == [views EXCEPT ![v] = EmptyView]
      shared == \E w \in Views : vs[w].owner = views[v].owner
      tally == IF shared THEN stitched_bytes
               ELSE Uncounted(views[v].owner.size, stitched_bytes)
  IN  /\ pc = "idle"
      /\ ~Free(v)
      /\ views' = vs
      /\ stitched_bytes' = tally
      /\ Drop(Trimmed(vs, None, tally))
      /\ UNCHANGED <<bad, ceiling, call>>

Minify ==
  /\ pc = "idle"
  /\ Drop({i \in Cached : ~InUse(i, views, None)})
  /\ UNCHANGED <<bad, ceiling, stitched_bytes, views, call>>
----------------------------------------------------------------------------
ReadStep ==
  \/ ReadRun
  \/ GetHit
  \/ GetFromRun
  \/ GetAlone
  \/ ReturnBlock
  \/ CopyBlock
  \/ ReturnStitched
  \/ ReadUncached

Next ==
  \/ ReadStep
  \/ \E r \in Requests : CallRead(r)
  \/ \E v, w \in Views : CopyView(v, w)
  \/ \E v \in Views : DropView(v)
  \/ Minify

Spec == Init /\ [][Next]_vars
----------------------------------------------------------------------------
\* The cache has one place in its order for each block, and each block, view
\* and buffer has the shape the code gives it.
TypeOK ==
  /\ IsInjective(order)
  /\ ToSet(order) = Cached
  /\ \A i \in Cached : Len(blocks[i]) = BlockBytes
  /\ \A v \in Views : Free(v) \/ (views[v].owner \in Owner /\ views[v].bytes # <<>>)
  /\ pc \in {"idle", "get", "copy", "stitched", "uncached"}
  /\ (request = None) <=> (pc = "idle")
  /\ (got # None) <=> (pc = "copy")
  /\ got # None => got \in Cached
  /\ run.count \in 0..MaxRunBlocks

\* Whatever was cached, dropped, read in runs or around the cache, a view shows
\* the bytes of the volume at its own address for as long as it lives, and what
\* is cached is what the volume holds (View: "The bytes stay valid and
\* unchanged while any copy of the view exists").
ViewsShowTheVolume ==
  /\ \A v \in Views :
       views[v].bytes = Content(views[v].addr, views[v].addr + Len(views[v].bytes))
  /\ \A i \in Cached : blocks[i] = Content(i * BlockBytes, (i + 1) * BlockBytes)

\* A block that a view holds stays in the cache, so that the memory it takes is
\* counted, and stitched_bytes_ counts each live stitched buffer once, however
\* many views share it.
HeldIsCounted ==
  LET size == [k \in BufferIds |-> (CHOOSE o \in Buffers : o.id = k).size]
  IN  /\ \A o \in Owners \ {None} : o.kind = "block" => o.id \in Cached
      /\ \A o, p \in Buffers : o.id = p.id => o = p
      /\ stitched_bytes = Total(size, Cardinality(Views), BufferIds)
                          + IF request = None THEN 0 ELSE BufferBytes(request)

\* A read returns a view exactly when each byte it asks for can be read: a bad
\* byte beside them, in the same block or run, does not matter.
AnswersExactly ==
  pc # "idle" /\ pc' = "idle" =>
    ((views' # views) <=> Readable(request.addr, End(request)))

Answers == pc # "idle" /\ pc' = "idle" /\ views' # views
Drops == \E v \in Views : views[v] # EmptyView /\ views'[v] = EmptyView
UnderCeiling ==
  \/ BlockBytes * Cardinality(Cached) + stitched_bytes <= ceiling
  \/ \A i \in Cached : BlockOwner(i) \in Owners

\* A read that answers, and the end of a view, leave the cache under its ceiling
\* or without a block that could go.
TrimmedToCeiling == Answers \/ Drops => UnderCeiling'

\* A read ends with the right answer and the cache trimmed.
ReadsEndWell == [][AnswersExactly /\ TrimmedToCeiling]_vars

Within(a, b) == b.first <= a.first /\ a.last <= b.last
Meets(a, i) == a.first < (i + 1) * BlockBytes /\ i * BlockBytes < a.last

\* What Prefetch() announces for a range is what Read() of it then reads: each
\* disk read for blocks lies in one announced range, unless the ceiling made
\* the cache drop a block of it meanwhile, and no block is announced that the
\* read does not ask the disk for.
ReadsAsAnnounced ==
  hinted # {} =>
    /\ \A k \in DOMAIN disk :
         \/ \E h \in hinted : Within(disk[k], h)
         \/ \E i \in dropped : Meets(disk[k], i)
    /\ pc = "stitched" /\ BlockEnd(End(request)) - request.addr <= MaxChecked * BlockBytes =>
         \A h \in hinted : \A i \in BlockOf(h.first)..(BlockOf(h.last) - 1) :
           \E k \in DOMAIN disk : Meets(disk[k], i)

\* A bad place costs a read one disk read more than its blocks: a run that
\* failed is not tried again for each of them.
FewDiskReads ==
  request # None => Len(disk) <= LastIndex - BlockOf(request.addr) + 2

\* The disk is asked for what was announced, and not more often than it takes.
DiskReadsAsPlanned == ReadsAsAnnounced /\ FewDiskReads

\* "After each read, the cache frees the fewest unused blocks needed to get
\* back under it" (volume-options.h): also after a read that fails.
CeilingAfterEachRead == pc = "idle" => UnderCeiling
=============================================================================
