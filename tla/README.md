# A TLA+ model of ntfs-browser

ntfs-browser is a C++ library that reads NTFS volumes: it opens a volume or an
image, parses the records of the master file table, walks directories and scans
the whole table, deleted records included. It only reads. What makes it hard to
get right is not what it writes but *when and from where it reads*: threads that
parse and threads that read ahead, queues of overlapped reads, caches with
limits, and damaged volumes on which every one of several steps may fail.

The modules here model that core, TLC checks them on small instances, and for every
instance TLAPS proves the pool on which all the parsing threads rest, the store of held
records, the two readers that read ahead and the block cache with its file reader.
Everything is translated from the code in `src/src` and `src/include`; the
`map` of `PROJECT.json` names the lines behind each definition.

## 1. The system

| Component | State it keeps | Operations | Modelled in |
|---|---|---|---|
| Chunk pool (`util/chunk-pool`) | chunks of the batch and their states, `next_`, `running_`, `error_`, `stop_`, helper threads, two condition variables | `Start`, `WaitFor`, `Finish`, destructor | `ChunkPool`, contract `BatchContract`, proofs `ChunkPoolProofs` |
| Disk reader interface (`disk-reader.h`) | the open medium | `Open`, `ReadInto`, hints | `DiskContract` |
| Read-ahead reader (`io/read-ahead-disk-reader`) | window of chunks, the last read, `prefetch_floor_`, one worker thread | `Open`, `ReadInto`, hints, destructor | `ReadAheadReader`, proofs `ReadAheadReaderProofs` |
| Windows reader (`io/win32-disk-reader`) | first lane, standing lane, slots of overlapped reads, caps of the read pattern | `Open`, `ReadInto`, `Prefetch`, `PrefetchStanding`, `CancelPrefetch`, `CancelStanding`, `SetReadPattern` | `Prefetcher`, proofs `PrefetcherProofs` |
| Block cache and file reader (`cache/`, `io/file-reader`) | blocks by index, order of use, stitched bytes, views, the run of a read | `Read`, `Prefetch`, `Minify`, copy and end of a view | `CachedReader`, proofs `CachedReaderProofs` |
| Held records (`mft/held-records.h`) | provisional extensions, waiting base records, slots, budget | `MeetExtension`, `HoldWaiting`, `Confirm`, `ReleaseBefore`, `Finish` | `HeldRecords`, proofs `HeldRecordsProofs` |
| Slot scan (`mft/slot-scan`, `slot-parsers`, `slot-reader`, `used-slots`, `slot-entry`, captured log) | window, probe, batches of two parsers, pending lines, entries, counters | first pass, second pass, destructor | `SlotScan` |
| Announced reads of a scan (`mft/slot-reader`, `mft/waiting-reads`) | windows announced, reads announced, counters of what is ahead | `AnnounceFrom`, `Before`, `Restart`, `Announce` | `SlotReads`, part of `SlotScan` |
| Runs of records (`io/mft-runs`) | none | group sorted records into rounds and runs | `MftRuns` |
| Record memory (`io/record-window`, `io/record-memo`) | the last runs read, a few words of many records | keep, find, drop | `RecordKeeper` |
| Record and index reading (`io/file-record-read`, `io/file-record-index`, `attr/index-alloc`) | one record, the block being walked | read, judge, walk an index | `VolumeImage`, `DirectoryIndex` |
| Directory read-ahead (`io/directory-read-ahead`, `batch-reader`, `probe-lane`, `run-planner`, `entry-prober`, `read-ahead-held`) | plans, zone and announced runs, held directories, what probes found | `Begin`, `Upcoming`, `Enter`, `Release`, probes | `ProbeLane`, `BatchReader`, `DirectoryListing` |
| Run lists (`attr/run-list`) | cursor of the decoder | decode, layout | `RunList` |
| Bitmap and bad clusters (`alloc/cluster-bitmap`, `bad-cluster-list`, `ntfs-volume-alloc`) | windows held, retained, failed; bad extents | state of an extent | `ClusterBitmap` |
| Allocation account (`alloc/claim-inventory`, `cluster-sweep`, `cluster-account`, `content-check`) | claims, active set of the sweep, pieces | add, sweep, assemble | `ClusterSweep` |
| USN journal (`usn/`) | scanner, pending bytes, ring of records | feed, reset, load | `UsnJournal` |
| MFT tree, data states (`mft/tree*`, `mft/data-state-resolver`) | entries, children, reach, memo of paths, pending queries | scan, link, note the journal, paths | `MftTree`, `VolumeScan` |
| `$MFT` bootstrap, attribute lists, compressed reads, EFS, LZNT1, UTF, upcase, bench, tuning, log sinks | | | see section 7 |

How they meet: a scan (`SlotScan`) reads windows of records through a file
reader (`CachedReader`) that calls an `IDiskReader`, which is `ReadAheadReader`
around a plain reader, or the Windows reader (`Prefetcher`). It has two pools
(`ChunkPool`): one parses the slots of a window, the other the records that wait
for their extension records, which `HeldRecords` keeps. All threads of a pool
work on memory of the scan, so the calls of the pool are what keeps them apart.
One thread calls all of this: the readers and the cache are not shared.

Where it is hard, and the properties that matter for each part (the complete list,
with lines, is `hazards` in `PROJECT.json`):

* pool: wakeups, a thread still inside a batch that its owner thinks is over, errors of several threads;
* read-ahead reader: a window of the previous medium, a worker that reads what nobody wants, a bad place read again and again, a caller that waits for ever;
* Windows reader: a buffer reused while the system writes it, counters of two lanes that drift apart, reads or bytes above the caps;
* cache: views of dropped blocks, memory that is not counted or not given back, bad bytes next to readable ones;
* held records: extensions before and after their base, a budget that ends in between, slots used again;
* scan: the result, and the log, of several threads must be that of one, and what is announced must be what is read;
* directory listing: five places a record can be read from, each of which must give what a plain read gives; lanes and zones patched instead of rebuilt; one budget shared by records, blocks and plans;
* tree: parents that are stale, lost, no directory or in a loop; a memo of paths that a full budget or an exception leaves half filled;
* journal: records cut by chunks, holes and failed reads;
* bitmap and account: windows that fail or are short; claims of several records on one cluster; runs at the numeric edges.

## 2. Modules

`BatchContract` — what `chunk-pool.h` promises its user: a batch begins, is
completed or abandoned, and nothing of it runs between batches.

`ChunkPool` — one action for each stretch of code between two operations on the
mutex: `Start` and the notification after it, the owner's loops in `WaitFor` and
`Finish` (it runs chunks itself), the helper's wait, take and record, and the
destructor's steps. Condition variables are modelled by who sleeps: a
notification wakes, and a thread may wake without one (`SpuriousWakeup`). A chunk
may throw. `MaxBatches` bounds how many batches a behaviour has, `MaxChunks` their
size.

`DiskContract` — a reader with an open medium: an answer holds the bytes of
that medium, or says that they cannot be read; hints change nothing.

`ReadAheadReader` — caller, worker, the mutex, the serialised calls of the
wrapped reader, the window with the states of its chunks, cancelled chunks, the
floor below which nothing is read ahead, growth of the chunks and reopening on
another medium. A byte is its address and its medium, so that old or misplaced bytes
show. Memory that a failed read leaves unwritten holds `Garbage`.

`Prefetcher` — both lanes of announced ranges, the slots, the operating system
that completes reads at any moment or refuses to start one (`Completes` is the one
external action), alignment to sectors, caps that depend on the pattern, serving,
dropping and cancelling. `StartReads` is a loop in the code and a step per read
here, because completions come in between. `Open()` may change the store; a buffer
and the read of the operating system into it carry the store whose bytes they are
(`buf.disk`, the members of `os`), so that what is left of the store before shows when it is served.

`CachedReader` — `FileReader<FullCache>::Read()` with its `RunBlockLoader`, the
`BlockCache` and the views. A call is several steps, because of what a step may
see of the cache the step before it trimmed. `hinted`, `dropped` and `disk` are
history: what `Prefetch()` of the range would announce at the start of the call,
the blocks dropped and the disk reads made during it.

`HeldRecords` — the store of extension and waiting records; one action per
method, each with its return value in the history the properties use. The
requirement of the class, that records come in increasing order, is the guard
on `Position`.

`Selection` — the elements of a sequence that lie in a set, in their order: what
`HeldRecords` hands over, what a lane of `Prefetcher` keeps when ranges are dropped and what the
order of `CachedReader` keeps when blocks are; and `Total`, the sum of chosen elements, which is
what `started_bytes` and `stitched_bytes` stand for. Both are recursive
functions and take a set rather than a predicate, so that `SelectionProofs` can say what they return.

`SlotScan` — both passes of the scan on one or several threads. The scanner takes
the slots in order: from a thread's outcome, or by parsing it itself where the
thread cannot (a stream or a list needs the volume), the probe said threads do not
pay, the window failed or the slot lies outside windows. It instantiates
`HeldRecords` and calls its operations. A parse logs one line, and one more when
its attributes are dropped; those lines belong after the next parse, which is why
they outlive the batch that logged them. `layout` says what each slot holds
(free, plain, with a list, an extension and of which base, unreadable...).

`SlotReads` — what the scan announces ahead of its reads. `SlotReader` announces the
next windows up to two limits and forgets those it passed; `ReadAnnouncer` announces
the lists and the extension records that the waiting records will read, and starts
over when too many passed records did not use theirs. The state includes the
reader's queue, so that a range nobody reads shows as one that stands before the next
read. `SlotScan` extends it and calls it where the code does.

`MftRuns`, `RecordKeeper`, `VolumeImage`, `DirectoryIndex`, `ProbeLane`, `BatchReader`,
`DirectoryListing` — a recursive listing with its read-ahead, one module per class,
each extending the one before. `world`, chosen in `Init`, is the volume (the kind of
each slot of `$MFT`, the indexes with good, damaged, sparse and unreadable blocks, old references)
and the tuning (block or no cache, window and memo sizes, probe rules, budgets). The
listing of `DirectoryListing` is the loop of the `ntfsdir` example, the one caller in the
repository that uses the whole interface: list a directory entry by entry, release
it, tell what comes next, enter the first of it. `PlainListing` is the abstract listing
that reads every record when it needs it.

`RunList`, `ClusterBitmap`, `ClusterSweep`, `UsnJournal`, `MftTree`, `VolumeScan` — the
scan of a volume from its records to the tree. `VolumeScan` has an action for each stage
of `MftTree::Scan()` (records, batches of bitmap queries, sweep and content check, link,
journal by chunks, journal notes) and one for a question asked of the finished tree, which
may throw. `volume`, chosen in `Init`, is what is scanned, with the options of the scan.

`VolumeTruth` — what such a scan should say, defined from the volume and not from the
algorithm: a parent is a relation between a name and an entry; a path is a climb, each directory spelled by
its first long name that fits its parent, else by its first long name (`Spellings`); the records of the
journal are found word by word; the cells of an attribute are decoded one by one, with the wraps of their numbers; the
condition of a cluster is the first rule of a list (`FreedRules`, `LiveRules`, `Matches`) that who claims this one
cluster and its bit satisfy, and a compression unit breaks when it holds a cluster that is neither the file's own nor zero
(`Spoilt`). None of the operators by which `MftTree` and `ClusterSweep` choose names and give verdicts is used
there. The properties of `volume_scan` compare the scan with it.

`MC...` modules hold the values of the constants.

## 3. Runs

| Run | States | What it shows |
|---|---|---|
| `chunk_pool` | 27,088 | each chunk runs once; no thread is inside a batch after `Finish()`; errors are rethrown first one first; the pool implements `BatchContract`; every call returns |
| `read_ahead` | 86,753 | a ready chunk belongs to the open medium and its place (`WindowIsSound`); what is dropped is not read, and a bad place met once is not read ahead again before the next `Open()` (`NoReadInVain`); queued chunks are read; the reader implements `DiskContract`; every call returns |
| `prefetcher` | 1,055,403 | `started`, `started_bytes`, `standing_reading_` and the slots agree after every drop (`LanesAgree`); caps hold; the reader implements `DiskContract` over two stores that are opened in turn |
| `cached_reader` | 55,141 | views show the volume for as long as they live; memory is counted; disk reads are as announced, with one extra for a bad run (`DiskReadsAsPlanned`); a read fails exactly when one of its bytes is bad and trims as it should (`ReadsEndWell`) |
| `cached_reader_ceiling` | violation | see findings |
| `held_records` | 339,090 | slots hold their records and none is lost (`SlotsAccounted`); the second pass is told of every extension met, in order, and of nothing stale (`SecondPassKnows`) |
| `slot_scan` | 339,391 | log, entries and counters of several threads are those of one (`SameScan`); every read is announced when it is made and at most `Lookahead - 1` stale ranges precede it (`ReadsAsAnnounced`); windows and logs stand while threads use them; `HeldRecords` is called as it asks; the scan ends |
| `directory_listing` | 58,384 | the listing prints what a listing without read-ahead prints (`SameListing`); the standing lane and the disk agree and nothing overlaps (`LaneAgrees`); the zone patched between refills is the one a fresh walk gives (`ZoneIsFresh`); budgets hold and all is given back (`WithinBudget`); window and memo find the record asked for (`KeeperAgrees`) |
| `volume_scan` | 407,362 | on 11,728 volumes: links, reach and lost entries (`LinkedRight`); paths in any order of questions, budgets and exceptions (`PathsAgree`); journal records kept, dropped and noted (`JournalConserved`); data states never claim more than the bits read (`StatesRight`); accounts of clusters and streams (`AccountsRight`); bitmap windows are bounded and given back (`WindowsGivenBack`) |
| `volume_scan_memo`, `volume_scan_alias`, `volume_scan_claims` | violation | see findings |

Bounds. Two helpers and the owner are the fewest threads among which one can sleep,
one run and one wake late; three chunks leave one for each; two batches show what
leaks from one into the next. The media have eight or nine bytes in sectors or
blocks of two: a first, a middle, a bad and a short last block, and the largest
address is reachable. Windows, lanes and caches hold two or three elements, so they
are full in most behaviours. Five records are enough for an extension before its
base, one after it, two waiting records and a budget of two that is spent. The
scan has one helper beside the scanner, two windows of two slots and one slot
outside them, and every combination of what the slots hold from `MCKinds`, with layouts
(`FarKinds`) in which windows are passed over and extensions lie away from their bases.

A listing has fourteen slots, an index whose blocks lead back to each other and one of which is in four states, three
directories, one of them reached twice and old references; budgets of 1, 5, 9 and 20 records,
windows of 0 to 6, lanes of one or two runs make each limit bite. The volumes of a
scan come in seven families (`MCVolumes`): trees of three directories and a file, whose names
give every kind of parent (right, stale, freed, itself, in a loop, missing, a DOS alias), with and
without the root and with three budgets of the memo; journals of three places with a record, a damaged or
unknown one, zeros or stray words in each, one or two ranges, and a failed read; freed files over
ten clusters under a `$Bitmap` of three windows with failed bytes, for the data states; the same with a rival
of each kind, for the accounts, with streams whose runs pass the bound of the attribute, wrap their virtual
clusters or those of the volume, or are empty at VCN 0 (`EdgeStreams`); a live file that is damaged against live and freed ones (`LiveVolumes`); two
rivals at once for the clusters of a freed file, each live or freed, before it, after it or in no order, and
past what it wrote or not (`ContestVolumes`); and volumes without `$Bitmap`, with a wrong size or too many bad clusters. The limits are small versions of the code's constants: `BitsPerByte` 2,
`WindowBytes` 2, `MaxFailedWindows` 2, `BadCeiling` 2, `MaxClaim` 4, `MaxRead` 2, `MaxGap` 1,
`MaxLcn` 31 and `MaxSigned` 15 for the largest `ULONGLONG` and `LONGLONG`, `MaxSequence` 4,
`MaxPathLength` 6, `DenseFloor` 3. `volume.asks` bounds the questions and `MaxThrows` the exceptions of a behaviour.

`MaxBatches`, `MaxChunks`, `MaxSlots`, `MaxAddress`/`AddrMax`, `MaxChecked` and
`RecordCount` are the bounds; `MaxAddress` stands for the largest `LONGLONG`,
and the guards that keep the code below it are in the models.

`held_records` and `volume_scan` do not check for deadlock: the store is done after `Finish()`, and
a scanned tree that was asked its questions stays as it is. Every other passing run checks it.

Fairness. `WF` for each thread: one that can go on does, because the code's threads
are system threads, no lock is held for ever, and the work of a chunk ends. Nothing
forces the caller to make another call, and spurious wakeups are not fair.
The listing and the volume scan run on one thread and state no fairness. The
liveness properties say that calls that began end (`CallsReturn`, `ScanEnds`).

The two stores of `prefetcher` differ in their bytes only, which makes them symmetric: nothing in the
specification or its properties names one of them. All its properties are about safety.

Each property has a mutant, and some have two: a variant of one definition, its name ending in
`Fault`, that changes it as a plausible mistake in the code would, and under which TLC finds
the property violated.

## 4. Findings

The code disagrees with a comment in four places that a run shows. None of them makes the
library return wrong bytes.

* `cached_reader_ceiling`: `volume-options.h:40-45` says that the cache is back under its
  ceiling after each read; a read that fails in a later block returns without a trim.
* `volume_scan_memo`: `tree-paths.cpp:126` says that the directories of a chain that loops are walked
  one by one and "each sees the loop close at itself". `Remember()` erases a directory whose path
  does not fit in the memo (line 231) while another of the loop stays known, and a later
  call for the erased one closes the loop at that other directory.
* `volume_scan_alias`: `tree.h:111` says of a pure DOS alias that it is "Never used to build a path".
  `PrimaryName()` falls back to the first name when all are aliases (`tree-paths.cpp:60`), so a
  directory that has no other name lends its alias to the paths below it.
* `volume_scan_claims`: `cluster-account.h:66` calls an intact cluster "claimed by no other record", and `:62` says of a
  cluster of unknown owner that "no record the scan read claims" it; a rival that was
  freed earlier, or that never wrote the cluster, is passed over (`cluster-sweep.cpp:100-106`). The unit tests want the
  code's answer, so it is the comment that should change. In the same way a freed rival leaves a cluster
  of a live file `Consistent`, which line 73 calls "claimed by this record only".

Five more disagree in the same way. Each is stated as a property that TLC refutes when it takes the place of the
properties of the configuration named; no run is spent on them.

* `FinishSilentAfterWaitFor` (`ChunkPool.cfg`): `chunk-pool.h:56-58` says that `Finish()` rethrows "if `WaitFor()`
  did not"; it does rethrow the exception of a later chunk of the batch (`chunk-pool.cpp:111-116`).
* `LaneWithinCap` (`Prefetcher.cfg`): `win32-disk-reader.cpp:286-287` says there are at most
  `StandingCap()` reads of the standing lane in flight; a change of the pattern (523-526) lowers the cap
  below them.
* `FirstAlwaysStarts` (`Prefetcher.cfg`): `win32-disk-reader.cpp:386` says that the first range of the first queue "always
  starts", and 267-268 that this queue "always finds its share of the reads free"; after such a change
  of the pattern the lane alone fills the new cap, and a range announced then does not start. It is read when it is
  asked for.
* `RootPathsAreReached` (`VolumeScanAlias.cfg`): `tree.h:272-275` says that a record is reachable when valid parent
  references lead to the root, and that its path then starts there. Nothing is filed by an alias (`tree-link.cpp:43`), so
  a directory that has only aliases and all below it count as unreachable, although their paths start at the root. `LinkedRight`
  states reachability as the code has it, through long names.
* `FreeBeforeCrossLinked` (`VolumeScan.cfg`, where `Volumes` may also be `MCCrossed`): `cluster-account.h:31` promises
  "the first rule that matches", and lists `FreeButClaimed` before `CrossLinked`; `LiveCondition()` asks in the other
  order (`cluster-sweep.cpp:154-162`).

Met while modelling, in no property:

* `waiting-reads.h:105` says of `ahead_records_` and `ahead_ranges_` that they are "Records with
  reads, and their ranges, announced among those from passed_ to next_". When `mft.max_preread_extensions`
  is 0, which `knobs.cpp:154` allows, a record whose only reads are extension records that
  are not held is counted with no range (`waiting-reads.cpp:126`), and `Before()` never uncounts it:
  after `max_announced_records` of them nothing is announced any more. Only speed is
  lost. `slot_scan` has `MaxPreread` 2; with 0, TLC finds `AheadIsExact` violated.
* `run-list.cpp:322` says that an empty run at VCN 0 "is kept, not rejected"; its last VCN is the
  largest number, so that it exceeds every smaller bound and is rejected.

## 5. Proofs

`ChunkPoolProofs` proves, for every finite set of helpers, every number of chunks and of
batches (`PoolAssumption`), for all behaviours of `Spec`: `TypeCorrect`,
`RunningCounts`, `FinishDrains` (`QuietBetweenBatches`), `RunsOnce` (`ChunksRunOnce`),
`ReportsFirstError` (`FirstErrorReported`) and `PoolImplementsContract`
(`ImplementsContract`, the refinement of `BatchContract`).

They rest on one inductive invariant, `IInv`. `QuietBetweenBatches` alone is not
inductive: that `running_ = 0` means that nobody runs a chunk needs
`RunningIsExact` (`running_` counts the threads with a chunk), which needs
`StatesMatchJobs` (a thread has a chunk exactly in the states in which it runs
one). `StartedChunks` (the chunks below `next_` and only those were taken) gives
`ChunksRunOnce`; `NoneLeftToStart` and `OwnerKnows` (what the owner's place in its
calls says about the batch) give that nothing can be taken after `Finish()`; and
`ErrorsInOrder` relates the kept exception to the order of throws. The proof has one
lemma per action and a counting lemma for taking and recording a chunk, which
changes the cardinality of the set of running threads by one.

`SelectionProofs` proves what `Select()` returns for every sequence (`SelectPlaces`), and the
facts about appending, joining and cutting sequences and about sums that the other proofs use: what
a selection draws from a sum (`TotalDrawn`), and that a selection of a sequence keeps its prefixes
(`PrefixLeft`). The library's induction theorems cannot be instantiated by the provers; the argument is by the
least place at which the fact would fail (`LeastNatural`), which needs no induction rule.

`HeldRecordsProofs` proves, for every number of records and every budget, `TypeCorrect`,
`SlotsStayAccounted` (`SlotsAccounted`) and `SecondPassIsHandedAll` (`SecondPassKnows`).
`SecondPassKnows` is not inductive because it says nothing of the extensions met before their base
record: those are provisional, and a later `HoldWaiting` must find all of them. `NonePassedOver`
says so (each extension met of a base record to come is pending for it); `PendingAreMet`,
`PendingInOrder` and `KnownAreReached` say that the pending ones were met, are in record order,
and that nothing is known of a record not reached yet. The accounts are stated through one
relation, `Holds(s, r)`, a slot holds a record, and `live_` is the cardinality of the slots some
record holds (`Used`).

`ReadAheadReaderProofs` proves, for any media, bad addresses, requests, alignment, size of a chunk
and of the window (`ReaderAssumption`), `TypeCorrect`, `WindowStaysSound` (`WindowIsSound`),
`NothingIsForgotten` (`NothingForgotten`, no lost wake-up), `ReadsNothingInVain` (the action property
`NoReadInVain`, by `BadPlaceLeft`: a chunk that failed is left with the floor at its end) and `ReaderImplementsDisk` (`ImplementsDisk`, the refinement of `DiskContract`).
The invariant follows the bytes. `WindowIsSound` speaks of ready chunks only; a chunk
becomes ready after the worker has read it and before it records so, in which time `Open()` may
come. `JobKnown` covers that gap: the worker's chunk is either in the window, and then what it read
is of the open medium, or marked as cancelled. `CallKnown`, `ServedPart` and `ReadEnds` say
the same of the caller's buffer at each place of `ReadInto()`; `OnceInWindow` is what makes dropping
one chunk leave the others alone, and `FloorUnder` what makes the floor rise. `Open()` changes the
medium under an empty window (`CallKnown`). The lemmas on `TopUp()` rest on counting: one
identity more than the window has places is always free (`FreshExists`).

`PrefetcherProofs` proves, for any media, ranges, requests, alignment, caps, read patterns and number of
slots (`PrefetcherAssumption`), `TypeCorrect`, `LanesStayInAgreement` (`LanesAgree`),
`StaysWithinCaps` (`WithinCaps`) and `PrefetcherImplementsDisk` (`ImplementsDisk`, the refinement of
`DiskContract`). Neither `LanesAgree` nor `WithinCaps` is inductive: the counters are only right if
dropping ranges in the middle of a queue takes from them exactly what was started, and a
buffer shows the right bytes only if the read in flight in its slot is the slot's own. The invariant
has a part for each lane (`LaneRight`: what it started is a prefix, each started range has its own
slot, `started` and `started_bytes` count those), one for the slots (`Shared`: the two lanes
have no slot in common; `SlotRight`: the read in flight is at the slot's `start`, and is of the open medium, and once it is over
the buffer holds those bytes of it), the caps (`ReadsCapped`, `BytesCapped`), the
reads of the standing lane still running (`ReadingRight`) and the call in progress (`CallRight`:
`in_flight` is exact while reads are started, and the range being served is still in its lane). The main
lemmas are `WithoutRight`, dropping any ranges of a lane leaves prefix, slots and sums right;
`StillReadingRight` and `CountAgrees`, for the recount of the standing lane; and `QuietRight` and
`CopiedRight`, by which the bytes a read copies from a slot are the medium's.

`CachedReaderProofs` proves, for every block size, medium, set of bad bytes, ceiling, set of requests and
finite set of views (`CacheAssumption`), `TypeCorrect`, `ViewsStayTrue` (`ViewsShowTheVolume`),
`HeldStaysCounted` (`HeldIsCounted`), `DiskReadsStayPlanned` (`DiskReadsAsPlanned`) and the action property
`ReadsEndRight` (`ReadsEndWell`). The invariant has three parts. `Kept` is what outlives a call: a cached
block is determined by its index and wholly readable (`CacheRight`), a view shows bytes of the medium
and a block it holds is cached (`ViewsRight`), and some assignment of sizes to the buffers alive
sums up to the tally (`Tallied`). The readable part is what `ReadsEndWell` needs and
`ViewsShowTheVolume` does not say; the assignment is stated once for all views, so that
the end of one view can be followed in it. `CallRight` says that what a
call has copied is the medium's up to `cur` and can be read. `PlanRight` is about the disk: the
announced ranges are whole blocks of the request with gaps between them (`HintsRight`), each block of the
request is cached, announced or dropped since (`Covered`), an announced block that is there now was read
(`AnnouncedRead`), and the reads are counted against the blocks passed (`ReadsCounted`). The main
lemmas are `TrimmedRight` (`Trim()` drops unused blocks only, and enough of them), `IdentityLeft` (a pigeonhole:
while a view is empty a new buffer has an identity), `OneViewLess` (the end of a view, shared or not),
`LongestExists` and `LongestApart` (the runs of `AnnounceUncachedBlocks()` cover what is missing, with
gaps), and `SameHint` (blocks that follow each other and are announced lie in one range).
`CeilingAfterEachRead`, which TLC refutes, is what `ReadsEndRight` does not say: a read that fails
trims nothing.

Model-checked only: the liveness properties, which need fairness and `ENABLED`, and the modules
without a proof module. `MftTree`, `UsnJournal`, `DirectoryListing` and the modules that
extend them use recursive operators, and what those compute for every input is out of the
prover's reach.

One safety invariant of `SlotScan` is model-checked only as well, `ReadsAsAnnounced`: no theorem states it.
It is not claimed for every value of the constants. The bound of `Lookahead - 1` stale ranges before a read
rests on how often the second pass cancels its announcements and on how many records far from the
pass each layout has, so a theorem needs hypotheses on these; the exactness of the counters
(`AheadIsExact`) needs `MaxPreread` other than 0 (section 4). The run shows both for its own
constants.

## 6. Abstractions

* `Prefetcher`: the capacity of kept buffers and bench counters are left out. How
  much of a range was used is the part the last answer reached. The vector of slots
  grows in the code; here it has `MaxSlots`, more than the caps let it use.
* `CachedReader`: exceptions from allocation are left out; the sums of `HeldBytes` and of the
  tally do not saturate, which the code would only see at 2^64 bytes held. The NoCache strategy keeps nothing to go wrong. `hinted`
  is what `Prefetch()` of the range announces when it is called just before the read; what calls between an announcement
  and its read do to the cache is not modelled, and the code promises nothing of it.
* `SlotScan`: whether the probe pays and whether a thread refuses a slot are
  nondeterministic; a progress callback may stop the scan at any slot; `bad` stands for
  records that cannot be read and records that are dropped; one variable `batch`
  stands for the batches of both pools, because the first pool is over before the
  second begins; the scan by one thread is the reference the properties define
  (`OneThreadLog`). `SlotBases`, exceptions of a chunk and the bench's stop request are left out.
* `SlotReads`: the reader takes every hint and keeps the order; the extents of one list are one
  range; single records read outside windows are neither announced nor counted, as in the code;
  `RestartInterval` 1 and `Lookahead` 2 mean that the ranges of one record may stand before a read.
* `DirectoryListing` and the modules under it: `$MFT` is one extent. With a fragmented one, a failed
  read of the first fragment leaves ranges of later fragments announced (`probe-lane.cpp:231`,
  `entry-prober.cpp:125`), and blocks of the cache may be shared between fragments; neither is
  covered. A size is counted in records. With no cache and clusters of several records, window
  and memo are off, and the worlds combine them accordingly. The listing never sets the bypass of the deleted gate,
  so it is left out, as are slack carving and indexes that are not of file names.
* `VolumeScan`: records come whole and in order; extension records, the second pass and the
  threads are the subject of `SlotScan`. `$J` is words of eight bytes, its real ranges are given,
  chunks end between words; timestamps, logs, health counters (`bad_with_clear_bit`), announcements,
  `GetClaimedLayouts()`, the skip of the `$Bad` stream and the 32-bit limit of records in
  `ClaimInventory::Add()` are left out; the size of the store is known; parts of one
  stream do not overlap. A short window of `$Bitmap` that failed answers only while it is held or
  retained, so `StatesRight` lets a cluster after a failure be unknown. `PathsAgree` exempts
  entries under a loop unless the memo has room for every path and no call threw, and a way up that ends at a directory that has
  only aliases: those cases are the findings `volume_scan_memo` and `volume_scan_alias`.
* A record, a log line, an exception or a block is what tells it apart from others
  (its number, its chunk, its addresses), never its bytes.

## 7. Not modelled

`EFS` is cryptography by system libraries. `LZNT1`, UTF and upcase conversions are
stateless functions on bytes, for which the repository's tests and fuzzers are the better
tool. The bench only measures. Tuning is a table of numbers, the constants of
the models. The host's media kind and extended paths are queries of the operating system.
Log sinks and formatting change nothing that is returned.

The parsing of attributes, the resolution of attribute lists and with it the bootstrap of
`$MFT`, sparse and compressed reads, carving of slack and the opening of a volume are not modelled:
they are long, sequential and mostly about the layout of bytes, which an abstraction to
what properties tell apart would leave out. Two of them have control worth a model later: the
bootstrap, where `$MFT` may need itself to find its runs, and the lists that name
extension records in a loop.

Of the lines that the repository counts as implementation, most are tests, fixtures and
image builders (`NTFSLibTests`, 2,300 lines of one fake image alone) and are not modelled. Of the code of the library
itself the map covers the reading, scanning, listing, tree, journal and allocation parts.

## 8. Plan

What is left is to prove more, in this order:

1. Lemmas about the operators of `RunList`, `ClusterBitmap` and `SlotReads`, which declare no recursive
   operator: decoding stays below its bounds, a window lies inside the bitmap, `Before()` keeps
   the counters exact.
2. `SlotScan`: the exactness of what is announced ahead (`AheadIsExact`), which depends on the order of
   slots only and not on the threads that parse them.

To model, should the project be taken further: a fragmented `$MFT` under `DirectoryListing`, the
bootstrap of `$MFT`, attribute lists, and an exception thrown by a chunk of the scan.
