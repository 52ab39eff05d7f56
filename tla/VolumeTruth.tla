----------------------------- MODULE VolumeTruth -----------------------------
(***************************************************************************)
(* What a scan should tell of a volume, said of the volume itself, cluster *)
(* by cluster, name by name and word by word, and the properties that hold *)
(* the scan to it.  Nothing here stands for code.                          *)
(***************************************************************************)
EXTENDS VolumeScan

CONSTANT Roomy         (* a budget that every path of the tree fits in *)

-----------------------------------------------------------------------------
(* The tree.                                                               *)
Recorded(record) == {e \in ToSet(scan.entries) : e.record = record}

Refers(name, e) ==
  /\ e.directory
  /\ \/ name.parentSequence \in {0, e.sequence}
     \/ ~e.inUse /\ e.sequence = (IF name.parentSequence = MaxSequence THEN 1
                                  ELSE name.parentSequence + 1)

TrueParent(e, name) ==
  IF name.parent = e.record THEN e.record = Root
  ELSE \/ name.parent = Root /\ Recorded(Root) = {}
       \/ \E p \in Recorded(name.parent) : Refers(name, p)

Under(dir) ==
  LET inside == SelectSeq(scan.entries, LAMBDA e :
        /\ e.record # Root
        /\ \E n \in ToSet(e.names) : ~n.dos /\ n.parent = dir /\ TrueParent(e, n))
  IN  [i \in DOMAIN inside |-> inside[i].record]

WithinReach ==
  LET reach[n \in 0 .. Len(scan.entries)] ==
        IF n = 0 THEN {Root}
        ELSE reach[n - 1] \cup UNION {ToSet(Under(d)) : d \in reach[n - 1]}
  IN  reach[Len(scan.entries)]

JustLinked == tree # None /\ asks = 0 /\ throws = 0

(* Each directory has, once and in the order of the scan, the records that *)
(* name it with a long name, whose reference fits its generation; a lost   *)
(* root has its own too, and what is marked reachable is what the root     *)
(* reaches (Link, FileChildren, EntryIndex).                               *)
LinkedRight ==
  JustLinked =>
    /\ \A dir \in {Root} \cup {e.record : e \in ToSet(scan.entries)} :
         Children(tree, dir) = Under(dir)
    /\ \A i \in DOMAIN scan.entries :
         tree.reachable[i] = (scan.entries[i].record \in WithinReach)
    /\ Unreachable(tree) = Cardinality({e.record : e \in ToSet(scan.entries)} \ WithinReach)

-----------------------------------------------------------------------------
(* The paths: the names from one up to the root, or to where they break.   *)
(* A directory is spelled by its first long name that fits its parent,     *)
(* else by its first long name: by no other, least of all by an alias.     *)
LongNames(e) == SelectSeq(e.names, LAMBDA n : ~n.dos)
Spellings(e) == SelectSeq(LongNames(e), LAMBDA n : TrueParent(e, n)) \o LongNames(e)

Spelled(e) == [entry |-> e, name |-> Head(Spellings(e))]

(* A step of the way up: an entry, and the name of it that is gone by.     *)
LeadsOn(step) ==
  /\ step.name.parent # Root /\ TrueParent(step.entry, step.name)
  /\ \E p \in Recorded(step.name.parent) : Spellings(p) # <<>>

ClimbFrom(first) ==
  LET climb[n \in 0 .. Len(scan.entries) + 1] ==
        IF n = 0 THEN first
        ELSE LET below == climb[n - 1]
             IN  IF below = None \/ ~LeadsOn(below) THEN None
                 ELSE Spelled(CHOOSE p \in Recorded(below.name.parent) : TRUE)
  IN  climb

(* The n-th step closes a loop when it leads to a record met before.       *)
Met(climb, n) == {climb[0].entry.record} \cup {climb[j].name.parent : j \in 0 .. n - 2}

ClosesLoop(climb, n) ==
  /\ TrueParent(climb[n - 1].entry, climb[n - 1].name)
  /\ climb[n - 1].name.parent \in Met(climb, n)

Levels(climb) == Min({n \in DOMAIN climb \ {0} : climb[n] = None \/ ClosesLoop(climb, n)})

TrueLost(top) ==
  IF top.name.parent = Root /\ TrueParent(top.entry, top.name) THEN None ELSE top.name.parent

SpelledOut(climb, levels, lost) ==
  LET names == FlattenSeq([i \in 1 .. levels |-> <<Sep, climb[levels - i].name.name>>])
  IN  [path |-> IF lost = None THEN names ELSE Tail(names), lost |-> lost]

TruePath(climb) == SpelledOut(climb, Levels(climb), TrueLost(climb[Levels(climb) - 1]))

EntryAsked == CHOOSE e \in Recorded(answer.record) : TRUE

NameAsked == answer.kind = "path" /\ answer.k \in DOMAIN EntryAsked.names

(* A file that only the journal knows is no entry, and no parent either.   *)
WayUp ==
  ClimbFrom(IF answer.kind = "journal"
            THEN [entry |-> [record |-> None], name |-> usn.only[answer.record]]
            ELSE [entry |-> EntryAsked, name |-> EntryAsked.names[answer.k]])

TrueAnswer ==
  IF answer.kind = "path" /\ ~NameAsked THEN NoPath
  ELSE IF answer.record = Root /\ answer.kind = "path" THEN [path |-> <<Sep>>, lost |-> None]
  ELSE TruePath(WayUp)

Climbs == answer.kind = "journal" \/ (NameAsked /\ answer.record # Root)

AnswerLoops == answer.kind = "path" /\ Climbs /\ ClosesLoop(WayUp, Levels(WayUp))

(* The way up ends at a directory that has names, but no long one.         *)
EndsAtAlias ==
  Climbs /\ LET top == WayUp[Levels(WayUp) - 1]
            IN  TrueParent(top.entry, top.name)
                /\ \E p \in Recorded(top.name.parent) : p.record # Root /\ p.names # <<>>
                                                        /\ LongNames(p) = <<>>

(* Whatever was asked before, in whatever order, whatever the memo had     *)
(* room for and wherever a call threw, a path is what a walk of its names  *)
(* gives.  On names that loop it is when the memo has room for all of them *)
(* and no call threw (PathThrough, PathOfDirectory, Remember,              *)
(* GetJournalPath).  Of a way up to a directory that has only aliases it   *)
(* says nothing: see AliasesStayOut.                                       *)
PathsAgree ==
  /\ answer.kind \in {"path", "journal"} /\ ~EndsAtAlias
  /\ AnswerLoops => volume.budget >= Roomy /\ throws = 0
  =>
    answer.found = TrueAnswer

(* Each directory of a chain of names that loops sees the loop close at    *)
(* itself, whatever was asked before (the comment of PathOfDirectory).     *)
LoopsCloseAtThemselves == answer.kind = "path" => answer.found = TrueAnswer

(* An alias is never used to build the path of a long name (the comment of *)
(* Name::dos_only).                                                        *)
Aliases == {n.name : n \in UNION {{m \in ToSet(e.names) : m.dos} : e \in ToSet(scan.entries)}}

AliasesStayOut ==
  NameAsked /\ ~EntryAsked.names[answer.k].dos => ToSet(answer.found.path) \cap Aliases = {}

(* A path that starts at the root, with no ancestor lost, is that of a     *)
(* record that the root reaches (the comments of IsReachable and GetPath). *)
(* Below a directory that has only aliases it does not hold (README,       *)
(* Findings).                                                              *)
RootPathsAreReached ==
  NameAsked /\ answer.found.lost = None =>
    \A i \in DOMAIN scan.entries :
      scan.entries[i].record = answer.record => tree.reachable[i]

-----------------------------------------------------------------------------
(* The journal: the records of each range, read as one piece as far as it  *)
(* is read.                                                                *)
WordsRead(range) ==
  LET chunks == 0 .. Len(range.words)
      Fails(n) == \E w \in range.offset + n * volume.chunk ..
                              range.offset + Min({(n + 1) * volume.chunk, Len(range.words)}) - 1 :
                    w \in volume.unreadableWords
  IN  SubSeq(range.words, 1,
             Min({Len(range.words)} \cup {n * volume.chunk : n \in {c \in chunks : Fails(c)}}))

RECURSIVE RecordsFrom(_, _, _, _)
RecordsFrom(words, offset, at, lost) ==
  IF at > Len(words) THEN <<>>
  ELSE LET word == words[at]
       IN  IF word = ZeroWord THEN RecordsFrom(words, offset, at + 1, lost)
           ELSE IF /\ word.kind = "head" /\ word.good /\ at + word.length - 1 <= Len(words)
                   /\ lost => word.usn = offset + at - 1
           THEN (IF word.version = 4 THEN <<>> ELSE <<word.record>>)
                \o RecordsFrom(words, offset, at + word.length, FALSE)
           ELSE RecordsFrom(words, offset, at + 1, TRUE)

AllRecords ==
  FlattenSeq([r \in DOMAIN volume.ranges |->
    RecordsFrom(WordsRead(volume.ranges[r]), volume.ranges[r].offset, 1, FALSE)])

Newest == SubSeq(AllRecords, Max({1, Len(AllRecords) - volume.journalLimit + 1}),
                 Len(AllRecords))

AboutEntry(record, e) ==
  /\ record.high = 0 /\ record.file = e.record
  /\ \/ record.sequence \in {0, e.sequence}
     \/ ~e.inUse /\ e.sequence = (IF record.sequence = MaxSequence THEN 1
                                  ELSE record.sequence + 1)

Noted(records) ==
  [last    |-> Last(records).usn, count |-> Len(records),
   reasons |-> {records[i].reason : i \in DOMAIN records},
   deleted |-> LET gone == SelectSeq(records, LAMBDA r : r.reason = "delete")
               IN  IF gone = <<>> THEN 0 ELSE Last(gone).usn]

NotedFor(records) == IF records = <<>> THEN NoInfo ELSE Noted(records)

Stray(records) ==
  SelectSeq(records, LAMBDA r : \A e \in ToSet(scan.entries) : ~AboutEntry(r, e))

SameFile(r, item) == r.file = item.record /\ r.sequence = item.sequence

OnlyRight(stray) ==
  /\ \A i \in DOMAIN usn.only :
       /\ usn.only[i].usn = NotedFor(SelectSeq(stray, LAMBDA r : SameFile(r, usn.only[i])))
       /\ usn.only[i].name =
            Last(SelectSeq(stray, LAMBDA r : SameFile(r, usn.only[i]))).name
  /\ FoldLeft(LAMBDA sum, item : sum + item.usn.count, 0, usn.only) = Len(stray)

(* The records kept are the newest of those that the journal holds where   *)
(* it could be read, wherever the chunks split them, and each of them is   *)
(* counted once: by the entry whose generation it names, or, with deleted  *)
(* records included, by the one item of its file (Drain, Ring,             *)
(* ApplyJournal).                                                          *)
JournalConserved ==
  JustLinked /\ pc = "ready" /\ usn # None =>
    /\ journal.ring.kept = Newest
    /\ \A i \in DOMAIN scan.entries :
         usn.usn[i] = NotedFor(SelectSeq(Newest, LAMBDA r : AboutEntry(r, scan.entries[i])))
    /\ usn.annotated = Quantify(DOMAIN scan.entries, LAMBDA i :
         \E r \in ToSet(Newest) : AboutEntry(r, scan.entries[i]))
    /\ IF volume.includeDeleted THEN OnlyRight(Stray(Newest)) ELSE usn.only = <<>>

-----------------------------------------------------------------------------
(* The clusters.  What $Bitmap and $BadClus say of one; where $Bitmap is   *)
(* damaged, that or nothing.                                               *)
VolumeEnd == Limit(UsableClusterCount(volume), BitmapDataBytes(volume))
ListedBad == UNION {e.lcn .. ExtentEnd(e) - 1 : e \in ToSet(BadExtents(volume))}
BitOf(lcn) == IF lcn \in volume.bits THEN "Allocated" ELSE "Free"

BytesOfWindow(w) == w * WindowBytes .. Min({(w + 1) * WindowBytes, BitmapDataBytes(volume)}) - 1

DamagedWindows ==
  {w \in 0 .. BitmapDataBytes(volume) \div WindowBytes :
     BytesOfWindow(w) \cap volume.unreadable # {}}

(* Whether a byte lies before the first piece of its window that is lost.  *)
BeforeDamage(w, byte) ==
  \A u \in BytesOfWindow(w) \cap volume.unreadable :
    byte < u - ((u - w * WindowBytes) % PieceBytes)

BitStates(lcn, byte) ==
  (IF BeforeDamage(byte \div WindowBytes, byte) THEN {BitOf(lcn)} ELSE {"Unknown"})
  \cup (IF \/ byte \div WindowBytes \in DamagedWindows
           \/ Cardinality(DamagedWindows) >= MaxFailedWindows THEN {"Unknown"} ELSE {})

TrueStates(lcn) ==
  IF ~volume.bitmapUsable /\ (ListedBad = {} \/ UsableClusterCount(volume) = 0)
  THEN {"Unknown"}
  ELSE IF lcn >= (IF volume.bitmapUsable THEN VolumeEnd ELSE UsableClusterCount(volume))
  THEN {"OutOfRange"}
  ELSE IF lcn \in ListedBad THEN {"Bad"}
  ELSE IF ~volume.bitmapUsable \/ lcn >= BitmapDataBytes(volume) * BitsPerByte
  THEN {"Unknown"}
  ELSE BitStates(lcn, lcn \div BitsPerByte)

(* The cells of a part of an attribute: its clusters, one by one, as far   *)
(* as its runs decode.                                                     *)
DeltaSum(a, i) ==
  MapThenSumSet(LAMBDA j : IF a.encoded[j].delta = NoLcn THEN 0 ELSE a.encoded[j].delta, 1 .. i)
LengthSum(a, i) == MapThenSumSet(LAMBDA j : a.encoded[j].length, 1 .. i)

(* The last of some clusters; that of none wraps to the largest number.    *)
LastOf(length) == (length - 1) % (MaxLcn + 1)

Decodable(a, i) ==
  /\ a.encoded[i] # BadRun
  /\ DeltaSum(a, i) \in 0 .. MaxSigned
  /\ LengthSum(a, i) <= MaxLcn
  /\ LastOf(LengthSum(a, i)) <= a.bound

GoodRuns(a) == Max({n \in 0 .. Len(a.encoded) : \A i \in 1 .. n : Decodable(a, i)})

Wraps(a, i) == a.encoded[i].length > MaxLcn - DeltaSum(a, i)

(* A cell has an address when its run has one, does not wrap, and is not   *)
(* past what one claim can hold.                                           *)
PartStart(a, vcn, start) ==
  IF a.start = 0 /\ vcn >= a.initialized THEN Max({a.initialized, start}) ELSE start

Addressed(a, i, vcn, start) ==
  /\ a.encoded[i].delta # NoLcn /\ ~Wraps(a, i)
  /\ vcn - PartStart(a, vcn, start) < MaxClaim

CellOf(record, a, i, vcn, start) ==
  [record |-> record.record, lsn |-> record.lsn, freed |-> ~record.inUse,
   data |-> a.data, name |-> a.name, vcn |-> vcn,
   hole |-> a.encoded[i].delta = NoLcn, addressed |-> Addressed(a, i, vcn, start),
   unwritten |-> a.start = 0 /\ vcn >= a.initialized,
   lcn |-> IF a.encoded[i].delta = NoLcn THEN NoLcn ELSE DeltaSum(a, i) + vcn - start]

RunCells(record, a, i, start) ==
  {CellOf(record, a, i, vcn, start) : vcn \in start .. start + a.encoded[i].length - 1}

CellsOf(record, a) ==
  UNION {RunCells(record, a, i, a.start + LengthSum(a, i - 1)) : i \in 1 .. GoodRuns(a)}

RecordCells(record) == UNION {CellsOf(record, a) : a \in ToSet(record.attrs)}

KeptRecords == {r \in ToSet(volume.slots) : Kept(volume, r)}

-----------------------------------------------------------------------------
(* The data states.                                                        *)
TrueComplete(a) ==
  /\ \A i \in 1 .. GoodRuns(a) : a.encoded[i].length > 0
  /\ \A i \in 1 .. GoodRuns(a) : a.encoded[i].delta # NoLcn => ~Wraps(a, i)
  /\ LengthSum(a, GoodRuns(a)) >= a.declared

FitsStates(state, complete, cells, truths) ==
  /\ state = "Intact" => complete /\ \A t \in truths : "Free" \in t
  /\ state = "Reallocated" => \E t \in truths : "Allocated" \in t
  /\ state = "Bad" => {"Bad"} \in truths
  /\ state = "Unknown" => \/ ~complete
                          \/ \E t \in truths : t \cap {"OutOfRange", "Unknown"} # {}
  /\ {"Allocated"} \in truths => state = "Reallocated"
  /\ {"Bad"} \in truths => state \in {"Reallocated", "Bad"}

FitsData(state, a, cells) ==
  IF cells = {} THEN state = (IF TrueComplete(a) THEN "Intact" ELSE "Unknown")
  ELSE FitsStates(state, TrueComplete(a), cells, {TrueStates(c.lcn) : c \in cells})

DataStateFits(state, record) ==
  IF Unnamed(record) = <<>> THEN state = None
  ELSE IF record.inUse THEN state = "Intact"
  ELSE FitsData(state, Head(Unnamed(record)),
                {c \in CellsOf(record, Head(Unnamed(record))) : ~c.hole})

Everywhere(state) == {lcn \in 0 .. VolumeEnd - 1 : TrueStates(lcn) = {state}}
Possibly(state)   == {lcn \in 0 .. VolumeEnd - 1 : state \in TrueStates(lcn)}

SummaryFits(told) ==
  \/ told = NoSummary /\ ("Unknown" \in UNION {TrueStates(lcn) : lcn \in 0 .. VolumeEnd - 1}
                          \/ VolumeEnd = 0)
  \/ /\ told.total = VolumeEnd
     /\ told.bad = Cardinality(Everywhere("Bad"))
     /\ told.free \in Cardinality(Everywhere("Free")) .. Cardinality(Possibly("Free"))
     /\ told.unknown \in Cardinality(Everywhere("Unknown")) .. Cardinality(Possibly("Unknown"))

(* Whatever the batches, the windows that are kept and those that cannot   *)
(* be read, a freed file is called intact only when all of its clusters    *)
(* are free, reallocated only when one is allocated, and unknown only when *)
(* something of it is: a damaged part of $Bitmap never changes what the    *)
(* rest of it says.  The summary of the volume counts the same clusters    *)
(* (DataStateResolver, ClusterBitmap).                                     *)
StatesRight ==
  /\ pc = "sweep" =>
       \A i \in DOMAIN scan.entries : \A r \in KeptRecords :
         r.record = scan.entries[i].record =>
           IF Annotates(volume) THEN DataStateFits(scan.states[i], r)
           ELSE scan.states[i] = None
  /\ answer.kind = "summary" => SummaryFits(answer.found)

(* The windows of $Bitmap that a scan keeps stay within the bytes that it  *)
(* may keep, and none is kept once it has no more use for them             *)
(* (ReadWindow, SetRetention, KeptBitmapWindows, ~DataStateResolver).      *)
WindowsGivenBack ==
  /\ RetainedBytes(bitmap) <= volume.keptBytes
  /\ pc \notin {"slots", "sweep"} => bitmap.retained = {} /\ bitmap.keep = 0

-----------------------------------------------------------------------------
(* The account.  The rules of a cluster of a freed file and of one of a    *)
(* live file: it is told the first that matches.                           *)
FreedRules ==
  <<"Invalid", "Bad", "NeverWritten", "ReallocatedWritten", "ReallocatedUnwritten",
    "OverwrittenThenFreed", "Contested", "AllocatedUnknownOwner", "Unknown", "Intact">>
LiveRules ==
  <<"Invalid", "Bad", "CrossLinked", "FreeButClaimed", "Unknown", "Consistent">>

(* The cells of other records at the cluster, live and freed.  A freed one *)
(* that never wrote it, or was freed before, does it no harm.              *)
Others(cell, cells) ==
  {c \in cells : c.addressed /\ c.lcn = cell.lcn /\ c.record # cell.record}
Live(others)    == {c \in others : ~c.freed}
Writers(others) == {c \in others : ~c.unwritten}
Dead(others)    == Writers(others) \ Live(others)

After(c, cell)    == 0 < cell.lsn /\ cell.lsn < c.lsn
Ordering(c, cell) == {0, cell.lsn} \cap {c.lsn} = {} /\ cell.lsn # 0

Matches(cell, others, bit) ==
  [Invalid               |-> bit = "OutOfRange",
   Bad                   |-> bit = "Bad",
   NeverWritten          |-> cell.unwritten,
   ReallocatedWritten    |-> Live(others) \cap Writers(others) # {},
   ReallocatedUnwritten  |-> Live(others) # {},
   OverwrittenThenFreed  |-> \E c \in Dead(others) : After(c, cell),
   Contested             |-> \E c \in Dead(others) : ~Ordering(c, cell),
   AllocatedUnknownOwner |-> bit = "Allocated",
   Intact                |-> bit = "Free",
   CrossLinked           |-> Live(others) # {},
   FreeButClaimed        |-> bit = "Free",
   Unknown               |-> bit = "Unknown",
   Consistent            |-> bit = "Allocated"]

FirstMatch(rules, matches) == rules[Min({i \in DOMAIN rules : matches[rules[i]]})]

Verdicts(cell, cells) ==
  {FirstMatch(IF cell.freed THEN FreedRules ELSE LiveRules,
              Matches(cell, Others(cell, cells), bit)) : bit \in TrueStates(cell.lcn)}

(* What is presumed intact may be looked at, unless a read that reaches it *)
(* may fail.                                                               *)
LooksLike(lcn) ==
  IF lcn \in volume.metadata THEN "OverwrittenByMetadata"
  ELSE IF lcn \in volume.zeros THEN "Zeroed" ELSE "IntactChecked"

NearDamage(lcn) == volume.damaged \cap (lcn - MaxRead + 1 .. lcn + MaxRead - 1) # {}

Presumed(cell, encrypted) ==
  IF volume.check = "Off" \/ encrypted \/ cell.lcn \in volume.damaged THEN {"Intact"}
  ELSE {LooksLike(cell.lcn)}
       \cup (IF volume.check = "Full" /\ ~NearDamage(cell.lcn) THEN {} ELSE {"Intact"})

(* What a cluster may be told to be: one thing, unless what would tell     *)
(* cannot be read.                                                         *)
CellConditions(cell, cells, encrypted) ==
  IF cell.hole THEN {"Sparse"}
  ELSE IF ~cell.addressed THEN {"Invalid"}
  ELSE UNION {IF v = "Intact" THEN Presumed(cell, encrypted) ELSE {v} :
                v \in Verdicts(cell, cells)}

StreamParts(record, name) == {a \in ToSet(record.attrs) : a.data /\ a.name = name}

SpanOf(parts) ==
  Max({0} \cup {a.declared : a \in {p \in parts : p.start = 0}}
      \cup {a.start + LengthSum(a, GoodRuns(a)) : a \in parts})

(* conditions[vcn]: those of each cluster before its unit is looked at.    *)
StreamConditions(own, cells, span, encrypted) ==
  [vcn \in 0 .. span - 1 |->
     UNION ({CellConditions(c, cells, encrypted) : c \in {d \in own : d.vcn = vcn}}
            \cup (IF \E c \in own : c.vcn = vcn THEN {} ELSE {{"Invalid"}}))]

InUnit(conditions, unit, vcn) == {v \in DOMAIN conditions : v \div unit = vcn \div unit}

(* The file's own bytes, and what reads as zeros and always did.           *)
OwnBytes  == {"Intact", "IntactChecked", "Consistent"}
OwnZeros  == {"Sparse", "NeverWritten"}
Spoilt(c) == c \notin OwnBytes \cup OwnZeros
NeedsUnit == OwnBytes \cup {"Sparse"}

MayBreak(conditions, unit, vcn) ==
  \E v \in InUnit(conditions, unit, vcn) : \E c \in conditions[v] : Spoilt(c)
MustBreak(conditions, unit, vcn) ==
  \E v \in InUnit(conditions, unit, vcn) : \A c \in conditions[v] : Spoilt(c)

Spared(conditions, unit, vcn) ==
  IF MustBreak(conditions, unit, vcn) THEN conditions[vcn] \ NeedsUnit ELSE conditions[vcn]

WithUnits(conditions, unit) ==
  IF unit = 0 THEN conditions
  ELSE [vcn \in DOMAIN conditions |->
          Spared(conditions, unit, vcn)
          \cup (IF /\ MayBreak(conditions, unit, vcn)
                   /\ conditions[vcn] \cap NeedsUnit # {}
                THEN {"LostWithUnit"} ELSE {})]

FirstPart(parts) == CHOOSE a \in parts : a.start = 0 \/ \A p \in parts : p.start # 0

(* What is to be told of a stream: in the map, and in the tally, which     *)
(* counts a hole as one whatever its unit.                                 *)
Told(conditions, own, unit) ==
  [unit  |-> unit,
   map   |-> WithUnits(conditions, unit),
   tally |-> [vcn \in DOMAIN conditions |->
                IF \E c \in own : c.vcn = vcn /\ c.addressed
                THEN WithUnits(conditions, unit)[vcn] ELSE conditions[vcn]],
   real  |-> {c.vcn : c \in {d \in own : d.addressed}}]

ToldOf(record, name, cells) ==
  LET parts == StreamParts(record, name)
      own   == {c \in cells : c.record = record.record /\ c.data /\ c.name = name}
  IN  Told(StreamConditions(own, cells, SpanOf(parts), FirstPart(parts).encrypted), own,
           FirstPart(parts).unit)

CoversAt(pieces, vcn) ==
  {i \in DOMAIN pieces : pieces[i].vcn <= vcn /\ vcn < pieces[i].vcn + pieces[i].clusters}

PiecesFit(pieces, told) ==
  /\ Total(pieces) = Cardinality(DOMAIN told.map)
  /\ \A vcn \in DOMAIN told.map :
       \E i \in DOMAIN pieces :
         /\ CoversAt(pieces, vcn) = {i}
         /\ pieces[i].condition \in told.map[vcn]
         /\ (pieces[i].lcn # NoLcn) = (vcn \in told.real)

(* A sample looks at the first cluster that is presumed intact, and no     *)
(* other; a unit that breaks may hide which one that is.                   *)
LookedAt == {"Zeroed", "OverwrittenByMetadata", "IntactChecked"}

VcnsOf(pieces, conditions) ==
  UNION {p.vcn .. p.vcn + p.clusters - 1 : p \in {q \in ToSet(pieces) : q.condition \in conditions}}

SampleFits(pieces, told) ==
  LET looked   == VcnsOf(pieces, LookedAt)
      presumed == looked \cup VcnsOf(pieces, {"Intact"})
  IN  volume.check = "Sample" /\ told.unit = 0 =>
        /\ \A vcn \in looked : presumed \cap 0 .. vcn = {vcn}
        /\ looked = {} => \A vcn \in presumed :
             volume.damaged # {} \/ told.map[vcn] \cap LookedAt = {}

Must(told, c) == Cardinality({vcn \in DOMAIN told.tally : told.tally[vcn] = {c}})
May(told, c)  == Cardinality({vcn \in DOMAIN told.tally : c \in told.tally[vcn]})

TallyFits(tally, tolds) ==
  /\ \A c \in Conditions :
       /\ tally[c] >= MapThenSumSet(LAMBDA n : Must(tolds[n], c), DOMAIN tolds)
       /\ tally[c] <= MapThenSumSet(LAMBDA n : May(tolds[n], c), DOMAIN tolds)
  /\ MapThenSumSet(LAMBDA c : tally[c], Conditions) =
       MapThenSumSet(LAMBDA n : Cardinality(DOMAIN tolds[n].tally), DOMAIN tolds)

AccountFits(account, tolds) ==
  /\ TallyFits(account.tally, tolds)
  /\ \A i \in DOMAIN account.streams :
       /\ PiecesFit(account.streams[i].pieces, tolds[account.streams[i].name])
       /\ SampleFits(account.streams[i].pieces, tolds[account.streams[i].name])
  /\ {account.streams[i].name : i \in DOMAIN account.streams} =
       (IF EffectiveAccountLevel(volume) = "Map" THEN DOMAIN tolds ELSE {})

StreamsOf(record) == {a.name : a \in {b \in ToSet(record.attrs) : b.data}}

AccountRight(record, cells) ==
  LET tolds == [n \in StreamsOf(record) |-> ToldOf(record, n, cells)]
      mine  == {a \in accounts : a.record = record.record}
  IN  IF \A n \in DOMAIN tolds : DOMAIN tolds[n].tally = {}
      THEN \A a \in mine : a.tally = NoTally
      ELSE \E a \in accounts : mine = {a} /\ AccountFits(a, tolds)

(* Every cluster of every stream of a freed or damaged record is accounted *)
(* for once, with the verdict that the claims on that very cluster, its    *)
(* bit, its content and its compression unit give it, wherever stretches,  *)
(* windows, parts, reads and units cut the runs (AccountClusters).         *)
AccountsRight ==
  pc = "link" /\ Accounts(volume) /\ scan.complete =>
    \A r \in KeptRecords :
      IF Concerned(r) /\ StreamsOf(r) # {}
      THEN AccountRight(r, UNION {RecordCells(k) : k \in KeptRecords})
      ELSE {a \in accounts : a.record = r.record} = {}

(* The clusters of the streams accounted for that are told to be of a      *)
(* condition, in a scan that keeps their maps.                             *)
Cells == UNION {RecordCells(r) : r \in KeptRecords}

TellsOf(account, cell, condition) ==
  /\ account.record = cell.record
  /\ \E i \in DOMAIN account.streams :
       /\ account.streams[i].name = cell.name
       /\ cell.vcn \in VcnsOf(account.streams[i].pieces, {condition})

CellsTold(condition) ==
  {c \in Cells : c.data /\ c.addressed /\ \E a \in accounts : TellsOf(a, c, condition)}

(* A cluster that is told intact, or allocated to an unknown owner, is     *)
(* claimed by no other record that the scan read, whatever the order in    *)
(* which the two were freed and however much of it was written (the        *)
(* comments of ClusterCondition::Intact and AllocatedUnknownOwner).        *)
SoleClaimant ==
  \A c \in CellsTold("Intact") \cup CellsTold("AllocatedUnknownOwner") : Others(c, Cells) = {}

(* Of the rules of a live file that match, the first in the order of the   *)
(* list is told: free but claimed comes before cross-linked (the comment   *)
(* of ClusterCondition).  LiveCondition() asks in the other order (README, *)
(* Findings).                                                              *)
FreeBeforeCrossLinked == \A c \in CellsTold("CrossLinked") : TrueStates(c.lcn) # {"Free"}
=============================================================================
