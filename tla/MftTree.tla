------------------------------- MODULE MftTree -------------------------------
(***************************************************************************)
(* The tree that a scan of $MFT builds (mft/tree-link, tree-journal,       *)
(* tree-paths): entries filed under the parents that their own names give, *)
(* what the root reaches, what the change journal adds, and the paths with *)
(* their memo.  An entry has a record number, a sequence, whether it is in *)
(* use and a directory, and its names; a name has a parent reference and   *)
(* may be a pure DOS alias.  A path is a sequence of names and separators, *)
(* each one unit long.                                                     *)
(***************************************************************************)
EXTENDS Integers, Sequences, SequencesExt, FiniteSetsExt, Functions, TLC

CONSTANTS Root,            (* root_record *)
          None,            (* no record, no entry, no answer *)
          MaxSequence,     (* mft_max_sequence *)
          DenseFloor,      (* dense_index_floor *)
          DenseRatio,      (* dense_index_ratio *)
          MaxPathLength,   (* max_memoized_path_length *)
          Sep              (* the separator of a path *)

Nothing == [x \in {} |-> x]

-----------------------------------------------------------------------------
(* The sequence that a record gets when it is freed: 0 is never used.      *)
NextSequence(sequence) == IF sequence = MaxSequence THEN 1 ELSE sequence + 1

IsSameRecordGeneration(referenced, sequence, inUse) ==
  \/ referenced = 0
  \/ referenced = sequence
  \/ ~inUse /\ sequence = NextSequence(referenced)

(* A record that would grow the dense index past what the entries justify  *)
(* goes to the sparse one.                                                 *)
IndexEntry(index, record, at, count) ==
  IF record >= Max({DenseFloor, DenseRatio * count})
  THEN [index EXCEPT !.sparse = (record :> at) @@ @]
  ELSE [index EXCEPT !.dense = (record :> at) @@ @ @@ [r \in 0 .. record |-> None]]

IndexEntries(entries) ==
  FoldLeftDomain(LAMBDA index, at : IndexEntry(index, entries[at].record, at, Len(entries)),
                 [dense |-> Nothing, sparse |-> Nothing], entries)

EntryIndex(index, record) ==
  IF record \in DOMAIN index.dense /\ index.dense[record] # None THEN index.dense[record]
  ELSE IF record \in DOMAIN index.sparse THEN index.sparse[record]
  ELSE None

-----------------------------------------------------------------------------
(* The link.  t is the tree: its entries, their index, the children of     *)
(* each in one array, those of a root without an entry, what is reachable. *)
NewTree(entries) ==
  [entries |-> entries, index |-> IndexEntries(entries),
   first |-> <<>>, records |-> <<>>, lostRoot |-> <<>>, reachable |-> <<>>]

Has(t, record)  == EntryIndex(t.index, record) # None
Find(t, record) == t.entries[EntryIndex(t.index, record)]

NamesDirectory(t, record, sequence) ==
  IF ~Has(t, record) THEN record = Root
  ELSE /\ Find(t, record).directory
       /\ IsSameRecordGeneration(sequence, Find(t, record).sequence, Find(t, record).inUse)

(* Only the root is filed under itself.                                    *)
IsValidParent(t, entry, name) ==
  IF name.parent = entry.record THEN entry.record = Root
  ELSE NamesDirectory(t, name.parent, name.parentSequence)

Validated(t) ==
  [t EXCEPT !.entries = [i \in DOMAIN @ |->
     [@[i] EXCEPT !.names = [k \in DOMAIN @ |->
        [@[k] EXCEPT !.valid = IsValidParent(t, t.entries[i], t.entries[i].names[k])]]]]]

Files(entry, k) == entry.names[k].valid /\ ~entry.names[k].dos /\ entry.record # Root

(* Two names in one directory file the record there twice.                 *)
FilesUnderParentFault(entry, k) == Files(entry, k)

(* Two names in one directory file the record there once.                  *)
FilesUnderParent(entry, k) ==
  /\ Files(entry, k)
  /\ \A j \in 1 .. k - 1 : Files(entry, j) => entry.names[j].parent # entry.names[k].parent

(* What is filed where, in the order of the entries and of their names.    *)
Filings(entries) ==
  FlattenSeq([i \in DOMAIN entries |->
    LET names == SelectSeq([k \in DOMAIN entries[i].names |-> k],
                           LAMBDA k : FilesUnderParent(entries[i], k))
    IN  [n \in DOMAIN names |->
           [record |-> entries[i].record, parent |-> entries[i].names[names[n]].parent]]])

(* The children of entry i are records[first[i] + 1 .. first[i + 1]].      *)
Counts(t, filed) ==
  FoldLeft(LAMBDA counts, f : [counts EXCEPT ![EntryIndex(t.index, f.parent) + 1] = @ + 1],
           [i \in 1 .. Len(t.entries) + 1 |-> 0], filed)

PartialSums(counts) ==
  FoldLeftDomain(LAMBDA sums, i :
                   Append(sums, counts[i] + (IF i = 1 THEN 0 ELSE sums[i - 1])),
                 <<>>, counts)

LaidOut(t, filed, first) ==
  FoldLeft(LAMBDA acc, f :
             LET at == EntryIndex(t.index, f.parent)
             IN  [next    |-> [acc.next EXCEPT ![at] = @ + 1],
                  records |-> [acc.records EXCEPT ![acc.next[at] + 1] = f.record]],
           [next |-> first, records |-> [i \in 1 .. Last(first) |-> None]], filed).records

FiledAs(t, filed, first, lost) ==
  [t EXCEPT !.first = first, !.records = LaidOut(t, filed, first),
            !.lostRoot = [i \in DOMAIN lost |-> lost[i].record]]

FileChildren(t, filings) ==
  LET filed == SelectSeq(filings, LAMBDA f : Has(t, f.parent))
  IN  FiledAs(t, filed, PartialSums(Counts(t, filed)),
              SelectSeq(filings, LAMBDA f : ~Has(t, f.parent)))

Children(t, record) ==
  LET at == EntryIndex(t.index, record)
  IN  IF at # None THEN SubSeq(t.records, t.first[at] + 1, t.first[at + 1])
      ELSE IF record = Root THEN t.lostRoot ELSE <<>>

(* What the root reaches, depth first: a record is entered once.           *)
RECURSIVE Reach(_, _, _)
Reach(t, pending, reached) ==
  IF pending = <<>> THEN reached
  ELSE LET fresh == SelectSeq(Children(t, Last(pending)), LAMBDA c : c \notin reached)
       IN  Reach(t, Front(pending) \o fresh, reached \cup ToSet(fresh))

MarkReachable(t, reached) ==
  [t EXCEPT !.reachable = [i \in DOMAIN t.entries |-> t.entries[i].record \in reached]]

Reached(t) == MarkReachable(t, Reach(t, <<Root>>, {Root}))

Link(t) == LET v == Validated(t) IN Reached(FileChildren(v, Filings(v.entries)))

Unreachable(t) == Quantify(DOMAIN t.reachable, LAMBDA i : ~t.reachable[i])

-----------------------------------------------------------------------------
(* The journal.  A record of it has a file reference with a high half, the *)
(* name and the parent it was known by, its number, and whether it says    *)
(* that the file was deleted.                                              *)
NoInfo == [last |-> 0, reasons |-> {}, count |-> 0, deleted |-> 0]

NoteRecord(info, record) ==
  [last    |-> record.usn,
   reasons |-> info.reasons \cup {record.reason},
   count   |-> info.count + 1,
   deleted |-> IF record.reason = "delete" THEN record.usn ELSE info.deleted]

(* The entry that a journal record is about, by its generation too.        *)
EntryOf(t, record) ==
  LET at == EntryIndex(t.index, record.file)
  IN  IF /\ record.high = 0 /\ at # None
         /\ IsSameRecordGeneration(record.sequence, t.entries[at].sequence, t.entries[at].inUse)
      THEN at ELSE None

KeyOf(record) == <<record.file, record.sequence, record.high>>

LostInfo(lost, key) == IF key \in DOMAIN lost THEN lost[key].usn ELSE NoInfo

NoteLost(lost, record) ==
  (KeyOf(record) :> [record |-> record.file, sequence |-> record.sequence,
                     name |-> record.name, parent |-> record.parent,
                     parentSequence |-> record.parentSequence,
                     usn |-> NoteRecord(LostInfo(lost, KeyOf(record)), record)]) @@ lost

(* usn: what is known of each entry, by its index; lost: of other files.   *)
NoteJournalRecord(t, acc, record, includeDeleted) ==
  LET at == EntryOf(t, record)
  IN  IF at # None THEN [acc EXCEPT !.usn[at] = NoteRecord(@, record)]
      ELSE IF includeDeleted THEN [acc EXCEPT !.lost = NoteLost(@, record)]
      ELSE acc

KeyBefore(a, b) ==
  \/ a[1] < b[1]
  \/ a[1] = b[1] /\ (a[2] < b[2] \/ (a[2] = b[2] /\ a[3] < b[3]))

JournalOnly(t, lost) ==
  LET keys == SetToSortSeq(DOMAIN lost, KeyBefore)
  IN  [i \in DOMAIN keys |->
         lost[keys[i]] @@
         [valid |-> NamesDirectory(t, lost[keys[i]].parent, lost[keys[i]].parentSequence)]]

ApplyJournal(t, records, includeDeleted) ==
  LET walked == FoldLeft(LAMBDA acc, r : NoteJournalRecord(t, acc, r, includeDeleted),
                         [usn |-> [i \in DOMAIN t.entries |-> NoInfo], lost |-> Nothing],
                         records)
  IN  [usn |-> walked.usn, only |-> JournalOnly(t, walked.lost),
       annotated |-> Quantify(DOMAIN walked.usn, LAMBDA i : walked.usn[i] # NoInfo)]

-----------------------------------------------------------------------------
(* The paths.                                                              *)

(* The first name that is no alias, whether its parent is valid or not.    *)
PrimaryIndexFault(entry) ==
  LET long == {k \in DOMAIN entry.names : ~entry.names[k].dos}
  IN  IF long # {} THEN Min(long) ELSE IF entry.names # <<>> THEN 1 ELSE 0

(* The primary name is the first with a valid parent that is not a DOS     *)
(* alias, else the first that is not, else the first.  0: none.            *)
PrimaryIndex(entry) ==
  LET long == {k \in DOMAIN entry.names : ~entry.names[k].dos}
      good == {k \in long : entry.names[k].valid}
  IN  IF good # {} THEN Min(good)
      ELSE IF long # {} THEN Min(long)
      ELSE IF entry.names # <<>> THEN 1 ELSE 0

PrimaryOf(t, record) == Find(t, record).names[PrimaryIndex(Find(t, record))]

Joined(path, lost, name) ==
  path \o (IF path # <<>> \/ lost = None THEN <<Sep>> ELSE <<>>) \o <<name>>

(* WalkPath, from a name up: the names met, and where the chain breaks.    *)
RECURSIVE WalkUp(_, _, _, _)
WalkUp(t, name, visited, parts) ==
  LET met == Append(parts, name.name)
  IN  IF ~name.valid \/ name.parent \in visited THEN [parts |-> met, lost |-> name.parent]
      ELSE IF name.parent = Root THEN [parts |-> met, lost |-> None]
      ELSE IF PrimaryIndex(Find(t, name.parent)) = 0
      THEN [parts |-> met, lost |-> name.parent]
      ELSE WalkUp(t, PrimaryOf(t, name.parent), visited \cup {name.parent}, met)

WalkPath(t, record, name) ==
  LET up == WalkUp(t, name, {record}, <<>>)
  IN  [path |-> FoldRight(LAMBDA part, path : Joined(path, up.lost, part), up.parts, <<>>),
       lost |-> up.lost]

(* The memo: the path of each directory that a call went through, or that  *)
(* it is being built, and the units of all of them.                        *)
EmptyMemo == [paths |-> Nothing, units |-> 0]

Building == [path |-> <<>>, lost |-> None, building |-> TRUE]
BeginPath(memo, record) == [memo EXCEPT !.paths = (record :> Building) @@ @]

CanMemoize(memo, length, budget) ==
  length <= MaxPathLength /\ memo.units + length <= budget

(* A path that does not fit stays marked as being built.                   *)
RememberFault(memo, record, found, budget) ==
  IF ~CanMemoize(memo, Len(found.path), budget)
  THEN [memo EXCEPT !.paths[record].building = FALSE]
  ELSE [paths |-> [memo.paths EXCEPT ![record] =
                     [path |-> found.path, lost |-> found.lost, building |-> FALSE]],
        units |-> memo.units + Len(found.path)]

Remember(memo, record, found, budget) ==
  IF ~CanMemoize(memo, Len(found.path), budget)
  THEN [memo EXCEPT !.paths = Restrict(@, DOMAIN @ \ {record})]
  ELSE [paths |-> [memo.paths EXCEPT ![record] =
                     [path |-> found.path, lost |-> found.lost, building |-> FALSE]],
        units |-> memo.units + Len(found.path)]

(* A chain: the directories to build, then what ended it.                  *)
RECURSIVE ClimbChain(_, _, _)
ClimbChain(t, memo, pending) ==
  LET name   == PrimaryOf(t, Last(pending))
      parent == name.parent
      End(known, lost, looped) ==
        [pending |-> pending, memo |-> memo, known |-> known, lost |-> lost, looped |-> looped]
  IN  IF ~name.valid THEN End(None, parent, FALSE)
      ELSE IF parent = Root THEN End(None, None, FALSE)
      ELSE IF PrimaryIndex(Find(t, parent)) = 0 THEN End(None, parent, FALSE)
      ELSE IF parent \in DOMAIN memo.paths
      THEN End(parent, memo.paths[parent].lost, memo.paths[parent].building)
      ELSE ClimbChain(t, BeginPath(memo, parent), Append(pending, parent))

(* The paths that a chain settles, in the order it settles them.  One that *)
(* loops is walked directory by directory, from the first; the others are  *)
(* joined from the top down.                                               *)
LoopedPaths(t, chain) ==
  [i \in DOMAIN chain.pending |->
     [record |-> chain.pending[i],
      found  |-> WalkPath(t, chain.pending[i], PrimaryOf(t, chain.pending[i]))]]

JoinedPaths(t, chain) ==
  LET known == IF chain.known = None THEN <<>> ELSE chain.memo.paths[chain.known].path
      Path(i) == FoldRight(LAMBDA r, path : Joined(path, chain.lost, PrimaryOf(t, r).name),
                           SubSeq(chain.pending, i, Len(chain.pending)), known)
  IN  Reverse([i \in DOMAIN chain.pending |->
                 [record |-> chain.pending[i],
                  found  |-> [path |-> Path(i), lost |-> chain.lost]]])

SettledPaths(t, chain) == IF chain.looped THEN LoopedPaths(t, chain) ELSE JoinedPaths(t, chain)

Settle(memo, settled, budget) ==
  FoldLeft(LAMBDA m, s : Remember(m, s.record, s.found, budget), memo, settled)

FoundFor(settled, record) ==
  (CHOOSE s \in ToSet(settled) : s.record = record).found

SettleChain(chain, settled, budget) ==
  [memo |-> Settle(chain.memo, settled, budget),
   found |-> FoundFor(settled, Head(chain.pending))]

ClimbedFrom(t, memo, record) == ClimbChain(t, BeginPath(memo, record), <<record>>)

BuildPath(t, chain, budget) == SettleChain(chain, SettledPaths(t, chain), budget)

(* PathOfDirectory: known, left being built by a call that threw, or new.  *)
Repaired(memo, record, found) ==
  [memo  |-> [memo EXCEPT !.paths[record] =
                [path |-> found.path, lost |-> found.lost, building |-> FALSE]],
   found |-> found]

PathOfDirectory(t, memo, record, budget) ==
  IF record \notin DOMAIN memo.paths
  THEN BuildPath(t, ClimbedFrom(t, memo, record), budget)
  ELSE IF memo.paths[record].building
  THEN Repaired(memo, record, WalkPath(t, record, PrimaryOf(t, record)))
  ELSE [memo  |-> memo,
        found |-> [path |-> memo.paths[record].path, lost |-> memo.paths[record].lost]]

(* A throw leaves the chain as far as it was climbed being built, or a     *)
(* part of it settled, the units of the next path perhaps counted already. *)
CountedToo(memo, settled, j, budget) ==
  IF j < Len(settled) /\ CanMemoize(memo, Len(settled[j + 1].found.path), budget)
  THEN {memo, [memo EXCEPT !.units = @ + Len(settled[j + 1].found.path)]}
  ELSE {memo}

ThrownChain(memo, chain, settled, budget) ==
  {FoldLeft(BeginPath, memo, SubSeq(chain.pending, 1, j)) : j \in 0 .. Len(chain.pending)}
  \cup UNION {CountedToo(Settle(chain.memo, SubSeq(settled, 1, j), budget), settled, j, budget) :
                j \in DOMAIN settled \cup {0}}

ThrownFrom(t, memo, chain, budget) == ThrownChain(memo, chain, SettledPaths(t, chain), budget)

PathOfDirectoryThrows(t, memo, record, budget) ==
  IF record \in DOMAIN memo.paths THEN {memo}
  ELSE ThrownFrom(t, memo, ClimbedFrom(t, memo, record), budget)

(* The directory that PathThrough asks the memo for, or None.              *)
MemoDirectory(t, entry, k) ==
  LET name == entry.names[k]
  IN  IF entry.record = Root THEN None
      ELSE IF entry.directory THEN IF k = PrimaryIndex(entry) THEN entry.record ELSE None
      ELSE IF name.valid /\ name.parent # Root /\ Has(t, name.parent)
              /\ PrimaryIndex(Find(t, name.parent)) # 0
      THEN name.parent ELSE None

(* The path of a file is its directory's and its own name.                 *)
ThroughDirectory(entry, k, asked) ==
  IF entry.directory THEN asked
  ELSE [asked EXCEPT !.found.path = @ \o <<Sep, entry.names[k].name>>]

PathThrough(t, memo, entry, k, budget) ==
  LET asks == MemoDirectory(t, entry, k)
  IN  IF asks # None
      THEN ThroughDirectory(entry, k, PathOfDirectory(t, memo, asks, budget))
      ELSE [memo  |-> memo,
            found |-> IF entry.record = Root THEN [path |-> <<Sep>>, lost |-> None]
                      ELSE WalkPath(t, entry.record, entry.names[k])]

(* GetPath: of a record that is not kept or has no such name, nothing.     *)
NoPath == [path |-> <<>>, lost |-> None]

GetPath(t, memo, record, k, budget) ==
  IF Has(t, record) /\ k \in DOMAIN Find(t, record).names
  THEN PathThrough(t, memo, Find(t, record), k, budget)
  ELSE [memo |-> memo, found |-> NoPath]

PrimaryAt(t, record) == IF Has(t, record) THEN PrimaryIndex(Find(t, record)) ELSE 0

(* GetJournalPath: the name of the item under the path of its parent.      *)
UnderParent(item, asked) ==
  IF asked.found.path = <<>>
  THEN [asked EXCEPT !.found = [path |-> <<item.name>>, lost |-> item.parent]]
  ELSE [asked EXCEPT !.found.path =
          @ \o (IF Last(@) = Sep THEN <<>> ELSE <<Sep>>) \o <<item.name>>]

GetJournalPath(t, memo, item, budget) ==
  IF ~item.valid THEN [memo |-> memo, found |-> [path |-> <<item.name>>, lost |-> item.parent]]
  ELSE IF item.parent = Root
  THEN [memo |-> memo, found |-> [path |-> <<Sep, item.name>>, lost |-> None]]
  ELSE UnderParent(item, GetPath(t, memo, item.parent, PrimaryAt(t, item.parent), budget))
=============================================================================
