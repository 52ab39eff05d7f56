------------------------------ MODULE VolumeScan ------------------------------
(***************************************************************************)
(* A scan of a volume, from its records to the tree and what can be asked  *)
(* of it (mft/tree, mft/data-state-resolver).  The records are read in     *)
(* order; each that is kept gives an entry, its data state is known or is  *)
(* asked of $Bitmap with others, and its runs are claims.  Then the        *)
(* clusters are accounted, the entries linked, the journal read and        *)
(* applied.  Paths are asked in any order, and a call may throw.           *)
(***************************************************************************)
EXTENDS MftTree, ClusterSweep, UsnJournal

CONSTANTS Volumes,     (* the volumes, the options of the scan, and how often it is asked *)
          MaxThrows    (* calls that throw, at most *)

VARIABLES volume,      (* what is scanned, with the options: never changes *)
          pc,          (* the stage of Scan() *)
          scan,        (* the records read, the entries kept, what waits *)
          bitmap,      (* what is kept of $Bitmap and $BadClus *)
          inventory,   (* the claims *)
          accounts,    (* the cluster account of each record *)
          tree,        (* the linked tree *)
          journal,     (* the journal while it is read *)
          usn,         (* what the journal says of the entries *)
          memo,        (* directory_paths_, memoized_path_units_ *)
          answer,      (* the last answer, and what was asked *)
          asks, throws

vars == <<volume, pc, scan, bitmap, inventory, accounts, tree, journal, usn, memo, answer,
          asks, throws>>

NoAnswer == [kind |-> "none"]

(* The account is off when no record can be concerned, and counts at least *)
(* when the content is to be checked.                                      *)
EffectiveAccountLevel(v) ==
  IF ~v.includeDeleted /\ ~v.recover THEN "Off"
  ELSE IF v.level = "Off" /\ v.check # "Off" THEN "Counts" ELSE v.level

Annotates(v) == v.includeDeleted /\ v.annotate
Accounts(v)  == EffectiveAccountLevel(v) # "Off"

(* Windows of $Bitmap are kept from the start when the sweep reads what    *)
(* the data states read.                                                   *)
KeptForSweep(v) == IF Accounts(v) /\ Annotates(v) THEN v.keptBytes ELSE 0

Init ==
  /\ volume \in Volumes
  /\ pc = "slots"
  /\ scan = [next |-> 1, entries |-> <<>>, states |-> <<>>, waiting |-> <<>>,
             keeping |-> FALSE, complete |-> TRUE]
  /\ bitmap = SetRetention(NotLoaded, KeptForSweep(volume))
  /\ inventory = EmptyInventory
  /\ accounts = {}
  /\ tree = None
  /\ journal = NoJournal
  /\ usn = None
  /\ memo = EmptyMemo
  /\ answer = NoAnswer
  /\ asks = 0 /\ throws = 0

-----------------------------------------------------------------------------
(* A freed record is not read, or a strict parse drops a damaged one.      *)
Kept(v, record) ==
  /\ record.inUse \/ v.includeDeleted
  /\ v.recover \/ (~record.damaged /\ \A i \in DOMAIN record.attrs :
                                          ~ParseRuns(record.attrs[i]).stopped)

EntryOfRecord(record) ==
  [record |-> record.record, sequence |-> record.sequence, inUse |-> record.inUse,
   directory |-> record.directory, names |-> record.names]

Layouts(record) ==
  [record EXCEPT !.layouts = [i \in DOMAIN record.attrs |->
                                GetLayout(record.attrs[i], ParseRuns(record.attrs[i]).runs)]]

(* ComputeDataNote: the state of the unnamed stream, or what to ask.       *)
Unnamed(record) ==
  SelectSeq(record.attrs, LAMBDA a : a.data /\ a.name = "" /\ a.start = 0)

Known(state) == [kind |-> "Known", state |-> state]

DataNote(record, found) ==
  IF record.inUse THEN Known("Intact")
  ELSE IF found.extents = <<>> THEN Known(IF found.complete THEN "Intact" ELSE "Unknown")
  ELSE [kind |-> "Query", extents |-> found.extents, complete |-> found.complete]

ComputeDataNote(record) ==
  IF Unnamed(record) = <<>> THEN [kind |-> "None"]
  ELSE LET a == Head(Unnamed(record))
       IN  DataNote(record, GetExtents(a, ParseRuns(a).runs))

-----------------------------------------------------------------------------
(* The resolver.  Queries wait until there are enough of them.             *)
FoldDataState(complete, states) ==
  IF "Allocated" \in ToSet(states) THEN "Reallocated"
  ELSE IF "Bad" \in ToSet(states) THEN "Bad"
  ELSE IF ~complete \/ ToSet(states) \cap {"OutOfRange", "Unknown"} # {} THEN "Unknown"
  ELSE "Intact"

Queries(waiting) == FlattenSeq([i \in DOMAIN waiting |-> waiting[i].extents])

FirstQuery(waiting, i) == Len(Queries(SubSeq(waiting, 1, i - 1)))

SetState(states, waiting, answers, i) ==
  [states EXCEPT ![waiting[i].entry] =
     FoldDataState(waiting[i].complete,
                   SubSeq(answers, FirstQuery(waiting, i) + 1,
                          FirstQuery(waiting, i) + Len(waiting[i].extents)))]

SetStates(states, waiting, answers) ==
  FoldLeftDomain(LAMBDA acc, i : SetState(acc, waiting, answers, i), states, waiting)

(* From the first flush on, the windows of $Bitmap are kept.               *)
KeepWindows(v, s, b) == IF s.keeping THEN b ELSE SetRetention(b, v.keptBytes)

FlushedWith(s, answered) ==
  [scan   |-> [s EXCEPT !.states = SetStates(@, s.waiting, answered.states),
                        !.waiting = <<>>, !.keeping = TRUE],
   bitmap |-> answered.b]

Flush(v, s, b) ==
  IF s.waiting = <<>> THEN [scan |-> s, bitmap |-> b]
  ELSE FlushedWith(s, StatesInOrder(v, GetClusterBitmap(v, KeepWindows(v, s, b)),
                                    Queries(s.waiting)))

FlushIfFull(v, s, b) ==
  IF Len(Queries(s.waiting)) >= v.maxPending THEN Flush(v, s, b)
  ELSE [scan |-> s, bitmap |-> b]

AddNote(v, s, b, at, note) ==
  CASE note.kind = "None"  -> [scan |-> s, bitmap |-> b]
    [] note.kind = "Known" -> [scan |-> [s EXCEPT !.states[at] = note.state], bitmap |-> b]
    [] note.kind = "Query" ->
         FlushIfFull(v, [s EXCEPT !.waiting = Append(@, [entry |-> at, extents |-> note.extents,
                                                         complete |-> note.complete])], b)

KeepEntry(s, record) ==
  [s EXCEPT !.entries = Append(@, EntryOfRecord(record)), !.states = Append(@, None)]

NoteKept(v, s, b, record) ==
  IF Annotates(v) THEN AddNote(v, s, b, Len(s.entries), ComputeDataNote(record))
  ELSE [scan |-> s, bitmap |-> b]

(* The windows are given back, unless the sweep reads them again.          *)
DropWindows(v, flushed) ==
  IF flushed.scan.keeping /\ ~Accounts(v) THEN SetRetention(flushed.bitmap, 0)
  ELSE flushed.bitmap

-----------------------------------------------------------------------------
(* Reading the records.                                                    *)
ReadSlot ==
  /\ pc = "slots" /\ scan.next <= Len(volume.slots) /\ scan.complete
  /\ \E record \in {volume.slots[scan.next]} :
       IF Kept(volume, record)
       THEN /\ \E noted \in {NoteKept(volume, KeepEntry(scan, record), bitmap, record)} :
                 /\ scan' = [noted.scan EXCEPT !.next = @ + 1]
                 /\ bitmap' = noted.bitmap
            /\ inventory' = IF Accounts(volume) THEN AddRecord(inventory, Layouts(record))
                            ELSE inventory
       ELSE scan' = [scan EXCEPT !.next = @ + 1] /\ UNCHANGED <<bitmap, inventory>>
  /\ UNCHANGED <<volume, pc, accounts, tree, journal, usn, memo, answer, asks, throws>>

(* progress() stops the scan: what was read is linked, and no more.        *)
StopScan ==
  /\ pc = "slots" /\ volume.mayStop /\ scan.complete /\ scan.next <= Len(volume.slots)
  /\ scan' = [scan EXCEPT !.complete = FALSE]
  /\ UNCHANGED <<volume, pc, bitmap, inventory, accounts, tree, journal, usn, memo, answer,
                 asks, throws>>

FinishSlots ==
  /\ pc = "slots" /\ (scan.next > Len(volume.slots) \/ ~scan.complete)
  /\ \E flushed \in {IF Annotates(volume) THEN Flush(volume, scan, bitmap)
                     ELSE [scan |-> scan, bitmap |-> bitmap]} :
       scan' = flushed.scan /\ bitmap' = DropWindows(volume, flushed)
  /\ pc' = "sweep"
  /\ UNCHANGED <<volume, inventory, accounts, tree, journal, usn, memo, answer, asks, throws>>

(* The account of the clusters, of the records that are entries.  The      *)
(* windows that were kept for it are given back.                           *)
GiveBack(v, b) == IF Accounts(v) /\ Annotates(v) THEN SetRetention(b, 0) ELSE b

SweepClusters ==
  /\ pc = "sweep" /\ Accounts(volume) /\ scan.complete
  /\ \E swept \in {Sweep(volume, bitmap, inventory)} :
       /\ accounts' = AccountClusters(CheckContent(volume, swept.resolved, inventory.accounts,
                                                   volume.check),
                                      inventory.accounts, EffectiveAccountLevel(volume))
       /\ bitmap' = GiveBack(volume, swept.b)
  /\ inventory' = EmptyInventory
  /\ pc' = "link"
  /\ UNCHANGED <<volume, scan, tree, journal, usn, memo, answer, asks, throws>>

SkipSweep ==
  /\ pc = "sweep" /\ ~(Accounts(volume) /\ scan.complete)
  /\ bitmap' = GiveBack(volume, bitmap)
  /\ inventory' = EmptyInventory
  /\ pc' = "link"
  /\ UNCHANGED <<volume, scan, accounts, tree, journal, usn, memo, answer, asks, throws>>

LinkTree ==
  /\ pc = "link"
  /\ tree' = Link(NewTree(scan.entries))
  /\ pc' = IF volume.recover /\ scan.complete /\ volume.journalFound THEN "journal" ELSE "ready"
  /\ UNCHANGED <<volume, scan, bitmap, inventory, accounts, journal, usn, memo, answer, asks,
                 throws>>

(* The journal: the next chunk, and once it is read, what it says.         *)
ReadJournal ==
  /\ pc = "journal" /\ journal.range < Len(volume.ranges)
  /\ \E range \in {volume.ranges[journal.range + 1]} :
       journal' = StepRange(volume, journal, range, Chunk(volume, range, journal.done))
  /\ UNCHANGED <<volume, pc, scan, bitmap, inventory, accounts, tree, usn, memo, answer, asks,
                 throws>>

UseJournal ==
  /\ pc = "journal" /\ journal.range = Len(volume.ranges)
  /\ usn' = IF Unusable(journal) THEN None
            ELSE ApplyJournal(tree, journal.ring.kept, volume.includeDeleted)
  /\ pc' = "ready"
  /\ UNCHANGED <<volume, scan, bitmap, inventory, accounts, tree, journal, memo, answer, asks,
                 throws>>

-----------------------------------------------------------------------------
(* What is asked of a tree that is ready.                                  *)
Asked(kind, record, k, found) ==
  [kind |-> kind, record |-> record, k |-> k, found |-> found]

Asking == pc = "ready" /\ asks < volume.asks

AskPath(record, k) ==
  /\ Asking
  /\ \E asked \in {GetPath(tree, memo, record, k, volume.budget)} :
       memo' = asked.memo /\ answer' = Asked("path", record, k, asked.found)
  /\ asks' = asks + 1
  /\ UNCHANGED <<volume, pc, scan, bitmap, inventory, accounts, tree, journal, usn, throws>>

AskJournalPath(i) ==
  /\ Asking /\ usn # None
  /\ \E asked \in {GetJournalPath(tree, memo, usn.only[i], volume.budget)} :
       memo' = asked.memo /\ answer' = Asked("journal", i, 0, asked.found)
  /\ asks' = asks + 1
  /\ UNCHANGED <<volume, pc, scan, bitmap, inventory, accounts, tree, journal, usn, throws>>

(* The call for a path throws, for want of memory, somewhere on its way.   *)
AskPathThrows(record) ==
  /\ Asking /\ throws < MaxThrows
  /\ memo' \in PathOfDirectoryThrows(tree, memo, record, volume.budget)
  /\ answer' = NoAnswer
  /\ throws' = throws + 1
  /\ UNCHANGED <<volume, pc, scan, bitmap, inventory, accounts, tree, journal, usn, asks>>

AskSummary ==
  /\ Asking /\ volume.summary
  /\ \E told \in {Summary(volume, GetClusterBitmap(volume, bitmap))} :
       bitmap' = told.b /\ answer' = Asked("summary", 0, 0, told.summary)
  /\ asks' = volume.asks
  /\ UNCHANGED <<volume, pc, scan, inventory, accounts, tree, journal, usn, memo, throws>>

Directories ==
  {r \in {tree.entries[i].record : i \in DOMAIN tree.entries} :
     r # Root /\ Find(tree, r).directory /\ PrimaryAt(tree, r) # 0}

Next ==
  \/ ReadSlot \/ StopScan \/ FinishSlots \/ SweepClusters \/ SkipSweep \/ LinkTree
  \/ ReadJournal \/ UseJournal \/ AskSummary
  \/ \E i \in DOMAIN scan.entries : \E k \in 1 .. Len(scan.entries[i].names) + 1 :
       AskPath(scan.entries[i].record, k)
  \/ \E i \in (IF usn = None THEN {} ELSE DOMAIN usn.only) : AskJournalPath(i)
  \/ \E r \in (IF pc = "ready" THEN Directories ELSE {}) : AskPathThrows(r)

Spec == Init /\ [][Next]_vars
=============================================================================
