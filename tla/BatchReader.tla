----------------------------- MODULE BatchReader -----------------------------
(***************************************************************************)
(* The batches of a recursive listing (io/batch-reader): the records of    *)
(* the directories to come in sorted runs, then the blocks of their        *)
(* indexes level by level, held until the listing is past them.  The state *)
(* s is that of ProbeLane, with s.unreadable: the records that a batch     *)
(* could not read.                                                         *)
(***************************************************************************)
EXTENDS ProbeLane

CONSTANT BlockSize     (* an index block, counted in file records *)

-----------------------------------------------------------------------------
(* What is worth reading of the directories to come: those not held.  With *)
(* half of the window held only the very next one is, and the budget must  *)
(* have room for the records.                                              *)
Wanted(s, upcoming) ==
  LET top    == SubSeq(upcoming, 1, Min({Len(upcoming), world.aheadDirs}))
      fresh  == FoldLeft(LAMBDA seq, d :
                           IF /\ ~Contained(s.store, d) /\ d >= FirstUser
                              /\ d \notin s.unreadable /\ d \notin ToSet(seq)
                           THEN Append(seq, d) ELSE seq,
                         <<>>, top)
      held   == Quantify(DOMAIN top, LAMBDA i : Contained(s.store, top[i]))
      full   == held >= (world.aheadDirs + 1) \div 2
      room   == Max({0, world.aheadBytes - s.store.bytes})
      chosen == IF fresh = <<>> \/ ~full THEN fresh
                ELSE IF fresh[1] = upcoming[1] THEN <<fresh[1]>> ELSE <<>>
  IN  SubSeq(chosen, 1, Min({Len(chosen), room}))

NoteUnreadable(unreadable, record) ==
  (IF Cardinality(unreadable) >= world.maxUnreadable THEN {} ELSE unreadable) \cup {record}

(* A run of a batch is read, kept, and held for the records that want it.  *)
ReadRun(s, run, missing) ==
  LET count == run.last - run.first + 1
      read  == ReadMftSlots(run.first, count)
      t     == [s EXCEPT !.disk = ReadSlotsFrom(@, run.first, count)]
      wants == SubSeq(missing, run.begin, run.end - 1)
  IN  IF ~read
      THEN [t EXCEPT !.unreadable = FoldLeft(NoteUnreadable, @, wants)]
      ELSE [t EXCEPT !.keeper = KeepRun(@, run.first, count, Judgeable),
                     !.store  = FoldLeft(LAMBDA st, r : HoldRecord(st, r, Whole(r)), @, wants)]

ReadMissing(s, missing) ==
  LET planned == PlanMftRuns(missing, ProbeRules(FALSE))
      runs    == IF WindowEnabled(s.keeper)
                 THEN WidenToClusters(planned, world.perCluster, FirstUser) ELSE planned
  IN  FoldLeft(LAMBDA t, run : ReadRun(t, run, missing), s, runs)

(* A record that a probe read lately is held from the window.              *)
FetchRecords(s, wanted) ==
  LET Round(t, chunk) ==
        LET has == {r \in ToSet(chunk) : FindInWindow(t.keeper, r) # NoImage}
        IN  ReadMissing([t EXCEPT !.store = FoldLeft(
                           LAMBDA st, r : HoldRecord(st, r, FindInWindow(t.keeper, r)),
                           @, SelectSeq(chunk, LAMBDA r : r \in has))],
                        SelectSeq(chunk, LAMBDA r : r \notin has))
  IN  FoldLeft(Round, s, RoundsOf(SetToSortSeq(ToSet(wanted), <), world.probe.chunk))

-----------------------------------------------------------------------------
(* The blocks of a level: those of a directory all or none, in the order   *)
(* of the disk; below the first level a directory is cut to its share.     *)
WantsOf(s, dir, vcns) ==
  SelectSeq(vcns, LAMBDA v : /\ ~ContainsBlock(s.store, dir, v)
                             /\ v \in DOMAIN IndexOf(dir).blocks
                             /\ BlockOnDisk(dir, v).state # "sparse")

FitToShare(s, dir, vcns, planned) ==
  LET share == Max({0, (world.aheadBytes \div world.share) - BytesOf(s.store, dir, BlockSize)})
      total == Max({0, world.aheadBytes - (s.store.bytes + planned)})
  IN  SubSeq(vcns, 1, Min({Len(vcns), Min({share, total}) \div BlockSize}))

(* wants: <<directory, vcn>>; full: the first that does not fit stops.     *)
LevelWants(s, level, below) ==
  LET Add(acc, cand) ==
        LET wants == WantsOf(s, cand.dir, cand.vcns)
            own   == IF below THEN FitToShare(s, cand.dir, wants, acc.planned) ELSE wants
            cost  == BlockSize * Len(own)
        IN  IF acc.full \/ cost > world.aheadBytes THEN acc
            ELSE IF s.store.bytes + acc.planned + cost > world.aheadBytes
                 THEN [acc EXCEPT !.full = TRUE]
                 ELSE [acc EXCEPT !.planned = @ + cost,
                                  !.wants = @ \o [i \in DOMAIN own |-> <<cand.dir, own[i]>>]]
  IN  FoldLeft(Add, [wants |-> <<>>, planned |-> 0, full |-> FALSE], level).wants

(* The blocks of directory d follow each other on the disk from d on.      *)
DiskOrder(wants) ==
  SetToSortSeq(ToSet(wants),
               LAMBDA a, b : a[1] < b[1] \/ (a[1] = b[1] /\ a[2] < b[2]))

HoldWants(s, wants) ==
  FoldLeft(LAMBDA acc, want :
             LET block == BlockOnDisk(want[1], want[2])
             IN  IF block.state = "bad" THEN acc
                 ELSE [s    |-> [acc.s EXCEPT !.store =
                                   HoldBlock(@, want[1], want[2], block, BlockSize)],
                       read |-> Append(acc.read, want)],
           [s |-> s, read |-> <<>>], wants)

(* The sub-nodes of the blocks just read, each once for its directory.     *)
ChildrenOf(read) ==
  LET dirs == FoldLeft(LAMBDA seq, want :
                         IF want[1] \in ToSet(seq) THEN seq ELSE Append(seq, want[1]),
                       <<>>, read)
      Subs(dir) ==
        FoldLeft(LAMBDA seq, e : IF IsSubNodePtr(e) /\ e.sub \notin ToSet(seq)
                                 THEN Append(seq, e.sub) ELSE seq,
                 <<>>,
                 FlattenSeq([i \in DOMAIN read |->
                   IF read[i][1] = dir /\ BlockOnDisk(dir, read[i][2]).state = "ok"
                   THEN BlockOnDisk(dir, read[i][2]).entries ELSE <<>>]))
  IN  SelectSeq([i \in DOMAIN dirs |-> [dir |-> dirs[i], vcns |-> Subs(dirs[i])]],
                LAMBDA cand : cand.vcns # <<>>)

RECURSIVE ReadLevels(_, _, _)
ReadLevels(done, level, depth) ==
  IF level = <<>> \/ depth >= MaxDepth THEN done.s
  ELSE LET read == HoldWants(done.s, DiskOrder(LevelWants(done.s, level, depth # 0)))
       IN  ReadLevels(read, ChildrenOf(read.read), depth + 1)

ReadBlocks(s, level) == ReadLevels([s |-> s, read |-> <<>>], level, 0)

-----------------------------------------------------------------------------
(* The directories fetched whose record tells where their blocks are: it   *)
(* passes every check and needs no other read of the disk.                 *)
Parses(s, dir) ==
  LET parsed == ParseRecord(dir, ServeRecord(s.store, dir))
  IN  parsed.ok /\ ~parsed.failed /\ parsed.kind # "spread"

FindCandidates(s, wanted) ==
  LET parsed == SelectSeq(wanted, LAMBDA d : HasRecord(s.store, d) /\ Parses(s, d))
  IN  [i \in DOMAIN parsed |-> [dir |-> parsed[i], vcns |-> RootChildBlocks(parsed[i])]]

(* A directory whose index is in its record is planned before the blocks   *)
(* of the others are read, and those are planned after.                    *)
PlanCandidates(s, candidates) ==
  LET Planned(t, cand) == PlanRunsOf(t, cand.dir)
      withBlocks == SelectSeq(candidates, LAMBDA c : c.vcns # <<>>)
      early == FoldLeft(Planned, s, SelectSeq(candidates, LAMBDA c : c.vcns = <<>>))
  IN  FoldLeft(Planned, ReadBlocks(early, withBlocks), withBlocks)

ReadCandidates(s, wanted) == PlanCandidates(s, FindCandidates(s, wanted))

ReadRecordsAhead(s, wanted) == ReadCandidates(FetchRecords(s, wanted), wanted)

(* Nothing wanted is nothing read.                                         *)
ReadUpcoming(s, upcoming) == ReadRecordsAhead(s, Wanted(s, upcoming))
=============================================================================
