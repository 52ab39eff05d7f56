-------------------------- MODULE DirectoryListing --------------------------
(***************************************************************************)
(* A recursive listing with its read ahead: DirectoryReadAhead (io/        *)
(* directory-read-ahead), EntryProber (io/entry-prober), and the caller,   *)
(* the ListTree of the ntfsdir example, which attaches the read ahead to   *)
(* one file record, lists a directory, releases it, tells the read ahead   *)
(* which directories come next and enters the first of them.               *)
(*                                                                         *)
(* The listing is sequential: the choices are all in the volume and in the *)
(* tuning (Init), and every behaviour must print what a listing that reads *)
(* record by record prints.                                                *)
(***************************************************************************)
EXTENDS BatchReader

CONSTANTS Worlds,      (* the volumes and the tunings that are listed *)
          Root         (* the directory that the listing starts at *)

VARIABLES pc,          (* "begin", "walk", "enter" or "done" *)
          s,           (* the read ahead: lane, keeper, store, disk, unreadable *)
          known,       (* what the prober of this walk knows, by record *)
          todo,        (* what the walk of this directory still does *)
          children,    (* the subdirectories it met *)
          pending,     (* the stack of the directories to enter, top last *)
          listed,      (* the directories listed so far *)
          out          (* everything printed and logged, in order *)

vars == <<world, pc, s, known, todo, children, pending, listed, out>>

Line(what, ref)      == [what |-> what, ref |-> ref]
Lines(lines, slot)   == [i \in DOMAIN lines |-> Line(lines[i], slot)]

-----------------------------------------------------------------------------
(* The outcome from the bytes is kept, whatever the check said.            *)
ProbeOutcomeFault(slot, image) == ParseRecord(slot, image)

(* EntryProber.  A probe given the bytes of a record whose check fails is  *)
(* made again from the disk, which judges such a record twice.             *)
ProbeOutcome(slot, image) ==
  LET given == ParseRecord(slot, image)
  IN  IF image # NoImage /\ given.failed THEN ParseRecord(slot, NoImage) ELSE given

ReadsItself(slot, image) == image = NoImage \/ ParseRecord(slot, image).failed

(* p is the state of the prober: s, and known.                             *)
ProbeOne(p, slot, image) ==
  LET parsed == ProbeOutcome(slot, image)
  IN  [s     |-> IF ReadsItself(slot, image)
                 THEN [p.s EXCEPT !.disk = ReadRecordFrom(@, slot)] ELSE p.s,
       known |-> (slot :> [parsed   |-> parsed.ok,
                           deleted  |-> parsed.ok /\ parsed.kind = "freed",
                           sequence |-> IF parsed.ok THEN 1 ELSE 0,
                           lines    |-> Lines(parsed.lines, slot)]) @@ p.known]

(* A run of the chunk is read, kept, probed, and reported to the lane.     *)
Kept(t, run, count, read) ==
  [t EXCEPT !.disk   = ReadSlotsFrom(@, run.first, count),
            !.keeper = IF read /\ Enabled(@)
                       THEN KeepRun(@, run.first, count, Judgeable) ELSE @]

ProbeRun(p, run, toRead) ==
  LET count == run.last - run.first + 1
      read  == ReadMftSlots(run.first, count)
      probed == FoldLeft(LAMBDA q, r : ProbeOne(q, r, IF read THEN Whole(r) ELSE NoImage),
                         [p EXCEPT !.s = Kept(@, run, count, read)],
                         SubSeq(toRead, run.begin, run.end - 1))
  IN  [probed EXCEPT !.s = RunRead(@, run.first, count)]

(* The records that are kept are probed first, then those read alone.      *)
ProbePlan(p, plan) ==
  LET given == FoldLeft(LAMBDA q, r : ProbeOne(q, r, FindForProbe(q.s.keeper, r)),
                        p, plan.served)
      alone == FoldLeft(LAMBDA q, r : ProbeOne(q, r, NoImage), given, plan.alone)
  IN  FoldLeft(LAMBDA q, run : ProbeRun(q, run, plan.toRead), alone, plan.runs)

ProbeChunk(p, chunk) ==
  LET keeps == Enabled(p.s.keeper)
      held  == {r \in ToSet(chunk) : keeps /\ FindForProbe(p.s.keeper, r) # NoImage}
  IN  ProbePlan(p, PlanProbeRuns(chunk, ProbeRules(keeps), held))

ProbeGroup(p, refs) ==
  LET start == IF Cardinality(DOMAIN p.known) >= world.probe.maxKnown
               THEN [p EXCEPT !.known = Empty] ELSE p
      fresh == ToSet(refs) \ DOMAIN start.known
  IN  FoldLeft(ProbeChunk, start, RoundsOf(SetToSortSeq(fresh, <), world.probe.chunk))

(* An entry takes the outcome of the probe, probed again if forgotten.     *)
Taken(p, ref) == IF ref \in DOMAIN p.known THEN p ELSE ProbeChunk(p, <<ref>>)

-----------------------------------------------------------------------------
(* The record that the listing parses: held for it, else in the window.    *)
HeldRecordBytes(t, dir) ==
  IF ServeRecord(t.store, dir) # NoImage THEN ServeRecord(t.store, dir)
  ELSE FindInWindow(t.keeper, dir)

(* A source replaces the read of the disk, and nothing else of the parse.  *)
ParseListing(t, dir) ==
  LET image  == IF dir < FirstUser THEN NoImage ELSE HeldRecordBytes(t, dir)
      parsed == ParseRecord(IF image = NoImage THEN dir ELSE image.slot, NoImage)
  IN  [ok    |-> parsed.ok,
       read  |-> parsed.read,
       whole |-> image = NoImage \/ image.whole,
       lines |-> Lines(parsed.lines, dir),
       s     |-> IF image = NoImage THEN [t EXCEPT !.disk = ReadRecordFrom(@, dir)] ELSE t]

(* DirectoryReadAhead.                                                     *)
Release(t, dir) ==
  LET u == ReleasePlan(t, dir)
  IN  [u EXCEPT !.store = ReleaseHeld(@, dir, BlockSize)]

AheadEnabled == world.aheadDirs # 0

Plan(t, upcoming) ==
  IF AheadEnabled THEN Reorder(ReadUpcoming(t, upcoming), upcoming) ELSE t

Begin(t, dir) ==
  IF ~AheadEnabled THEN t
  ELSE LET u    == Attach(t, dir)
           vcns == RootChildBlocks(dir)
           read == IF vcns = <<>> THEN u ELSE ReadBlocks(u, <<[dir |-> dir, vcns |-> vcns]>>)
       IN  Refill(PlanRunsOf(read, dir))

NewReadAhead ==
  [lane |-> NewLane, store |-> EmptyStore, disk |-> NewDisk, unreadable |-> {},
   keeper |-> [window |-> EmptyWindow(IF Cached THEN 0 ELSE world.windowBytes),
               memo   |-> EmptyMemo(IF Cached THEN 0 ELSE world.memoEntries)]]

-----------------------------------------------------------------------------
(* The caller.  The root is parsed before the listing starts.              *)
Init ==
  /\ world \in Worlds
  /\ pc = "begin" /\ s = NewReadAhead
  /\ known = Empty /\ todo = <<>> /\ children = <<>>
  /\ pending = <<>> /\ listed = {Root}
  /\ out = <<Line("directory", Root)>>

(* Attach() and Begin(), and the walk of the root starts.                  *)
BeginListing ==
  /\ pc = "begin" /\ pc' = "walk"
  /\ s' = Begin(s, Root)
  /\ todo' = Walk(s'.store, Root)
  /\ UNCHANGED <<world, known, children, pending, listed, out>>

(* The records that a node names are probed together.                      *)
ProbeNextNode ==
  /\ pc = "walk" /\ todo # <<>> /\ Head(todo).what = "probe"
  /\ \E p \in {ProbeGroup([s |-> s, known |-> known], Head(todo).refs)} :
       s' = p.s /\ known' = p.known
  /\ todo' = Tail(todo)
  /\ UNCHANGED <<world, pc, children, pending, listed, out>>

(* A block that does not parse is logged where the walk meets it.          *)
NoteNextBlock ==
  /\ pc = "walk" /\ todo # <<>> /\ Head(todo).what = "block fails"
  /\ out' = Append(out, Line("block fails", Head(todo).vcn))
  /\ todo' = Tail(todo)
  /\ UNCHANGED <<world, pc, s, known, children, pending, listed>>

IsDirectory(ref) == ref \in DOMAIN world.index

Printed(named, entry) ==
  named.lines
    \o (IF named.parsed THEN <<>> ELSE <<Line("does not parse", entry.ref)>>)
    \o (IF IsHiddenGiven(named, entry) THEN <<>>
        ELSE <<Line(StandingOf(named, entry), entry.ref)>>)

Entered(named, entry) ==
  ~IsHiddenGiven(named, entry) /\ IsDirectory(entry.ref) /\ StandingOf(named, entry) # "Reused"

(* An entry is printed, and a subdirectory that is still its own is kept.  *)
DeliverNextEntry ==
  /\ pc = "walk" /\ todo # <<>> /\ Head(todo).what = "deliver"
  /\ LET entry == Head(todo).entry
     IN  \E p \in {Taken([s |-> s, known |-> known], entry.ref)} :
           LET named == p.known[entry.ref]
           IN  /\ s' = p.s /\ known' = p.known
               /\ out' = out \o Printed(named, entry)
               /\ children' = IF Entered(named, entry)
                              THEN Append(children, entry.ref) ELSE children
  /\ todo' = Tail(todo)
  /\ UNCHANGED <<world, pc, pending, listed>>

(* The next directories of the stack, without those listed already.        *)
UpcomingDirectories(stack) ==
  LET waiting == SelectSeq(Reverse(stack), LAMBDA d : d \notin listed)
  IN  SubSeq(waiting, 1, Min({Len(waiting), world.aheadDirs}))

(* The listing releases the directory and plans the next ones.             *)
EndDirectory ==
  /\ pc = "walk" /\ todo = <<>> /\ pc' = "enter"
  /\ pending' = pending \o Reverse(children)
  /\ s' = Plan(IF s.lane.listing = None THEN s ELSE Release(s, s.lane.listing),
               UpcomingDirectories(pending'))
  /\ known' = Empty /\ children' = <<>>
  /\ UNCHANGED <<world, todo, listed, out>>

(* The next directory is entered, or released and reported when it was     *)
(* listed before or does not parse.  The record that the lane follows now  *)
(* names the one that was read.                                            *)
EnterNextDirectory ==
  /\ pc = "enter" /\ pending # <<>>
  /\ LET dir    == Last(pending)
         parsed == ParseListing(s, dir)
         at     == IF parsed.read THEN dir ELSE None
         moved  == IF AheadEnabled THEN [parsed.s EXCEPT !.lane.listing = at] ELSE parsed.s
     IN  \/ /\ dir \in listed
            /\ s' = Release(s, dir)
            /\ out' = Append(out, Line("already listed", dir))
            /\ UNCHANGED <<pc, listed, todo>>
         \/ /\ dir \notin listed /\ parsed.ok
            /\ s' = moved /\ pc' = "walk" /\ listed' = listed \cup {dir}
            /\ todo' = IF parsed.whole THEN Walk(moved.store, dir) ELSE <<>>
            /\ out' = out \o parsed.lines \o <<Line("directory", dir)>>
         \/ /\ dir \notin listed /\ ~parsed.ok
            /\ s' = Release(moved, dir)
            /\ out' = out \o parsed.lines \o <<Line("cannot read directory", dir)>>
            /\ UNCHANGED <<pc, listed, todo>>
  /\ pending' = Front(pending)
  /\ UNCHANGED <<world, known, children>>

(* Nothing waits any more: the read ahead is destroyed.                    *)
EndListing ==
  /\ pc = "enter" /\ pending = <<>> /\ pc' = "done"
  /\ s' = Detach(s)
  /\ UNCHANGED <<world, known, todo, children, pending, listed, out>>

(* The program is over; every other state without a step is a deadlock.    *)
Finished == pc = "done" /\ UNCHANGED vars

Next ==
  \/ BeginListing \/ ProbeNextNode \/ NoteNextBlock \/ DeliverNextEntry
  \/ EndDirectory \/ EnterNextDirectory \/ EndListing \/ Finished

Spec == Init /\ [][Next]_vars
-----------------------------------------------------------------------------
(* A listing that probes and parses record by record, without read ahead.  *)
PlainNamed(ref) ==
  LET parsed == ParseRecord(ref, NoImage)
  IN  [parsed |-> parsed.ok, deleted |-> parsed.ok /\ parsed.kind = "freed",
       sequence |-> IF parsed.ok THEN 1 ELSE 0, lines |-> Lines(parsed.lines, ref)]

PlainDirectory(dir) ==
  FoldLeft(LAMBDA acc, event :
             CASE event.what = "probe" -> acc
               [] event.what = "block fails" ->
                    [acc EXCEPT !.out = Append(@, Line("block fails", event.vcn))]
               [] OTHER ->
                    LET named == PlainNamed(event.entry.ref)
                    IN  [out  |-> acc.out \o Printed(named, event.entry),
                         dirs |-> IF Entered(named, event.entry)
                                  THEN Append(acc.dirs, event.entry.ref) ELSE acc.dirs],
           [out |-> <<>>, dirs |-> <<>>], Walk(EmptyStore, dir))

RECURSIVE PlainFrom(_, _, _)
PlainFrom(stack, met, printed) ==
  IF stack = <<>> THEN printed
  ELSE LET dir    == Last(stack)
           parsed == ParseRecord(dir, NoImage)
           body   == PlainDirectory(dir)
       IN  IF dir \in met
           THEN PlainFrom(Front(stack), met, Append(printed, Line("already listed", dir)))
           ELSE IF ~parsed.ok
           THEN PlainFrom(Front(stack), met,
                          printed \o Lines(parsed.lines, dir)
                            \o <<Line("cannot read directory", dir)>>)
           ELSE PlainFrom(Front(stack) \o Reverse(body.dirs), met \cup {dir},
                          printed \o Lines(parsed.lines, dir)
                            \o <<Line("directory", dir)>> \o body.out)

PlainListing ==
  LET body == PlainDirectory(Root)
  IN  PlainFrom(Reverse(body.dirs), {Root}, <<Line("directory", Root)>> \o body.out)

(* The read ahead is only a hint: whatever it holds, keeps, clears and     *)
(* plans, the listing prints the lines of a listing without it, the log of *)
(* every damaged record at its entry and as often included.                *)
SameListing == pc = "done" => out = PlainListing

(* The reader's standing lane and the lane's own account agree: a run is   *)
(* on the list exactly when it is announced, no two of them could be taken *)
(* for overlapping ranges, so that no withdrawal takes another's range,    *)
(* and every range that the reader still holds is of a run on the list:    *)
(* nothing that was read, released or forgotten stays behind.              *)
LaneAgrees ==
  LET ids   == ToSet(s.lane.announced)
      Units(id) == UnitsOf(RunOf(s.lane, id).first, RunOf(s.lane, id).count)
      all   == UNION {{<<d, k>> : k \in DOMAIN s.lane.plans[d].runs} : d \in DOMAIN s.lane.plans}
  IN  /\ ids = {id \in all : StateOf(s.lane, id) = "Announced"}
      /\ \A i, j \in ids : i # j => Units(i) \cap Units(j) = {}
      /\ \A r \in s.disk.standing : \E i \in ids : r \subseteq Units(i)

(* The zone as a fresh walk of the plans gives it (VerifyZone).            *)
FreshZone ==
  LET lane  == s.lane
      dirs  == SelectSeq(<<lane.current>> \o SelectSeq(lane.order, LAMBDA d : d # lane.current),
                         LAMBDA d : d \in DOMAIN lane.plans)
      Undone(d) == SelectSeq([k \in DOMAIN lane.plans[d].runs |-> <<d, k>>],
                             LAMBDA id : /\ id[2] >= lane.plans[d].cursor
                                         /\ StateOf(lane, id) # "Done")
  IN  FlattenSeq([i \in DOMAIN dirs |-> Undone(dirs[i])])

(* While the zone is kept from one refill to the next it is what a fresh   *)
(* walk of the plans gives, as long as it may be and without a run that    *)
(* the probes passed, every run on the lane is in it, and a run of its     *)
(* first half only waits for one on the lane that it overlaps.             *)
ZoneIsFresh ==
  LET zone == SelectSeq(s.lane.zone, LAMBDA id : StateOf(s.lane, id) # "Done")
      half == SubSeq(s.lane.zone, 1, Min({Len(s.lane.zone), world.laneRuns}))
  IN  /\ s.lane.clean =>
           /\ IsPrefix(zone, FreshZone)
           /\ ToSet(s.lane.announced) \subseteq ToSet(zone)
           /\ Len(s.lane.zone) < 2 * world.laneRuns => zone = FreshZone
           /\ \A id \in ToSet(s.lane.zone) : id[2] >= s.lane.plans[id[1]].cursor
           /\ \A id \in ToSet(half) :
                StateOf(s.lane, id) = "Waiting" =>
                  \E other \in ToSet(s.lane.announced) :
                    Overlaps(RunOf(s.lane, other), RunOf(s.lane, id))
      /\ ~s.lane.clean => s.lane.zone = <<>> /\ s.lane.chain = <<>>

(* When the listing ends nothing is held, planned or announced any more:   *)
(* each directory read ahead was released, listed or not.                  *)
EverythingReleased ==
  pc = "done" =>
    /\ s.store = EmptyStore
    /\ s.lane.plans = Empty /\ s.lane.announced = <<>> /\ s.disk.standing = {}

(* What is held is counted exactly and fits the budgets: the held records  *)
(* and blocks, the planned runs and the window, and no directory is past   *)
(* its share but by its record and its first level.  At the end of the     *)
(* listing all of it is given back.                                        *)
WithinBudget ==
  LET Held(d)  == BytesOf(s.store, d, BlockSize)
      First(d) == 1 + BlockSize * Len(RootChildBlocks(d))
      win      == s.keeper.window
  IN  /\ s.store.bytes = MapThenSumSet(Held, DOMAIN s.store.held)
      /\ s.store.bytes <= world.aheadBytes
      /\ \A d \in DOMAIN s.store.held :
           Held(d) <= Max({First(d), world.aheadBytes \div world.share})
      /\ s.lane.planned = MapThenSumSet(LAMBDA d : Len(s.lane.plans[d].runs),
                                        DOMAIN s.lane.plans)
      /\ s.lane.planned <= world.maxPlanned
      /\ win.held = FoldLeft(LAMBDA n, run : n + Len(run.bytes), 0, win.runs)
      /\ win.held <= win.budget
      /\ EverythingReleased

(* The window finds every record of the runs it holds and no other, the    *)
(* copy of that very record, and the memo only rebuilds the record that    *)
(* its place is marked with.                                               *)
KeeperAgrees ==
  LET win   == s.keeper.window
      slots == UNION {win.runs[i].first .. win.runs[i].first + Len(win.runs[i].bytes) - 1 :
                        i \in DOMAIN win.runs}
  IN  /\ DOMAIN win.places = slots
      /\ \A slot \in slots : WindowFind(win, slot) = Whole(slot)
      /\ \A slot \in 0 .. world.end :
           MemoFind(s.keeper.memo, slot) \in
             {NoImage} \cup (IF slot \in Judgeable THEN {Rebuilt(slot)} ELSE {})
=============================================================================
