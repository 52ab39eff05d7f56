------------------------------ MODULE ProbeLane ------------------------------
(***************************************************************************)
(* The standing lane of a recursive listing (io/probe-lane and             *)
(* io/run-planner): the probe runs of the directories to come are planned  *)
(* from their held indexes, and the first of them are kept announced on    *)
(* the reader's standing lane.  Every operator takes the state s of the    *)
(* read ahead and gives the next one:                                      *)
(*   s.lane    the plans and the zone, below;                              *)
(*   s.keeper, s.store, s.disk   see RecordKeeper and VolumeImage.         *)
(* A run is named by its directory and its index in the plan of it.        *)
(***************************************************************************)
EXTENDS DirectoryIndex

NewLane ==
  [plans |-> Empty, planned |-> 0, order |-> <<>>, announced |-> <<>>,
   zone |-> <<>>, chain |-> <<>>, chainPlan |-> 1, chainRun |-> 1,
   clean |-> FALSE, current |-> None, stamp |-> 0, listing |-> None]

(* Whether the lane is in use: a number of runs and a budget.              *)
On == world.laneRuns # 0 /\ world.aheadBytes # 0

RunOf(lane, id)     == lane.plans[id[1]].runs[id[2]]
StateOf(lane, id)   == RunOf(lane, id).state
SetState(lane, id, state) == [lane EXCEPT !.plans[id[1]].runs[id[2]].state = state]

ProbeRules(keeps) ==
  ProbeRunRulesOf(world.probe,
                  [rotational |-> world.rotational, cached |-> Cached, mapped |-> TRUE,
                   perCluster |-> world.perCluster, firstMapped |-> FirstUser], keeps)

-----------------------------------------------------------------------------
(* RunPlanner: the runs that the probes of the groups will read, if every  *)
(* run planned before is kept and nothing else is.                         *)
PlannedRuns(plan) ==
  [i \in DOMAIN plan.runs |->
     LET run == plan.runs[i]
     IN  [first |-> run.first, count |-> run.last - run.first + 1,
          wanted |-> {plan.toRead[k] : k \in run.begin .. run.end - 1},
          state |-> "Waiting", stamp |-> 0]]

PlanOf(s, groups) ==
  LET keeps == Enabled(s.keeper)
      Chunk(acc, chunk) ==
        LET held == IF ~keeps THEN {}
                    ELSE acc.covered \cup {r \in ToSet(chunk) :
                                             FindForProbe(s.keeper, r) # NoImage}
            plan == PlanProbeRuns(chunk, ProbeRules(keeps), held)
        IN  [acc EXCEPT !.runs    = @ \o PlannedRuns(plan),
                        !.covered = @ \cup UNION {plan.runs[i].first .. plan.runs[i].last :
                                                    i \in DOMAIN plan.runs}]
      Group(acc, group) ==
        LET known == IF Cardinality(acc.known) >= world.probe.maxKnown THEN {} ELSE acc.known
            fresh == ToSet(group) \ known
        IN  FoldLeft(Chunk, [acc EXCEPT !.known = known \cup fresh],
                     RoundsOf(SetToSortSeq(fresh, <), world.probe.chunk))
  IN  FoldLeft(Group, [runs |-> <<>>, known |-> {}, covered |-> {}], groups).runs

-----------------------------------------------------------------------------
(* The mutations of the plans and of the order: each forgets the zone.     *)
ForgetZone(lane) == [lane EXCEPT !.clean = FALSE, !.zone = <<>>, !.chain = <<>>]

Attach(s, dir) == [s EXCEPT !.lane = ForgetZone([@ EXCEPT !.listing = dir])]

AddPlan(lane, dir, runs) ==
  IF runs = <<>> \/ lane.planned + Len(runs) > world.maxPlanned THEN lane
  ELSE ForgetZone([lane EXCEPT !.plans = (dir :> [runs |-> runs, cursor |-> 1]) @@ @,
                               !.planned = @ + Len(runs)])

PlanRunsOf(s, dir) ==
  IF ~On \/ dir \in DOMAIN s.lane.plans THEN s
  ELSE [s EXCEPT !.lane = AddPlan(@, dir, PlanOf(s, HeldProbeGroups(s.store, dir)))]

-----------------------------------------------------------------------------
(* The hints to the reader.                                                *)
AnnounceHint(s, run) ==
  [s EXCEPT !.disk.standing = @ \cup AnnounceRuns(s.disk, run.first, run.count)]
WithdrawHint(s, run) ==
  [s EXCEPT !.disk = CancelStanding(s.disk, run.first, run.count)]

ForgetUnannounced(lane) ==
  [lane EXCEPT !.announced = SelectSeq(@, LAMBDA id : StateOf(lane, id) = "Announced")]

(* What two runs of a cached volume must be apart: a block.                *)
OverlapSlots == world.block

(* The blocks that the ranges are widened to are forgotten.                *)
OverlapsFault(left, right) ==
  /\ left.first < right.first + right.count
  /\ right.first < left.first + left.count

Overlaps(left, right) ==
  /\ left.first < right.first + right.count + OverlapSlots
  /\ right.first < left.first + left.count + OverlapSlots

(* The window or the memo holds every record that the run reads for.       *)
HoldsRun(s, run) ==
  /\ Enabled(s.keeper)
  /\ \A r \in run.wanted : FindForProbe(s.keeper, r) # NoImage

-----------------------------------------------------------------------------
(* The zone: the first 2 * laneRuns runs that are not done, of the listed  *)
(* directory and then of the order.  It is topped up where it stopped.     *)
RECURSIVE TopUpZone(_)
TopUpZone(lane) ==
  IF Len(lane.zone) >= 2 * world.laneRuns \/ lane.chainPlan > Len(lane.chain) THEN lane
  ELSE LET dir  == lane.chain[lane.chainPlan]
           plan == lane.plans[dir]
           at   == Max({lane.chainRun, plan.cursor})
           next == [lane EXCEPT !.chainRun = at + 1]
       IN  IF at > Len(plan.runs)
           THEN TopUpZone([lane EXCEPT !.chainPlan = @ + 1, !.chainRun = 1])
           ELSE IF plan.runs[at].state = "Done" THEN TopUpZone(next)
           ELSE TopUpZone([next EXCEPT !.zone = Append(@, <<dir, at>>),
                                       !.plans[dir].runs[at].stamp = lane.stamp])

RebuildZone(lane, current) ==
  LET Planned(dirs) == SelectSeq(dirs, LAMBDA d : d \in DOMAIN lane.plans)
  IN  TopUpZone([ForgetZone(lane) EXCEPT
        !.stamp = @ + 1, !.chainPlan = 1, !.chainRun = 1,
        !.chain = Planned(<<current>>)
                    \o Planned(SelectSeq(lane.order, LAMBDA d : d # current)),
        !.current = current, !.clean = TRUE])

(* The done runs are kept, and hold places of the zone.                    *)
TrimZoneFault(lane) == TopUpZone(lane)

(* Without a rebuild the zone loses the runs that are done, and no other.  *)
TrimZone(lane) ==
  TopUpZone([lane EXCEPT !.zone = SelectSeq(@, LAMBDA id : StateOf(lane, id) # "Done")])

WithdrawLeftOut(s) ==
  LET Left(id) == RunOf(s.lane, id).stamp # s.lane.stamp
      out == FoldLeft(LAMBDA t, id :
                        IF ~Left(id) THEN t
                        ELSE [WithdrawHint(t, RunOf(t.lane, id)) EXCEPT
                                !.lane = SetState(@, id, "Waiting")],
                      s, s.lane.announced)
  IN  [out EXCEPT !.lane = ForgetUnannounced(@)]

(* The first laneRuns runs of the zone that wait are announced, but those  *)
(* whose records are kept by now and those that overlap one on the lane.   *)
AnnounceZone(s) ==
  LET One(t, id) ==
        LET run == RunOf(t.lane, id)
        IN  IF run.state # "Waiting" THEN t
            ELSE IF HoldsRun(t, run) THEN [t EXCEPT !.lane = SetState(@, id, "Done")]
            ELSE IF \E i \in DOMAIN t.lane.announced :
                      Overlaps(RunOf(t.lane, t.lane.announced[i]), run)
            THEN t
            ELSE [AnnounceHint(t, run) EXCEPT
                    !.lane = [SetState(@, id, "Announced") EXCEPT
                                !.announced = Append(@, id)]]
  IN  FoldLeft(One, s, SubSeq(s.lane.zone, 1, Min({Len(s.lane.zone), world.laneRuns})))

Refill(s) ==
  LET rebuilt == ~s.lane.clean \/ s.lane.listing # s.lane.current
  IN  IF ~On \/ s.lane.plans = Empty THEN s
      ELSE AnnounceZone(
             IF rebuilt THEN WithdrawLeftOut([s EXCEPT !.lane = RebuildZone(@, @.listing)])
             ELSE [s EXCEPT !.lane = TrimZone(@)])

-----------------------------------------------------------------------------
(* The stack of the listing changed.                                       *)
Reorder(s, upcoming) ==
  LET top  == SubSeq(upcoming, 1, Min({Len(upcoming), world.aheadDirs}))
      kept == SelectSeq(s.lane.order, LAMBDA d : d \in DOMAIN s.lane.plans /\ d \notin ToSet(top))
  IN  Refill([s EXCEPT !.lane = ForgetZone([@ EXCEPT !.order = top \o kept])])

(* The probes read the run first, count of the listed directory: the runs  *)
(* of the plan before it were not needed, and it is done.                  *)
FindReadRun(plan, first, count) ==
  SelectInSubSeq(plan.runs, plan.cursor,
                 Min({Len(plan.runs), plan.cursor + world.lookahead - 1}),
                 LAMBDA r : r.state # "Done" /\ r.first <= first
                              /\ first + count <= r.first + r.count)

(* Whether the read used the announced range of the run up.                *)
TookWhole(run, read, first, count) ==
  ~Cached /\ read /\ run.first = first /\ run.count = count

RetireRun(s, id, read, first, count) ==
  LET run  == RunOf(s.lane, id)
      left == run.state = "Announced" /\ ~TookWhole(run, read, first, count)
      t    == IF left THEN WithdrawHint(s, run) ELSE s
  IN  [t EXCEPT !.lane = SetState(@, id, "Done")]

(* The cursor of a plan moves on to the next run that is not done.         *)
MovedOn(plan, at) ==
  LET ahead == {k \in at + 1 .. Len(plan.runs) : plan.runs[k].state # "Done"}
  IN  [plan EXCEPT !.cursor = IF ahead = {} THEN Len(plan.runs) + 1 ELSE Min(ahead)]

MarkRead(s, dir, at, first, count) ==
  LET cursor == s.lane.plans[dir].cursor
      marked == FoldLeft(LAMBDA t, k : RetireRun(t, <<dir, k>>, k = at, first, count),
                         s, [k \in 1 .. at - cursor + 1 |-> cursor + k - 1])
  IN  [marked EXCEPT !.lane = [ForgetUnannounced(@) EXCEPT !.plans[dir] = MovedOn(@, at)]]

RunReadAt(s, dir, at, first, count) ==
  IF at = 0 THEN s ELSE Refill(MarkRead(s, dir, at, first, count))

RunRead(s, first, count) ==
  LET dir == s.lane.listing
  IN  IF ~On \/ dir \notin DOMAIN s.lane.plans THEN s
      ELSE RunReadAt(s, dir, FindReadRun(s.lane.plans[dir], first, count), first, count)

(* The directory is listed: its runs are withdrawn and its plan forgotten. *)
WithdrawPlan(s, dir) ==
  LET marked == FoldLeftDomain(
        LAMBDA t, k : LET run == t.lane.plans[dir].runs[k]
                          u   == IF run.state = "Announced" THEN WithdrawHint(t, run) ELSE t
                      IN  [u EXCEPT !.lane = SetState(@, <<dir, k>>, "Done")],
        s, s.lane.plans[dir].runs)
  IN  [marked EXCEPT !.lane = ForgetUnannounced(@)]

ReleasePlan(s, dir) ==
  IF dir \notin DOMAIN s.lane.plans THEN s
  ELSE [WithdrawPlan(s, dir) EXCEPT !.lane = ForgetZone([@ EXCEPT
          !.planned = @ - Len(s.lane.plans[dir].runs),
          !.plans   = Restrict(@, DOMAIN @ \ {dir})])]

Detach(s) ==
  LET t == FoldLeft(LAMBDA u, id : WithdrawHint(u, RunOf(u.lane, id)), s, s.lane.announced)
  IN  [t EXCEPT !.lane = ForgetZone([@ EXCEPT !.announced = <<>>, !.plans = Empty,
                                              !.planned = 0, !.listing = None])]
=============================================================================
