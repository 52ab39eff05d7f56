------------------------------- MODULE MftRuns -------------------------------
(***************************************************************************)
(* How sorted record numbers are grouped into reads of $MFT (io/mft-runs). *)
(* The probes of a directory, the batches of the read ahead and the        *)
(* planner of the standing lane all cut their reads with these operators.  *)
(***************************************************************************)
EXTENDS Integers, Sequences, SequencesExt, FiniteSetsExt, TLC

(* A sorted list is worked off in rounds of at most `round` records.       *)
RoundsOf(seq, round) ==
  LET n == Max({1, round})
  IN  [k \in 1 .. (Len(seq) + n - 1) \div n |->
         SubSeq(seq, (k - 1) * n + 1, Min({k * n, Len(seq)}))]

(* A run serves slots[begin .. end - 1] and reads the slots first .. last. *)
NewRun(slots, i) == [begin |-> i, end |-> i + 1, first |-> slots[i], last |-> slots[i]]

(* The run of the back reads on to slots[i]: across a narrow hole, or a    *)
(* wide one while it stays dense, and while it is short enough.            *)
Joins(run, slots, i, rules) ==
  LET hole   == slots[i] - run.last - 1
      span   == slots[i] - run.first + 1
      wanted == i + 1 - run.begin
  IN  /\ \/ hole <= rules.gap
         \/ hole <= rules.wideGap /\ wanted * 1000 >= span * rules.wideShare
      /\ span <= Max({1, rules.maxRun})

PlanMftRuns(slots, rules) ==
  FoldLeftDomain(
    LAMBDA runs, i :
      IF runs # <<>> /\ Joins(Last(runs), slots, i, rules)
      THEN [runs EXCEPT ![Len(runs)].last = slots[i], ![Len(runs)].end = i + 1]
      ELSE Append(runs, NewRun(slots, i)),
    <<>>, slots)

(* The run grown to whole clusters, never below the first slot that $MFT's *)
(* extents can read unless it began there.                                 *)
Widened(run, perCluster, firstReadable) ==
  [run EXCEPT !.first = Max({run.first - (run.first % perCluster),
                             Min({run.first, firstReadable})}),
              !.last  = run.last + perCluster - 1 - (run.last % perCluster)]

WidenToClusters(runs, perCluster, firstReadable) ==
  IF perCluster < 2 THEN runs
  ELSE FoldLeft(
         LAMBDA widened, run :
           LET wide == Widened(run, perCluster, firstReadable)
           IN  IF widened # <<>> /\ wide.first <= Last(widened).last + 1
               THEN [widened EXCEPT ![Len(widened)].last = Max({Last(widened).last, wide.last}),
                                    ![Len(widened)].end  = wide.end]
               ELSE Append(widened, wide),
         <<>>, runs)

(* Whether a second, wider hole may be read across: on a rotational device *)
(* whose reads are kept by the block cache, and if it is wider at all.     *)
WideGapOf(probe, rotational, cached) ==
  IF rotational /\ cached /\ probe.wideGap > probe.gap
  THEN [wideGap |-> probe.wideGap, wideShare |-> probe.wideShare]
  ELSE [wideGap |-> 0, wideShare |-> 0]

(* The rules of the probes: a run that something keeps is widened.         *)
ProbeRunRulesOf(probe, volume, keeps) ==
  WideGapOf(probe, volume.rotational, volume.cached) @@
       [gap |-> probe.gap, maxRun |-> probe.maxRun, mapped |-> volume.mapped,
        perCluster  |-> IF keeps THEN volume.perCluster ELSE 0,
        firstMapped |-> volume.firstMapped]

(* The reads that the probes of a sorted chunk make: the records below the *)
(* mapped ones alone, none of those that `held` has, the others in runs.   *)
PlanProbeRuns(chunk, rules, held) ==
  LET Alone(r) == ~rules.mapped \/ r < rules.firstMapped
      toRead   == SelectSeq(chunk, LAMBDA r : ~Alone(r) /\ r \notin held)
  IN  [alone  |-> SelectSeq(chunk, Alone),
       served |-> SelectSeq(chunk, LAMBDA r : ~Alone(r) /\ r \in held),
       toRead |-> toRead,
       runs   |-> WidenToClusters(PlanMftRuns(toRead, rules),
                                  rules.perCluster, rules.firstMapped)]
=============================================================================
