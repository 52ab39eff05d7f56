------------------------------- MODULE RunList -------------------------------
(***************************************************************************)
(* The run list of a non-resident attribute (attr/run-list, the layouts of *)
(* attr/non-resident).  An attribute a has its encoded runs: a length and  *)
(* the difference to the cluster of the run before, none for a hole, or a  *)
(* run that does not decode.  The largest numbers are small here.          *)
(***************************************************************************)
EXTENDS Integers, Sequences, SequencesExt, FiniteSetsExt

CONSTANTS NoLcn,         (* an empty optional lcn: a hole *)
          BadRun,        (* bytes that PickData() rejects *)
          NotFirstPart,  (* initialized_clusters of a continuation *)
          MaxLcn,        (* the largest ULONGLONG *)
          MaxSigned      (* the largest LONGLONG *)

LastVcn(vcn, length) == IF vcn + length = 0 THEN MaxLcn ELSE vcn + length - 1

MovedLcn(cursor, run) == IF run.delta = NoLcn THEN cursor.lcn ELSE cursor.lcn + run.delta

(* What stops the decoding: bytes that are no run, a cluster that wraps or *)
(* is negative, virtual clusters that wrap or pass the attribute's bound.  *)
IsBadRun(cursor, run, bound) ==
  \/ run = BadRun
  \/ MovedLcn(cursor, run) > MaxSigned
  \/ MovedLcn(cursor, run) < 0
  \/ run.length > MaxLcn - cursor.vcn
  \/ LastVcn(cursor.vcn, run.length) > bound

AppendDataRun(cursor, run) ==
  [cursor EXCEPT
     !.lcn  = MovedLcn(cursor, run),
     !.vcn  = @ + run.length,
     !.runs = Append(@, [vcn |-> cursor.vcn, clusters |-> run.length,
                         last |-> LastVcn(cursor.vcn, run.length),
                         lcn |-> IF run.delta = NoLcn THEN NoLcn ELSE MovedLcn(cursor, run)])]

DecodeRun(cursor, run, bound) ==
  IF cursor.stopped THEN cursor
  ELSE IF IsBadRun(cursor, run, bound) THEN [cursor EXCEPT !.stopped = TRUE]
  ELSE AppendDataRun(cursor, run)

(* The runs up to the first bad one; stopped: strict, the parse throws.    *)
ParseRuns(a) ==
  FoldLeft(LAMBDA cursor, run : DecodeRun(cursor, run, a.bound),
           [lcn |-> 0, vcn |-> 0, runs |-> <<>>, stopped |-> FALSE], a.encoded)

Overflows(run) == run.lcn # NoLcn /\ run.clusters > MaxLcn - run.lcn
IsEmpty(run)   == run.clusters = 0

WellFormed(runs) == \A i \in DOMAIN runs : ~IsEmpty(runs[i]) /\ ~Overflows(runs[i])

NonEmpty(runs) == SelectSeq(runs, LAMBDA r : ~IsEmpty(r))
Covered(runs)  == IF NonEmpty(runs) = <<>> THEN 0 ELSE Last(NonEmpty(runs)).last + 1

(* GetExtents: complete when the runs are whole and reach the size that    *)
(* the attribute declares.                                                 *)
GetExtents(a, runs) ==
  [extents  |-> SelectSeq(runs, LAMBDA r : ~IsEmpty(r) /\ r.lcn # NoLcn),
   complete |-> WellFormed(runs) /\ Covered(runs) >= a.declared]

(* GetLayout: the runs from the virtual cluster that this part starts at.  *)
(* Only the first part has sizes.                                          *)
Shifted(runs, shift) == [i \in DOMAIN runs |-> [runs[i] EXCEPT !.vcn = @ + shift]]

GetLayout(a, runs) ==
  [data |-> a.data, name |-> a.name, unit |-> a.unit, encrypted |-> a.encrypted,
   runs |-> Shifted(NonEmpty(runs), a.start),
   coveredEnd  |-> a.start + Covered(runs),
   declared    |-> IF a.start = 0 THEN a.declared ELSE 0,
   initialized |-> IF a.start = 0 THEN a.initialized ELSE NotFirstPart]
=============================================================================
