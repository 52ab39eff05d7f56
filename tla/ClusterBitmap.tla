---------------------------- MODULE ClusterBitmap ----------------------------
(***************************************************************************)
(* Which clusters are in use (alloc/cluster-bitmap, alloc/bad-cluster-list,*)
(* ntfs-volume-alloc): $Bitmap, read window by window, under the list of   *)
(* bad clusters.  v is the volume: the bits of $Bitmap, how many bytes it  *)
(* has, which of them cannot be read, the extents that $BadClus lists, the *)
(* clusters that the volume claims and those that its store holds.  b is   *)
(* what the program keeps: which windows it holds, retains or gave up.     *)
(***************************************************************************)
EXTENDS Integers, Sequences, SequencesExt, FiniteSets, FiniteSetsExt

CONSTANTS NoWindow,          (* !have_window_ *)
          BitsPerByte,       (* bits_per_byte *)
          WindowBytes,       (* window_bytes_ *)
          PieceBytes,        (* the piece that a failed read is retried by *)
          MaxFailedWindows,  (* max_failed_windows *)
          BadCeiling         (* max_bad_extents *)

ExtentEnd(e) == e.lcn + e.clusters

(* The elements of a set, sorted.                                          *)
Ordered(S, Before(_, _)) ==
  [i \in 1 .. Cardinality(S) |->
     CHOOSE x \in S : Cardinality({y \in S : Before(y, x)}) = i - 1]

(* A run joins the last one when it has its state and starts where it ends.*)
AppendRun(runs, lcn, state) ==
  IF runs # <<>> /\ Last(runs).state = state /\ ExtentEnd(Last(runs)) = lcn
  THEN [runs EXCEPT ![Len(runs)].clusters = @ + 1]
  ELSE Append(runs, [lcn |-> lcn, clusters |-> 1, state |-> state])

-----------------------------------------------------------------------------
(* The clusters of the volume, cut where its store ends; 0 when not known. *)
UsableClusterCount(v) ==
  IF v.clusterCount = 0 THEN 0 ELSE Min({v.clusterCount, v.storeClusters})

(* No byte of $Bitmap past what the clusters need is looked at.            *)
BitmapDataBytes(v) ==
  Min({v.bitmapBytes, v.storeClusters \div BitsPerByte + 1}
      \cup (IF UsableClusterCount(v) = 0 THEN {}
            ELSE {UsableClusterCount(v) \div BitsPerByte + 1}))

(* The extents of $BadClus, clamped, sorted and merged: as long as it is,  *)
(* a run of listed clusters is one extent.                                 *)
ClampToVolume(extents, count) ==
  UNION {{lcn \in e.lcn .. ExtentEnd(e) - 1 : count = 0 \/ lcn < count} : e \in ToSet(extents)}

SortAndMerge(clusters) ==
  FoldLeft(LAMBDA runs, lcn : AppendRun(runs, lcn, "Bad"), <<>>, Ordered(clusters, <))

(* Strict, a list that is damaged or too long is rejected; recovering, its *)
(* lowest extents are kept.                                                *)
KeptExtents(v, extents) ==
  IF Len(extents) <= BadCeiling THEN extents
  ELSE IF v.recover THEN SubSeq(extents, 1, BadCeiling) ELSE <<>>

BadExtents(v) ==
  IF ~v.badUsable \/ (~v.badComplete /\ ~v.recover) THEN <<>>
  ELSE KeptExtents(v, SortAndMerge(ClampToVolume(v.bad, UsableClusterCount(v))))

(* On first use both are loaded.  Without $Bitmap, one without bits stands *)
(* in, so that what is listed bad stays bad.                               *)
NotLoaded == [loaded |-> FALSE, usable |-> FALSE, dataBytes |-> 0, limit |-> 0, bad |-> {},
              held |-> NoWindow, retained |-> {}, failed |-> {}, keep |-> 0]

Limit(count, dataBytes) == IF count # 0 THEN count ELSE dataBytes * BitsPerByte

LoadedWith(b, usable, dataBytes, limit, bad) ==
  [b EXCEPT !.loaded = TRUE, !.usable = usable, !.dataBytes = dataBytes, !.limit = limit,
            !.bad = UNION {e.lcn .. ExtentEnd(e) - 1 : e \in ToSet(bad)}]

LoadClusterBitmap(v, b, bad) ==
  IF v.bitmapUsable
  THEN LoadedWith(b, TRUE, BitmapDataBytes(v),
                  Limit(UsableClusterCount(v), BitmapDataBytes(v)), bad)
  ELSE LoadedWith(b, bad # <<>> /\ UsableClusterCount(v) # 0, 0, UsableClusterCount(v), bad)

GetClusterBitmap(v, b) == IF b.loaded THEN b ELSE LoadClusterBitmap(v, b, BadExtents(v))

-----------------------------------------------------------------------------
(* What a read of length bytes at offset gives: all of them, or the pieces *)
(* before the first that cannot be read.                                   *)
ReadBitmapBytes(v, offset, length) ==
  IF v.unreadable \cap (offset .. offset + length - 1) = {} THEN length
  ELSE LET bad == Min(v.unreadable \cap (offset .. offset + length - 1)) - offset
       IN  bad - (bad % PieceBytes)

WindowLength(b, w) == Min({WindowBytes, b.dataBytes - w * WindowBytes})

ValidBytes(v, b, w) == ReadBitmapBytes(v, w * WindowBytes, WindowLength(b, w))

RetainedBytes(b) == MapThenSumSet(LAMBDA w : WindowLength(b, w), b.retained)

(* A window that comes back short is not read again.                       *)
NoteFailed(b, w, valid) ==
  IF valid < WindowLength(b, w) THEN [b EXCEPT !.failed = @ \cup {w}] ELSE b

(* A window that was read is kept whatever the bytes kept already.         *)
RetainWindowFault(b, w) == [b EXCEPT !.held = NoWindow, !.retained = @ \cup {w}]

RetainWindow(b, w) ==
  IF RetainedBytes(b) + WindowLength(b, w) > b.keep THEN [b EXCEPT !.held = w]
  ELSE [b EXCEPT !.held = NoWindow, !.retained = @ \cup {w}]

Answers(b, w) == w \in b.retained \/ w = b.held

(* Windows that failed, or all once too many did, are not tried.           *)
LoadWindow(v, b, w) ==
  IF Answers(b, w) \/ w \in b.failed \/ Cardinality(b.failed) >= MaxFailedWindows THEN b
  ELSE RetainWindow(NoteFailed(b, w, ValidBytes(v, b, w)), w)

SetRetention(b, bytes) ==
  [b EXCEPT !.keep = bytes, !.retained = IF bytes = 0 THEN {} ELSE @]

-----------------------------------------------------------------------------
(* The clusters of [first, last) that the bitmap judges, window by window; *)
(* once too many windows failed, the rest is not walked.                   *)
WindowBits == WindowBytes * BitsPerByte

JudgedIn(v, b, w, first, last) ==
  IF ~Answers(b, w) THEN {}
  ELSE {lcn \in first .. last - 1 :
          /\ lcn \div WindowBits = w
          /\ lcn - w * WindowBits < ValidBytes(v, b, w) * BitsPerByte}

JudgeWindow(v, acc, b, w, first, last) ==
  [b |-> b, judged |-> acc.judged \cup JudgedIn(v, b, w, first, last),
   stopped |-> Cardinality(b.failed) >= MaxFailedWindows]

WindowsOf(b, first, last) ==
  LET end == Min({last, b.dataBytes * BitsPerByte})
  IN  IF first >= end THEN <<>>
      ELSE [i \in 1 .. (end - 1) \div WindowBits - first \div WindowBits + 1 |->
              first \div WindowBits + i - 1]

Judged(v, b, first, last) ==
  FoldLeft(LAMBDA acc, w : IF acc.stopped THEN acc
                           ELSE JudgeWindow(v, acc, LoadWindow(v, acc.b, w), w, first, last),
           [b |-> b, judged |-> {}, stopped |-> FALSE], WindowsOf(b, first, last))

(* The state of a cluster: outside the volume, listed bad, or by its bit.  *)
StateOfFault(v, b, judged, lcn) ==
  IF lcn >= b.limit THEN "OutOfRange"
  ELSE IF lcn \notin judged THEN "Unknown"
  ELSE IF lcn \in b.bad THEN "Bad"
  ELSE IF lcn \in v.bits THEN "Allocated" ELSE "Free"

StateOf(v, b, judged, lcn) ==
  IF lcn >= b.limit THEN "OutOfRange"
  ELSE IF lcn \in b.bad THEN "Bad"
  ELSE IF lcn \notin judged THEN "Unknown"
  ELSE IF lcn \in v.bits THEN "Allocated" ELSE "Free"

States(v, b, judged, lcn, clusters) ==
  [i \in 1 .. clusters |-> StateOf(v, b, judged, lcn + i - 1)]

StatesOf(v, walked, lcn, clusters) ==
  [b |-> walked.b, states |-> States(v, walked.b, walked.judged, lcn, clusters)]

(* What the volume answers for a range: one state for each of its clusters;*)
(* unknown when there is neither $Bitmap nor a bad list.                   *)
ClusterStates(v, b, lcn, clusters) ==
  IF ~b.usable THEN [b |-> b, states |-> [i \in 1 .. clusters |-> "Unknown"]]
  ELSE StatesOf(v, Judged(v, b, lcn, Min({lcn + clusters, b.limit})), lcn, clusters)

(* The runs of one state that these states make.                           *)
RunsOf(states, lcn) ==
  FoldLeftDomain(LAMBDA runs, i : AppendRun(runs, lcn + i - 1, states[i]), <<>>, states)

(* The state of a range is that of its worst cluster.                      *)
RangeState(states) ==
  IF \E s \in ToSet(states) : s = "Allocated" THEN "Allocated"
  ELSE IF \E s \in ToSet(states) : s = "Bad" THEN "Bad"
  ELSE IF \E s \in ToSet(states) : s = "OutOfRange" THEN "OutOfRange"
  ELSE IF \E s \in ToSet(states) : s = "Unknown" THEN "Unknown" ELSE "Free"

(* StatesInOrder: the queries are answered in the order of their clusters. *)
InOrder(queries) ==
  Ordered(DOMAIN queries, LAMBDA i, j : \/ queries[i].lcn < queries[j].lcn
                                        \/ queries[i].lcn = queries[j].lcn /\ i < j)

Answered(acc, i, answer) ==
  [b |-> answer.b, states |-> [acc.states EXCEPT ![i] = RangeState(answer.states)]]

StatesInOrder(v, b, queries) ==
  FoldLeft(LAMBDA acc, i :
             Answered(acc, i, ClusterStates(v, acc.b, queries[i].lcn, queries[i].clusters)),
           [b |-> b, states |-> [i \in DOMAIN queries |-> "Unknown"]], InOrder(queries))

(* GetSpaceSummary: nothing when there is no volume or nothing was judged. *)
NoSummary == [total |-> 0, free |-> 0, bad |-> 0, unknown |-> 0]

Tally(states, state) == Quantify(DOMAIN states, LAMBDA i : states[i] = state)

SummaryOf(v, walked) ==
  [b |-> walked.b,
   summary |-> IF walked.judged = {} THEN NoSummary
               ELSE LET states == States(v, walked.b, walked.judged, 0, walked.b.limit)
                    IN  [total |-> walked.b.limit, free |-> Tally(states, "Free"),
                         bad |-> Tally(states, "Bad"), unknown |-> Tally(states, "Unknown")]]

Summary(v, b) ==
  IF ~b.usable \/ b.limit = 0 THEN [b |-> b, summary |-> NoSummary]
  ELSE SummaryOf(v, Judged(v, b, 0, b.limit))
=============================================================================
