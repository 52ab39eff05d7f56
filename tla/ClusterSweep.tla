----------------------------- MODULE ClusterSweep -----------------------------
(***************************************************************************)
(* The account of every cluster of the freed and of the damaged files      *)
(* (alloc/claim-inventory, alloc/cluster-sweep, alloc/content-check).  The *)
(* runs of all the records are claims; a sweep in the order of the         *)
(* clusters judges each stretch over which the claims are the same; the    *)
(* content of what is presumed intact may be read; the pieces of a stream  *)
(* are then put together in its own order.                                 *)
(*                                                                         *)
(* A layout is one part of a non-resident attribute: whether it is $DATA   *)
(* and its name, its runs (a hole has no lcn), what was written of it (the *)
(* first part only), the clusters it declares, its compression unit.       *)
(***************************************************************************)
EXTENDS ClusterBitmap, RunList

CONSTANTS NoAccount,     (* no_account *)
          MaxClaim,      (* max_claim_clusters *)
          MaxRead,       (* clusters of max_read_bytes *)
          MaxGap         (* clusters of max_gap_bytes *)

-----------------------------------------------------------------------------
(* The claims of a record.  A run is cut where what was written ends, and  *)
(* at the most that a claim holds.                                         *)
WrittenEnd(layout, run) ==
  IF layout.initialized = NotFirstPart THEN run.vcn + run.clusters
  ELSE Min({Max({layout.initialized, run.vcn}), run.vcn + run.clusters})

PartsOf(run, writtenEnd) ==
  SelectSeq(<<[lcn |-> run.lcn, vcn |-> run.vcn, clusters |-> writtenEnd - run.vcn,
               unwritten |-> FALSE],
              [lcn |-> run.lcn + writtenEnd - run.vcn, vcn |-> writtenEnd,
               clusters |-> run.vcn + run.clusters - writtenEnd, unwritten |-> TRUE]>>,
            LAMBDA part : part.clusters > 0)

RealRuns(layout)   == SelectSeq(layout.runs, LAMBDA r : r.lcn # NoLcn /\ ~Overflows(r))
SparseRuns(layout) == SelectSeq(layout.runs, LAMBDA r : r.lcn = NoLcn)
LongRuns(layout)   == SelectSeq(layout.runs, Overflows)

Parts(layout) ==
  FlattenSeq([i \in DOMAIN RealRuns(layout) |->
    PartsOf(RealRuns(layout)[i], WrittenEnd(layout, RealRuns(layout)[i]))])

(* What is left of a part past MaxClaim has no claim and is invalid.       *)
Cut(part) == [part EXCEPT !.clusters = Min({@, MaxClaim})]
LeftOver(part) == [vcn |-> part.vcn + MaxClaim, clusters |-> part.clusters - MaxClaim]

Ranges(runs) == [i \in DOMAIN runs |-> [vcn |-> runs[i].vcn, clusters |-> runs[i].clusters]]

InvalidRanges(layout, parts) ==
  Ranges(LongRuns(layout)) \o
  Ranges([i \in DOMAIN SelectSeq(parts, LAMBDA p : p.clusters > MaxClaim) |->
            LeftOver(SelectSeq(parts, LAMBDA p : p.clusters > MaxClaim)[i])])

IsFirst(layout) == layout.initialized # NotFirstPart

(* The parts of one stream of a record share its account.                  *)
NewAccount(record, name) ==
  [record |-> record, name |-> name, unit |-> 0, encrypted |-> FALSE, span |-> 0,
   real |-> 0, sparse |-> <<>>, invalid |-> <<>>]

TakeSizes(account, layout) ==
  [account EXCEPT
     !.unit      = IF IsFirst(layout) \/ account.span = 0 THEN layout.unit ELSE @,
     !.encrypted = IF IsFirst(layout) \/ account.span = 0 THEN layout.encrypted ELSE @,
     !.span      = Max({@, layout.declared, layout.coveredEnd})]

TakeRuns(account, layout, parts) ==
  [account EXCEPT
     !.real    = FoldLeft(LAMBDA sum, p : sum + Cut(p).clusters, @, parts),
     !.sparse  = @ \o Ranges(SparseRuns(layout)),
     !.invalid = @ \o InvalidRanges(layout, parts)]

ClaimsOf(record, parts, account) ==
  [i \in DOMAIN parts |->
     Cut(parts[i]) @@ [record |-> record.record, lsn |-> record.lsn,
                       freed |-> ~record.inUse, account |-> account]]

(* inv: the claims of the scan and its accounts, in the order of the scan. *)
EmptyInventory == [claims |-> <<>>, accounts |-> <<>>]

Concerned(record) == ~record.inUse \/ record.damaged

AccountIndex(inv, record, name) ==
  LET known == {i \in DOMAIN inv.accounts :
                  inv.accounts[i].record = record.record /\ inv.accounts[i].name = name}
  IN  IF known = {} THEN Len(inv.accounts) + 1 ELSE Min(known)

WithAccount(inv, record, name, at) ==
  IF at \in DOMAIN inv.accounts THEN inv
  ELSE [inv EXCEPT !.accounts = Append(@, NewAccount(record.record, name))]

AddAccounted(inv, record, layout, at, parts) ==
  [claims   |-> inv.claims \o ClaimsOf(record, parts, at),
   accounts |-> [inv.accounts EXCEPT
                   ![at] = TakeRuns(TakeSizes(@, layout), layout, parts)]]

AddLayout(inv, record, layout) ==
  IF Concerned(record) /\ layout.data
  THEN LET at == AccountIndex(inv, record, layout.name)
       IN  AddAccounted(WithAccount(inv, record, layout.name, at), record, layout, at,
                        Parts(layout))
  ELSE [inv EXCEPT !.claims = @ \o ClaimsOf(record, Parts(layout), NoAccount)]

AddRecord(inv, record) ==
  FoldLeft(LAMBDA acc, layout : AddLayout(acc, record, layout), inv, record.layouts)

-----------------------------------------------------------------------------
(* The verdicts.  active are the claims that cover the stretch.            *)
Rivals(claim, active) == {c \in active : c.record # claim.record}

(* A rival that was freed at the same time counts as freed later.          *)
FreedLaterFault(claim, c) ==
  c.freed /\ ~c.unwritten /\ c.lsn # 0 /\ claim.lsn # 0 /\ c.lsn >= claim.lsn

FreedLater(claim, c) ==
  c.freed /\ ~c.unwritten /\ c.lsn # 0 /\ claim.lsn # 0 /\ c.lsn > claim.lsn

FreedUnordered(claim, c) ==
  c.freed /\ ~c.unwritten /\ (c.lsn = claim.lsn \/ c.lsn = 0 \/ claim.lsn = 0)

(* What the rivals of a freed claim say, else what the bitmap says.        *)
RivalCondition(claim, rivals, state) ==
  IF \E c \in rivals : ~c.freed /\ ~c.unwritten THEN "ReallocatedWritten"
  ELSE IF \E c \in rivals : ~c.freed THEN "ReallocatedUnwritten"
  ELSE IF \E c \in rivals : FreedLater(claim, c) THEN "OverwrittenThenFreed"
  ELSE IF \E c \in rivals : FreedUnordered(claim, c) THEN "Contested"
  ELSE IF state = "Allocated" THEN "AllocatedUnknownOwner"
  ELSE IF state = "Unknown" THEN "Unknown" ELSE "Intact"

LiveCondition(rivals, state) ==
  IF \E c \in rivals : ~c.freed THEN "CrossLinked"
  ELSE IF state = "Free" THEN "FreeButClaimed"
  ELSE IF state = "Unknown" THEN "Unknown" ELSE "Consistent"

Condition(claim, active, state) ==
  IF state = "OutOfRange" THEN "Invalid"
  ELSE IF state = "Bad" THEN "Bad"
  ELSE IF ~claim.freed THEN LiveCondition(Rivals(claim, active), state)
  ELSE IF claim.unwritten THEN "NeverWritten"
  ELSE RivalCondition(claim, Rivals(claim, active), state)

-----------------------------------------------------------------------------
(* The sweep: between two neighbouring ends of claims, the same claims     *)
(* cover all of the stretch.                                               *)
ClaimEnd(claim) == claim.lcn + claim.clusters

SortedClaims(inv) ==
  Ordered(DOMAIN inv.claims,
          LAMBDA i, j : \/ inv.claims[i].lcn < inv.claims[j].lcn
                        \/ inv.claims[i].lcn = inv.claims[j].lcn /\ i < j)

(* The ends only: claims that start inside a stretch are judged with it.   *)
EdgesFault(claims) ==
  Ordered({ClaimEnd(c) : c \in claims} \cup {Min({c.lcn : c \in claims})}, <)

Edges(claims) == Ordered({c.lcn : c \in claims} \cup {ClaimEnd(c) : c \in claims}, <)

Covering(inv, order, lcn) ==
  SelectSeq([i \in DOMAIN order |-> inv.claims[order[i]]],
            LAMBDA c : c.lcn <= lcn /\ lcn < ClaimEnd(c))

(* A stretch is judged run by run, neighbours of one condition joined.     *)
ResolvedBy(claim, active, runs) ==
  FoldLeft(LAMBDA out, run :
             LET condition == Condition(claim, active, run.state)
             IN  IF out # <<>> /\ Last(out).condition = condition
                 THEN [out EXCEPT ![Len(out)].clusters = @ + run.clusters]
                 ELSE Append(out, [lcn |-> run.lcn, vcn |-> claim.vcn + run.lcn - claim.lcn,
                                   clusters |-> run.clusters, account |-> claim.account,
                                   condition |-> condition]),
           <<>>, runs)

ResolvedByAll(active, runs) ==
  FlattenSeq([i \in DOMAIN active |->
    IF active[i].account = NoAccount THEN <<>>
    ELSE ResolvedBy(active[i], ToSet(active), runs)])

Resolve(acc, active, answer, lcn) ==
  [b |-> answer.b,
   resolved |-> acc.resolved \o ResolvedByAll(active, RunsOf(answer.states, lcn))]

(* The bitmap is asked only for a stretch that an account needs.           *)
JudgeStretch(v, acc, active, lcn, clusters) ==
  IF \A i \in DOMAIN active : active[i].account = NoAccount THEN acc
  ELSE Resolve(acc, active, ClusterStates(v, GetClusterBitmap(v, acc.b), lcn, clusters), lcn)

SweepEdges(v, b, inv, order, edges) ==
  FoldLeft(LAMBDA acc, i :
             JudgeStretch(v, acc, Covering(inv, order, edges[i]), edges[i],
                          edges[i + 1] - edges[i]),
           [b |-> b, resolved |-> <<>>], [i \in 1 .. Len(edges) - 1 |-> i])

Sweep(v, b, inv) ==
  IF inv.claims = <<>> THEN [b |-> b, resolved |-> <<>>]
  ELSE SweepEdges(v, b, inv, SortedClaims(inv), Edges(ToSet(inv.claims)))

-----------------------------------------------------------------------------
(* A piece in parts of one condition each, told[k] that of its cluster k.  *)
Recondition(piece, told) ==
  FoldLeft(LAMBDA out, k :
             IF out # <<>> /\ Last(out).condition = told[k]
             THEN [out EXCEPT ![Len(out)].clusters = @ + 1]
             ELSE Append(out, [piece EXCEPT !.vcn = @ + k, !.clusters = 1, !.condition = told[k],
                                            !.lcn = IF @ = NoLcn THEN NoLcn ELSE @ + k]),
           <<>>, [k \in 1 .. piece.clusters |-> k - 1])

(* The content check.  Its targets are parts of the stretches presumed     *)
(* intact: all of each, or the first cluster of each stream.               *)
CutTargets(stretch, i) ==
  [n \in 1 .. (stretch.clusters + MaxRead - 1) \div MaxRead |->
     [index |-> i, offset |-> (n - 1) * MaxRead, lcn |-> stretch.lcn + (n - 1) * MaxRead,
      clusters |-> Min({MaxRead, stretch.clusters - (n - 1) * MaxRead})]]

Checkable(resolved, accounts) ==
  {i \in DOMAIN resolved :
     resolved[i].condition = "Intact" /\ ~accounts[resolved[i].account].encrypted}

FirstOfStream(resolved, checkable, i) ==
  \A j \in checkable \ {i} :
    resolved[j].account = resolved[i].account =>
      \/ resolved[i].vcn < resolved[j].vcn
      \/ resolved[i].vcn = resolved[j].vcn /\ i < j

ChooseTargets(resolved, checkable, mode) ==
  IF mode = "Full" THEN UNION {ToSet(CutTargets(resolved[i], i)) : i \in checkable}
  ELSE {[index |-> i, offset |-> 0, lcn |-> resolved[i].lcn, clusters |-> 1] :
          i \in {j \in checkable : FirstOfStream(resolved, checkable, j)}}

SortedTargets(targets) ==
  Ordered(targets, LAMBDA s, t : s.lcn < t.lcn \/ (s.lcn = t.lcn /\ s.index < t.index))

(* Targets that lie close are read together, up to the longest read.       *)
Joins(read, target) ==
  /\ target.lcn <= read.lcn + read.clusters + MaxGap
  /\ Max({ExtentEnd(read), ExtentEnd(target)}) - read.lcn <= MaxRead

Lengthened(read, target) ==
  [read EXCEPT !.clusters = Max({ExtentEnd(read), ExtentEnd(target)}) - read.lcn,
               !.targets  = @ \cup {target}]

PlanReads(targets) ==
  FoldLeft(LAMBDA reads, t :
             IF reads # <<>> /\ Joins(Last(reads), t)
             THEN [reads EXCEPT ![Len(reads)] = Lengthened(@, t)]
             ELSE Append(reads, [lcn |-> t.lcn, clusters |-> t.clusters, targets |-> {t}]),
           <<>>, targets)

(* A read that fails leaves its targets as they were.                      *)
ReadAll(v, reads) ==
  UNION {r.targets : r \in {q \in ToSet(reads) :
                              v.damaged \cap (q.lcn .. ExtentEnd(q) - 1) = {}}}

ContentCondition(v, lcn) ==
  IF lcn \in v.zeros THEN "Zeroed"
  ELSE IF lcn \in v.metadata THEN "OverwrittenByMetadata" ELSE "IntactChecked"

Seen(done, i, k) ==
  \E t \in done : t.index = i /\ t.offset <= k /\ k < t.offset + t.clusters

ApplyChecks(v, resolved, done) ==
  FlattenSeq([i \in DOMAIN resolved |->
    Recondition(resolved[i],
      [k \in 0 .. resolved[i].clusters - 1 |->
         IF Seen(done, i, k) THEN ContentCondition(v, resolved[i].lcn + k)
         ELSE resolved[i].condition])])

CheckContent(v, resolved, accounts, mode) ==
  IF mode = "Off" THEN resolved
  ELSE ApplyChecks(v, resolved,
         ReadAll(v, PlanReads(SortedTargets(
           ChooseTargets(resolved, Checkable(resolved, accounts), mode)))))

-----------------------------------------------------------------------------
(* The pieces of a stream in its own order, its holes and its invalid      *)
(* ranges among them, and an invalid piece where nothing covers it.        *)
Piece(vcn, clusters, lcn, condition) ==
  [vcn |-> vcn, clusters |-> clusters, lcn |-> lcn, condition |-> condition]

Unaddressed(ranges, condition) ==
  [i \in DOMAIN ranges |-> Piece(ranges[i].vcn, ranges[i].clusters, NoLcn, condition)]

StretchesOf(resolved, at) ==
  LET own == SelectSeq(resolved, LAMBDA s : s.account = at)
  IN  [i \in DOMAIN own |-> Piece(own[i].vcn, own[i].clusters, own[i].lcn, own[i].condition)]

SortedPieces(pieces) ==
  LET order == Ordered(DOMAIN pieces,
                            LAMBDA i, j : \/ pieces[i].vcn < pieces[j].vcn
                                          \/ pieces[i].vcn = pieces[j].vcn /\ i < j)
  IN  [i \in DOMAIN order |-> pieces[order[i]]]

Gap(at, end) == IF end > at THEN <<Piece(at, end - at, NoLcn, "Invalid")>> ELSE <<>>

FillGap(acc, piece) ==
  [pieces |-> acc.pieces \o Gap(acc.at, piece.vcn) \o <<piece>>,
   at     |-> Max({acc.at, piece.vcn + piece.clusters})]

FillGaps(pieces, span) ==
  LET filled == FoldLeft(FillGap, [pieces |-> <<>>, at |-> 0], pieces)
  IN  filled.pieces \o Gap(filled.at, span)

CompletePieces(account, stretches) ==
  FillGaps(SortedPieces(stretches \o Unaddressed(account.sparse, "Sparse")
                                  \o Unaddressed(account.invalid, "Invalid")), account.span)

(* A compression unit that holds a damaged cluster is lost with it.        *)
IsDamaged(condition) ==
  condition \notin {"Intact", "IntactChecked", "Consistent", "Sparse", "NeverWritten"}

LostWhenUnitBreaks(condition) == condition \in {"Intact", "IntactChecked", "Consistent", "Sparse"}

BrokenUnits(pieces, unit) ==
  UNION {{vcn \div unit : vcn \in p.vcn .. p.vcn + p.clusters - 1} :
           p \in {q \in ToSet(pieces) : IsDamaged(q.condition)}}

MarkBrokenUnits(pieces, unit, broken) ==
  FlattenSeq([i \in DOMAIN pieces |->
    Recondition(pieces[i],
      [k \in 0 .. pieces[i].clusters - 1 |->
         IF /\ LostWhenUnitBreaks(pieces[i].condition)
            /\ (pieces[i].vcn + k) \div unit \in broken
         THEN "LostWithUnit" ELSE pieces[i].condition])])

MarkedPieces(account, pieces) ==
  IF account.unit = 0 THEN pieces
  ELSE MarkBrokenUnits(pieces, account.unit, BrokenUnits(pieces, account.unit))

(* Neighbours of one condition are one piece, if both have an address.     *)
MergePieces(pieces) ==
  FoldLeft(LAMBDA out, p :
             IF /\ out # <<>> /\ Last(out).condition = p.condition
                /\ Last(out).vcn + Last(out).clusters = p.vcn
                /\ (Last(out).lcn = NoLcn) = (p.lcn = NoLcn)
             THEN [out EXCEPT ![Len(out)].clusters = @ + p.clusters]
             ELSE Append(out, p),
           <<>>, pieces)

(* The tally of a stream: its clusters by condition.  Holes and what no    *)
(* run covers are counted apart from the pieces.                           *)
Conditions == {"Invalid", "Bad", "NeverWritten", "ReallocatedWritten", "ReallocatedUnwritten",
               "OverwrittenThenFreed", "Contested", "AllocatedUnknownOwner", "Unknown",
               "Intact", "LostWithUnit", "Consistent", "FreeButClaimed", "CrossLinked",
               "Sparse", "Zeroed", "OverwrittenByMetadata", "IntactChecked"}

NoTally == [c \in Conditions |-> 0]

AddTally(tally, condition, clusters) == [tally EXCEPT ![condition] = @ + clusters]

Total(ranges) == FoldLeft(LAMBDA sum, r : sum + r.clusters, 0, ranges)

Missing(account) ==
  Max({0, account.span - (account.real + Total(account.sparse) + Total(account.invalid))})

UncoveredTally(account) ==
  AddTally(AddTally(NoTally, "Sparse", Total(account.sparse)),
           "Invalid", Total(account.invalid) + Missing(account))

CountPieces(tally, pieces) ==
  FoldLeft(LAMBDA acc, p : IF p.lcn = NoLcn THEN acc
                           ELSE AddTally(acc, p.condition, p.clusters), tally, pieces)

FinishedStream(account, pieces, level) ==
  [record |-> account.record, name |-> account.name,
   tally  |-> CountPieces(UncoveredTally(account), pieces),
   pieces |-> IF level = "Map" THEN MergePieces(pieces) ELSE <<>>]

FinishStream(account, stretches, level) ==
  FinishedStream(account, MarkedPieces(account, CompletePieces(account, stretches)), level)

FinishStreams(resolved, accounts, level) ==
  [i \in DOMAIN accounts |-> FinishStream(accounts[i], StretchesOf(resolved, i), level)]

(* The account of a record is that of its streams; one that counts nothing *)
(* is left out.                                                            *)
OwnerAccount(record, streams, level) ==
  [record  |-> record,
   tally   |-> [c \in Conditions |-> FoldLeft(LAMBDA sum, s : sum + s.tally[c], 0, streams)],
   streams |-> IF level = "Map" THEN streams ELSE <<>>]

OwnerAccounts(finished, level) ==
  {a \in {OwnerAccount(r, SelectSeq(finished, LAMBDA s : s.record = r), level) :
            r \in {finished[i].record : i \in DOMAIN finished}} :
     a.tally # NoTally \/ a.streams # <<>>}

AccountClusters(resolved, accounts, level) ==
  OwnerAccounts(FinishStreams(resolved, accounts, level), level)
=============================================================================
