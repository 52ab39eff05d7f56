----------------------------- MODULE MCVolumeScan -----------------------------
(* Small volumes of three kinds, each about one part of the scan: trees    *)
(* and their paths, journals, clusters.  The root is record 1.             *)
EXTENDS VolumeTruth

Plain ==
  [slots |-> <<>>, includeDeleted |-> TRUE, recover |-> TRUE, mayStop |-> FALSE,
   annotate |-> FALSE, level |-> "Off", check |-> "Off", maxPending |-> 2, keptBytes |-> 2,
   budget |-> Roomy, asks |-> 0, summary |-> FALSE,
   clusterCount |-> 10, storeClusters |-> 12, bitmapBytes |-> 5, bitmapUsable |-> TRUE,
   bits |-> {}, unreadable |-> {}, bad |-> <<>>, badUsable |-> TRUE, badComplete |-> TRUE,
   damaged |-> {}, zeros |-> {}, metadata |-> {},
   journalFound |-> FALSE, ranges |-> <<>>, chunk |-> 2, unreadableWords |-> {},
   journalLimit |-> 9]

Slot(record, sequence, inUse, directory, names) ==
  [record |-> record, sequence |-> sequence, inUse |-> inUse, directory |-> directory,
   names |-> names, lsn |-> 0, damaged |-> FALSE, attrs |-> <<>>, layouts |-> <<>>]

N(name, parent, sequence, dos) ==
  [name |-> name, parent |-> parent, parentSequence |-> sequence, dos |-> dos, valid |-> FALSE]

-----------------------------------------------------------------------------
(* Trees: directories 2, 3 and 7 that may loop, be freed, or be named by   *)
(* an older or newer generation, a file 6 with several names, and a root   *)
(* that may be lost.                                                       *)
RootSlot == Slot(1, 1, TRUE, TRUE, <<N("root", 1, 1, FALSE)>>)

NamesOf2 ==
  {<<N("b", 1, 1, FALSE)>>, <<N("b", 3, 1, FALSE)>>, <<>>, <<N("b", 2, 1, FALSE)>>,
   <<N("b~", 1, 0, TRUE), N("b", 3, 1, FALSE)>>, <<N("b~", 1, 1, TRUE)>>}

NamesOf3 ==
  {<<N("c", 2, 1, FALSE)>>, <<N("c", 2, 2, FALSE)>>,
   <<N("c", 9, 1, FALSE), N("k", 1, 1, FALSE), N("m", 2, 1, FALSE)>>}

NamesOf6 ==
  {<<N("f", 3, 1, FALSE), N("g", 3, 1, FALSE)>>,
   <<N("f~", 3, 1, TRUE), N("f", 2, 1, FALSE), N("h", 3, 0, FALSE)>>,
   <<N("f", 6, 1, FALSE), N("f", 7, 1, FALSE)>>}

Trees ==
  {(IF root THEN <<RootSlot>> ELSE <<>>) \o
   <<Slot(2, 1, TRUE, TRUE, n2),
     Slot(3, IF live THEN 1 ELSE 2, live, TRUE, n3),
     Slot(6, 1, TRUE, FALSE, n6)>> \o
   (IF root THEN <<>> ELSE <<Slot(7, 1, TRUE, TRUE, <<N("d", 3, 1, FALSE)>>)>>) :
     n2 \in NamesOf2, n3 \in NamesOf3, n6 \in NamesOf6, live \in BOOLEAN, root \in BOOLEAN}

TreeVolumes ==
  {[Plain EXCEPT !.slots = slots, !.budget = budget, !.asks = 2, !.mayStop = budget = 0] :
     slots \in Trees, budget \in {0, 5, Roomy}}

-----------------------------------------------------------------------------
(* Journals: three places, each with a record, one that does not decode,   *)
(* one of version 4, zeros or stray words, in one range or two.            *)
J(file, sequence, high, parent, reason, at) ==
  [file |-> file, sequence |-> sequence, high |-> high, name |-> "j", parent |-> parent,
   parentSequence |-> 1, reason |-> reason, usn |-> at]

Head3(record, version, good, at) ==
  <<[kind |-> "head", length |-> 3, version |-> version, good |-> good, usn |-> at,
     record |-> record], BodyWord, BodyWord>>

Places(record, at) ==
  {Head3(record, 2, TRUE, at), Head3(record, 2, FALSE, at), Head3(record, 4, TRUE, at),
   <<BodyWord, ZeroWord, ZeroWord>>, Head3(record, 3, TRUE, at + 1)}

JournalSlots(sequence) ==
  <<RootSlot, Slot(2, 1, TRUE, TRUE, <<N("b", 1, 1, FALSE)>>),
    Slot(3, sequence, FALSE, FALSE, <<N("c", 2, 1, FALSE)>>)>>

Records(at) == {J(3, 1, 0, 2, "delete", at), J(3, 4, 0, 2, "create", at)}

(* A range ends inside a record, or with bytes that are no whole word.     *)
RangesOf(words, cut) ==
  IF cut = 0 THEN <<[offset |-> 0, words |-> words, stray |-> FALSE]>>
  ELSE <<[offset |-> 0, words |-> SubSeq(words, 1, cut), stray |-> TRUE],
         [offset |-> cut, words |-> SubSeq(words, cut + 1, Len(words)), stray |-> FALSE]>>

JournalWords ==
  {a \o b \o c : a \in UNION {Places(r, 0) : r \in Records(0)},
                 b \in Places(J(3, 4, 0, 2, "rename", 3), 3),
                 c \in UNION {Places(r, 6) : r \in {J(2, 1, 0, 1, "close", 6),
                                                   J(2, 1, 1, 7, "delete", 6)}}}

Reading(cut, chunk, lost, sequence) ==
  [cut |-> cut, chunk |-> chunk, lost |-> lost, sequence |-> sequence]

Readings == {Reading(0, 2, {}, 2), Reading(4, 2, {}, 1), Reading(0, 4, {5}, 1),
             Reading(4, 4, {5}, 2)}

JournalVolumes ==
  {[Plain EXCEPT !.slots = JournalSlots(how.sequence), !.journalFound = TRUE,
                 !.ranges = RangesOf(words, how.cut), !.chunk = how.chunk,
                 !.unreadableWords = how.lost, !.journalLimit = 2,
                 !.includeDeleted = deleted, !.asks = 1] :
     words \in JournalWords, deleted \in BOOLEAN, how \in Readings}

-----------------------------------------------------------------------------
(* Clusters: freed, live and damaged files over ten clusters, under a      *)
(* $Bitmap of three windows.                                               *)
Run(length, delta) == [length |-> length, delta |-> delta]

Attr(encoded, declared, initialized, unit) ==
  [data |-> TRUE, name |-> "", start |-> 0, encoded |-> encoded, bound |-> 9,
   declared |-> declared, initialized |-> initialized, unit |-> unit, encrypted |-> FALSE]

Streams ==
  {<<Attr(<<Run(2, 1), Run(2, 3)>>, 4, 3, 0)>>,
   <<Attr(<<Run(1, 6), Run(1, NoLcn), Run(2, -4)>>, 5, 5, 2)>>,
   <<Attr(<<Run(2, 8), BadRun, Run(1, 1)>>, 2, 2, 0),
     [Attr(<<Run(1, 3), Run(1, 3)>>, 0, 0, 0) EXCEPT !.start = 2]>>,
   <<Attr(<<Run(5, 3)>>, 5, 9, 2), [Attr(<<Run(2, 1)>>, 3, 2, 0) EXCEPT !.name = "s", !.encrypted = TRUE]>>,
   <<Attr(<<Run(3, 9), Run(1, -12)>>, 4, 4, 0)>>,
   <<Attr(<<Run(2, 4), Run(2, -3)>>, 4, 4, 4)>>,
   <<Attr(<<Run(2, 1), Run(0, 1), Run(1, 3)>>, 3, 3, 0)>>,
   <<Attr(<<Run(2, 1), Run(1, 3)>>, 3, 1, 2)>>,
   <<Attr(<<Run(2, 5), Run(2, 1)>>, 4, 4, 0)>>,
   <<[Attr(<<Run(1, 4), Run(18, 10)>>, 19, 19, 0) EXCEPT !.bound = 25]>>}

(* Runs that go past the bound of the attribute, wrap its virtual clusters *)
(* or the clusters of the volume, or are empty at the start: the last of   *)
(* none is the largest number, which the bound of an empty attribute is.   *)
EdgeStreams ==
  {<<Attr(<<Run(2, 1), Run(9, 3)>>, 4, 4, 0)>>,
   <<[Attr(<<Run(1, 4), Run(31, 1)>>, 3, 3, 0) EXCEPT !.bound = 31]>>,
   <<Attr(<<Run(1, 8), Run(1, 8)>>, 3, 3, 0)>>,
   <<Attr(<<Run(0, 1), Run(2, 3)>>, 2, 2, 0)>>,
   <<[Attr(<<Run(0, 1), Run(2, 3)>>, 2, 2, 0) EXCEPT !.bound = 31]>>}

File(record, inUse, lsn, damaged, attrs) ==
  [Slot(record, 1, inUse, FALSE, <<N("f", 1, 1, FALSE)>>) EXCEPT
     !.lsn = lsn, !.damaged = damaged, !.attrs = attrs]

Rivals3 ==
  {File(3, inUse, lsn, damaged, <<[Attr(<<Run(3, 2)>>, 3, 2, 0) EXCEPT !.data = data]>>) :
     inUse \in BOOLEAN, lsn \in {0, 7}, damaged \in {FALSE}, data \in {TRUE}}
  \cup {File(3, inUse, 3, TRUE, <<Attr(<<Run(3, 2), Run(2, 3)>>, 6, 2, 0)>>) : inUse \in BOOLEAN}
  \cup {File(3, TRUE, 3, FALSE, <<[Attr(<<Run(3, 2)>>, 3, 1, 0) EXCEPT !.data = FALSE]>>)}

BitSets == {{}, {2, 3, 8}, {4, 5, 6}}

Broken == {<<{}, <<>>>>, <<{1}, <<[lcn |-> 2, clusters |-> 1]>>>>, <<{2}, <<>>>>, <<{1, 4}, <<>>>>}

StateVolumes ==
  {[Plain EXCEPT !.slots = <<File(2, FALSE, 5, FALSE, s), rival>>, !.annotate = TRUE,
                 !.bits = bits, !.unreadable = broken[1], !.bad = broken[2],
                 !.keptBytes = kept, !.maxPending = pending, !.mayStop = pending = 9,
                 !.summary = TRUE, !.asks = 1] :
     s \in Streams \cup EdgeStreams, rival \in {File(3, FALSE, 0, FALSE, <<Attr(<<Run(3, 2)>>, 3, 2, 0)>>)},
     bits \in BitSets, broken \in Broken, kept \in {0, 2, 4}, pending \in {1, 9}}

AccountVolumes ==
  {[Plain EXCEPT !.slots = <<File(2, FALSE, 5, FALSE, s), rival>>, !.level = level,
                 !.check = check, !.bits = bits, !.unreadable = broken[1], !.bad = broken[2],
                 !.zeros = {5}, !.metadata = {1}, !.damaged = lost, !.annotate = kept # 0,
                 !.keptBytes = kept] :
     s \in Streams \cup EdgeStreams, rival \in Rivals3, bits \in {{2, 3, 8}}, broken \in Broken,
     level \in {"Counts", "Map"}, check \in {"Off", "Sample", "Full"}, lost \in {{}, {6}},
     kept \in {2}}

(* A live file that is damaged, against live and freed ones.               *)
LiveVolumes ==
  {[Plain EXCEPT !.slots = <<File(2, TRUE, 5, TRUE, s), rival>>, !.level = "Map",
                 !.bits = bits, !.unreadable = broken[1], !.bad = broken[2]] :
     s \in Streams, rival \in Rivals3, bits \in BitSets, broken \in Broken}

(* Two rivals for the clusters of a freed file: each live or freed, before *)
(* or after it or in no order, and past what it wrote or not.              *)
Contender(record, inUse, lsn, initialized, lcn) ==
  File(record, inUse, lsn, FALSE, <<Attr(<<Run(3, lcn)>>, 3, initialized, 0)>>)

Contenders(record, lcn) ==
  {Contender(record, TRUE, 0, initialized, lcn) : initialized \in {1, 3}}
  \cup {Contender(record, FALSE, lsn, initialized, lcn) :
          lsn \in {0, 3, 5, 7}, initialized \in {1, 3}}

ContestVolumes ==
  {[Plain EXCEPT !.slots = <<File(2, FALSE, lsn, FALSE,
                                  <<Attr(<<Run(3, 1), Run(3, 3)>>, 6, 5, 0)>>), c3, c4>>,
                 !.level = "Map", !.bits = bits] :
     lsn \in {0, 5}, c3 \in Contenders(3, 2), c4 \in Contenders(4, 3), bits \in {{}, {2, 3, 4}}}

(* What is missing or past a limit: $Bitmap, $BadClus, the size.           *)
LimitVolumes ==
  {[Plain EXCEPT !.slots = <<File(2, FALSE, 5, FALSE, s)>>, !.annotate = TRUE, !.level = "Map",
                 !.bits = {2, 3, 8}, !.bad = bad, !.badComplete = opt[1], !.recover = opt[2],
                 !.bitmapUsable = opt[3], !.clusterCount = count, !.bitmapBytes = bytes,
                 !.summary = TRUE, !.asks = 1] :
     s \in Streams,
     bad \in {<<>>, <<[lcn |-> 8, clusters |-> 9], [lcn |-> 3, clusters |-> 1],
                      [lcn |-> 5, clusters |-> 1]>>},
     opt \in {<<TRUE, FALSE, TRUE>>, <<FALSE, TRUE, FALSE>>, <<FALSE, FALSE, TRUE>>,
              <<TRUE, FALSE, FALSE>>},
     count \in {0, 10, 20}, bytes \in {4, 9}}

(* Two directories that name each other, and a memo with room for one.     *)
MCLoop ==
  {[Plain EXCEPT !.slots = <<RootSlot, Slot(2, 1, TRUE, TRUE, <<N("b", 3, 1, FALSE)>>),
                             Slot(3, 1, TRUE, TRUE, <<N("c", 2, 1, FALSE)>>)>>,
                 !.budget = 5, !.asks = 2]}

(* A directory that has only an alias, and one below it.                   *)
MCAlias ==
  {[Plain EXCEPT !.slots = <<RootSlot, Slot(2, 1, TRUE, TRUE, <<N("b~", 1, 1, TRUE)>>),
                             Slot(3, 1, TRUE, TRUE, <<N("c", 2, 1, FALSE)>>)>>,
                 !.asks = 2]}

(* A freed file and one that was freed before it, on a cluster of both.    *)
MCEarlier ==
  {[Plain EXCEPT !.slots = <<File(2, FALSE, 5, FALSE, <<Attr(<<Run(2, 1)>>, 2, 2, 0)>>),
                             Contender(3, FALSE, 3, 3, 2)>>,
                 !.level = "Map", !.bits = bits] : bits \in {{}, {2}}}

(* Two live files, one of them damaged, on a cluster that $Bitmap frees.   *)
MCCrossed ==
  {[Plain EXCEPT !.slots = <<File(2, TRUE, 5, TRUE, <<Attr(<<Run(2, 1)>>, 2, 2, 0)>>),
                             Contender(3, TRUE, 3, 3, 2)>>,
                 !.level = "Map", !.bits = {}]}

MCVolumes ==
  TreeVolumes \cup JournalVolumes \cup StateVolumes \cup AccountVolumes \cup LiveVolumes
    \cup ContestVolumes \cup LimitVolumes
=============================================================================
