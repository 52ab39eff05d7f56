---------------------------- MODULE VolumeImage -----------------------------
(***************************************************************************)
(* The volume that a recursive listing reads: what the slots of $MFT hold, *)
(* how a file record is read and judged (io/file-record-read), and which   *)
(* ranges the disk reader is told of (ntfs-volume, io/file-reader).  The   *)
(* volume does not change while it is listed.                              *)
(*                                                                         *)
(* world.kinds[s] is what slot s of $MFT holds:                            *)
(*   live, freed  a whole record, in use or not;                           *)
(*   spread       a whole record, some of whose attributes are elsewhere;  *)
(*   odd          a whole record whose update sequence array sits where    *)
(*                the memo does not keep it;                               *)
(*   torn, rot    a record some or all of whose sectors fail their check;  *)
(*   blank        no FILE magic;                                           *)
(*   missing      the disk does not read it.                               *)
(* $MFT is one extent: slots from world.end on are not mapped.             *)
(***************************************************************************)
EXTENDS MftRuns, RecordKeeper

CONSTANTS FirstUser    (* Mft::Idx::User: the first record read through $MFT *)

VARIABLE world

Kind(slot)     == IF slot < world.end THEN world.kinds[slot] ELSE "missing"
Readable(slot) == Kind(slot) # "missing"

(* What a probe reads of the record sits where the memo keeps it.          *)
Judgeable == {s \in 0 .. world.end - 1 :
                world.kinds[s] \in {"live", "freed", "spread", "torn", "rot"}}

-----------------------------------------------------------------------------
(* The verdict on the header, what is logged, and whether a check failed.  *)
JudgeRecordHeader(kind) ==
  CASE kind = "blank" ->
         [verdict |-> "Rejected", lines |-> <<"no magic">>, failed |-> FALSE]
    [] kind = "rot" \/ (kind = "torn" /\ ~world.recover) ->
         [verdict |-> "Rejected", lines |-> <<"sequence error">>, failed |-> TRUE]
    [] kind = "torn" /\ world.recover ->
         [verdict |-> "Salvaged", lines |-> <<"salvaged">>, failed |-> TRUE]
    [] OTHER ->
         [verdict |-> "Accepted", lines |-> <<>>, failed |-> FALSE]

(* The copy of the first records in $MFTMirr, which only a recovery reads. *)
MirrorKind(slot) ==
  IF world.recover /\ slot \in DOMAIN world.mirror THEN world.mirror[slot] ELSE "missing"

(* ParseRecord: given the image of the record, or NoImage to read it.  The *)
(* mirror and the second judgement are for a record that is read.          *)
ParseRecord(slot, image) ==
  LET kind   == IF image = NoImage THEN Kind(slot) ELSE Kind(image.slot)
      first  == IF kind = "missing"
                THEN [verdict |-> "Rejected", lines |-> <<"cannot read">>, failed |-> FALSE]
                ELSE JudgeRecordHeader(kind)
      asks   == first.verdict # "Accepted" /\ image = NoImage
      copied == asks /\ MirrorKind(slot) # "missing"
      mirror == JudgeRecordHeader(MirrorKind(slot))
      stands == copied /\ mirror.verdict = "Accepted"
      again  == asks /\ ~stands /\ first.verdict = "Salvaged"
      ok     == stands \/ first.verdict # "Rejected"
  IN  [ok      |-> ok,
       read    |-> kind # "missing" \/ ok,
       whole   |-> image = NoImage \/ image.whole,
       kind    |-> IF stands THEN MirrorKind(slot) ELSE kind,
       slot    |-> IF image = NoImage THEN slot ELSE image.slot,
       failed  |-> first.failed,
       lines   |-> first.lines \o (IF copied THEN mirror.lines ELSE <<>>)
                     \o (IF stands THEN <<"mirror">> ELSE <<>>)
                     \o (IF again THEN first.lines ELSE <<>>)
                     \o (IF ok THEN <<"found">> ELSE <<>>)]

-----------------------------------------------------------------------------
(* The reader's side.  A range is a set of units, slots of $MFT or, with a *)
(* block cache, blocks of world.block slots.  standing: the standing lane; *)
(* cache: the blocks that the cache holds.                                 *)
NewDisk == [standing |-> {}, cache |-> {}]

Cached   == world.block # 0
UnitOf(slot) == IF Cached THEN slot \div world.block ELSE slot

(* The clusters that hold a mapped slot of the run.                        *)
MappedClusters(first, count) ==
  IF first < FirstUser \/ first >= world.end THEN {}
  ELSE LET last == Min({first + count, world.end}) - 1
       IN  first - (first % world.perCluster)
             .. last + world.perCluster - 1 - (last % world.perCluster)

UnitsOf(first, count) == {UnitOf(s) : s \in MappedClusters(first, count)}

(* The stretches of a range that no block of the cache interrupts.         *)
Stretches(units) ==
  {r \in {a .. b : a, b \in units} :
     r # {} /\ r \subseteq units /\ Min(r) - 1 \notin units /\ Max(r) + 1 \notin units}

(* AnnounceRuns: a block that the cache holds is not announced.            *)
AnnounceRuns(disk, first, count) ==
  Stretches(UnitsOf(first, count) \ disk.cache)

(* CancelStanding: every range that overlaps the run goes.                 *)
CancelStanding(disk, first, count) ==
  [disk EXCEPT !.standing = {r \in @ : r \cap UnitsOf(first, count) = {}}]

(* A run that was announced right before it is read takes the standing     *)
(* ranges that are exactly the ones it reads; the first lane has the rest. *)
ReadSlotsFrom(disk, first, count) ==
  [standing |-> disk.standing \ AnnounceRuns(disk, first, count),
   cache    |-> IF Cached THEN disk.cache \cup UnitsOf(first, count) ELSE {}]

(* A record read alone is not announced: a standing range that holds its   *)
(* cluster serves it, and is used up when the cluster is the end of it.    *)
ReadRecordFrom(disk, slot) ==
  LET units == UnitsOf(slot, 1) \ disk.cache
  IN  [standing |-> {r \in disk.standing :
                       ~(units # {} /\ units \subseteq r /\ Max(r) \in units)},
       cache    |-> IF Cached THEN disk.cache \cup units ELSE {}]

(* ReadMftSlots: all of the slots are read, or none is.                    *)
ReadMftSlots(first, count) ==
  first >= FirstUser /\ \A s \in first .. first + count - 1 : Readable(s)
=============================================================================
