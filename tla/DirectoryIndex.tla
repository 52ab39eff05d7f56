--------------------------- MODULE DirectoryIndex ---------------------------
(***************************************************************************)
(* The index of a directory and the walk of its entries                    *)
(* (io/file-record-index).  world.index[d] is the index of directory d:    *)
(* the entries of its $INDEX_ROOT, its blocks by VCN, and how many blocks  *)
(* its $INDEX_ALLOCATION declares.  A block is "ok", "damaged" (it does    *)
(* not parse), "sparse" or "bad" (the disk does not read it).  An entry    *)
(* names a record (ref, or None) under a sequence number, leads to a       *)
(* sub-node (sub, or None), and is filed under this directory or another.  *)
(***************************************************************************)
EXTENDS VolumeImage

CONSTANTS None,        (* no record, no sub-node *)
          MaxDepth     (* max_index_block_depth: levels the walk goes down *)

IndexOf(dir) ==
  IF dir \in DOMAIN world.index THEN world.index[dir]
  ELSE [root |-> <<>>, blocks |-> Empty, declared |-> 0]

HasName(entry)     == entry.ref # None
IsSubNodePtr(entry) == entry.sub # None

NotHeld == [state |-> "not held", entries |-> <<>>]

(* ParseIndexBlock: from the held bytes of this very block, else the disk. *)
BlockOnDisk(dir, vcn) ==
  IF vcn \in DOMAIN IndexOf(dir).blocks THEN IndexOf(dir).blocks[vcn]
  ELSE [state |-> "bad", entries |-> <<>>]

ParseIndexBlock(store, dir, vcn) ==
  LET held == PeekBlock(store, dir, vcn, NotHeld)
  IN  IF held = NotHeld THEN BlockOnDisk(dir, vcn) ELSE held

(* The records that the entries of a node name.                            *)
NamedRecordsOf(entries) ==
  LET named == SelectSeq(entries, HasName)
  IN  [i \in DOMAIN named |-> named[i].ref]

ProbeNode(entries)  == <<[what |-> "probe", refs |-> NamedRecordsOf(entries)]>>
Deliver(entry)      == <<[what |-> "deliver", entry |-> entry]>>
NoteBlock(vcn)      == <<[what |-> "block fails", vcn |-> vcn]>>

-----------------------------------------------------------------------------
(* The walk of one directory as the list of what it does: a node is probed *)
(* before its entries, and the sub-node of an entry is walked before the   *)
(* entry is delivered.  A sub-node is walked once, and not too deep.       *)
RECURSIVE WalkEntries(_, _, _, _, _)
WalkEntries(store, dir, entries, depth, walk) ==
  LET Sub(vcn, met) ==
        LET block == ParseIndexBlock(store, dir, vcn)
            seen  == [met EXCEPT !.visited = @ \cup {vcn}]
        IN  IF depth >= MaxDepth \/ vcn \in met.visited THEN met
            ELSE IF block.state # "ok"
                 THEN [seen EXCEPT !.events = @ \o NoteBlock(vcn)]
                 ELSE WalkEntries(store, dir, block.entries, depth + 1, seen)
      Step(met, entry) ==
        LET below == IF IsSubNodePtr(entry) THEN Sub(entry.sub, met) ELSE met
        IN  IF HasName(entry) THEN [below EXCEPT !.events = @ \o Deliver(entry)]
            ELSE below
  IN  FoldLeft(Step, [walk EXCEPT !.events = @ \o ProbeNode(entries)], entries)

(* How many blocks the orphan scan visits, at most those that are mapped.  *)
ScanLimit(dir) == Min({IndexOf(dir).declared, Cardinality(DOMAIN IndexOf(dir).blocks)})

(* The blocks that nothing led to, in VCN order: only the entries that are *)
(* filed under this directory count.                                       *)
ScanOrphanedIndexBlocks(store, dir, walk) ==
  LET Report(met, vcn) ==
        LET block == ParseIndexBlock(store, dir, vcn)
            own   == SelectSeq(block.entries, LAMBDA e : HasName(e) /\ e.filed)
        IN  IF vcn \in met.visited THEN met
            ELSE IF block.state # "ok" THEN [met EXCEPT !.events = @ \o NoteBlock(vcn)]
            ELSE [met EXCEPT !.events = @ \o ProbeNode(own)
                                          \o FlattenSeq([i \in DOMAIN own |-> Deliver(own[i])])]
  IN  FoldLeft(Report, walk, [i \in 1 .. ScanLimit(dir) |-> i - 1])

Walk(store, dir) ==
  LET walked == WalkEntries(store, dir, IndexOf(dir).root, 0,
                            [events |-> <<>>, visited |-> {}])
  IN  IF world.recover THEN ScanOrphanedIndexBlocks(store, dir, walked).events
      ELSE walked.events

-----------------------------------------------------------------------------
(* The sub-nodes of the root, each once; none when there is no block.      *)
RootChildBlocks(dir) ==
  FoldLeft(LAMBDA vcns, e :
             IF IsSubNodePtr(e) /\ e.sub \notin ToSet(vcns) THEN Append(vcns, e.sub) ELSE vcns,
           <<>>, IF IndexOf(dir).blocks = Empty THEN <<>> ELSE IndexOf(dir).root)

(* The groups that the walk will probe, as far as the blocks are held.     *)
RECURSIVE CollectProbeGroups(_, _, _, _, _)
CollectProbeGroups(store, dir, entries, depth, walk) ==
  LET refs == NamedRecordsOf(entries)
      Sub(met, vcn) ==
        LET block == PeekBlock(store, dir, vcn, NotHeld)
            seen  == [met EXCEPT !.visited = @ \cup {vcn}]
        IN  IF depth >= MaxDepth \/ vcn \in met.visited THEN met
            ELSE IF block.state # "ok" THEN seen
            ELSE CollectProbeGroups(store, dir, block.entries, depth + 1, seen)
  IN  FoldLeft(LAMBDA met, e : IF IsSubNodePtr(e) THEN Sub(met, e.sub) ELSE met,
               IF refs = <<>> THEN walk ELSE [walk EXCEPT !.groups = Append(@, refs)],
               entries)

HeldProbeGroups(store, dir) ==
  CollectProbeGroups(store, dir, IndexOf(dir).root, 0,
                     [groups |-> <<>>, visited |-> {}]).groups

-----------------------------------------------------------------------------
(* Whether the walk hides an entry, and how the record it names stands.    *)
IsHiddenGiven(named, entry) ==
  IF ~named.parsed THEN ~world.recover
  ELSE /\ ~world.includeDeleted
       /\ named.deleted \/ named.sequence # entry.seq

StandingOf(named, entry) ==
  IF ~named.parsed THEN "Unreadable"
  ELSE IF named.deleted THEN "Deleted"
  ELSE IF entry.seq # 0 /\ entry.seq # named.sequence THEN "Reused"
  ELSE "Live"
=============================================================================
