---------------------------- MODULE RecordKeeper ----------------------------
(***************************************************************************)
(* What a recursive listing remembers of the records it read               *)
(* (io/record-window, io/record-memo, RecordKeeper and HeldStore of        *)
(* io/read-ahead-held.h).  A size is counted in records; the bytes of a    *)
(* record are an image: the slot they were read from, and whether they are *)
(* the whole record or the few words that the memo rebuilds for a probe.   *)
(***************************************************************************)
EXTENDS Integers, Sequences, SequencesExt, FiniteSetsExt, Functions, TLC

CONSTANT NoImage       (* no bytes: an empty span *)

Whole(slot)   == [slot |-> slot, whole |-> TRUE]
Rebuilt(slot) == [slot |-> slot, whole |-> FALSE]
Empty         == [x \in {} |-> x]

-----------------------------------------------------------------------------
(* The window: the last runs read, with the place of the newest copy of    *)
(* every record as the serial number of its run and an index in it.        *)
EmptyWindow(budget) ==
  [budget |-> budget, held |-> 0, firstSerial |-> 0, runs |-> <<>>, places |-> Empty]

WindowFind(win, slot) ==
  IF slot \notin DOMAIN win.places THEN NoImage
  ELSE LET place == win.places[slot]
       IN  win.runs[place.serial - win.firstSerial + 1].bytes[place.index + 1]

(* A record kept twice goes with the first run that held it.               *)
DropOldestForgetsFault(win) ==
  DOMAIN win.places \cap
    (win.runs[1].first .. win.runs[1].first + Len(win.runs[1].bytes) - 1)

(* The places of the oldest run go, but those a newer run took over.       *)
DropOldestForgets(win) ==
  {s \in DOMAIN win.places :
     /\ s \in win.runs[1].first .. win.runs[1].first + Len(win.runs[1].bytes) - 1
     /\ win.places[s].serial = win.firstSerial}

DropOldest(win) ==
  [win EXCEPT !.places      = Restrict(@, DOMAIN @ \ DropOldestForgets(win)),
              !.held        = @ - Len(win.runs[1].bytes),
              !.runs        = Tail(@),
              !.firstSerial = @ + 1]

(* Room is made by dropping as many of the oldest runs as it takes.        *)
MadeRoom(win, size) ==
  LET Dropped[n \in 0 .. Len(win.runs)] ==
        IF n = 0 THEN win ELSE DropOldest(Dropped[n - 1])
  IN  Dropped[Min({n \in 0 .. Len(win.runs) : Dropped[n].held + size <= win.budget})]

WindowPut(win, first, bytes) ==
  IF bytes = <<>> \/ Len(bytes) > win.budget THEN win
  ELSE LET room   == MadeRoom(win, Len(bytes))
           serial == room.firstSerial + Len(room.runs)
           fresh  == [s \in first .. first + Len(bytes) - 1 |->
                        [serial |-> serial, index |-> s - first]]
       IN  [room EXCEPT !.runs   = Append(@, [first |-> first, bytes |-> bytes]),
                        !.held   = @ + Len(bytes),
                        !.places = fresh @@ @]

-----------------------------------------------------------------------------
(* The memo: a table of places, a record in the place of its number modulo *)
(* the entries.  A record that a probe cannot be rebuilt of clears its own *)
(* place and leaves that of another record alone.                          *)
EmptyMemo(entries) == [e \in 0 .. entries - 1 |-> [marker |-> 0, image |-> NoImage]]

MemoPutOne(memo, image, judgeable) ==
  LET at     == image.slot % Cardinality(DOMAIN memo)
      marker == image.slot + 1
  IN  IF judgeable
      THEN [memo EXCEPT ![at] = [marker |-> marker, image |-> Rebuilt(image.slot)]]
      ELSE IF memo[at].marker = marker THEN [memo EXCEPT ![at].marker = 0] ELSE memo

MemoPut(memo, bytes, judgeable) ==
  IF memo = Empty THEN memo
  ELSE FoldLeft(LAMBDA m, image : MemoPutOne(m, image, image.slot \in judgeable),
                memo, bytes)

MemoFind(memo, slot) ==
  IF memo # Empty /\ memo[slot % Cardinality(DOMAIN memo)].marker = slot + 1
  THEN memo[slot % Cardinality(DOMAIN memo)].image
  ELSE NoImage

-----------------------------------------------------------------------------
(* The keeper: a probe takes the window's bytes, else the memo's; a record *)
(* that is parsed whole is only found in the window.                       *)
Enabled(keeper)       == keeper.window.budget # 0 \/ keeper.memo # Empty
WindowEnabled(keeper) == keeper.window.budget # 0

FindInWindow(keeper, slot) == WindowFind(keeper.window, slot)

FindForProbe(keeper, slot) ==
  LET found == WindowFind(keeper.window, slot)
  IN  IF found # NoImage THEN found ELSE MemoFind(keeper.memo, slot)

KeepRun(keeper, first, count, judgeable) ==
  LET bytes == [i \in 1 .. count |-> Whole(first + i - 1)]
  IN  [window |-> WindowPut(keeper.window, first, bytes),
       memo   |-> MemoPut(keeper.memo, bytes, judgeable)]

-----------------------------------------------------------------------------
(* The held store: the record and the index blocks of each directory that  *)
(* was read ahead, and the bytes of all of them.                           *)
EmptyStore == [held |-> Empty, bytes |-> 0]

Contained(store, dir)         == dir \in DOMAIN store.held
ContainsBlock(store, dir, vcn) == Contained(store, dir) /\ vcn \in DOMAIN store.held[dir].blocks
HasRecord(store, dir)         == Contained(store, dir) /\ store.held[dir].record # NoImage

NothingHeld == [record |-> NoImage, blocks |-> Empty]
HeldFor(store, dir) == IF Contained(store, dir) THEN store.held[dir] ELSE NothingHeld

ServeRecord(store, dir) == HeldFor(store, dir).record
PeekBlock(store, dir, vcn, none) ==
  IF ContainsBlock(store, dir, vcn) THEN store.held[dir].blocks[vcn] ELSE none

HoldRecord(store, dir, image) ==
  [held  |-> (dir :> [HeldFor(store, dir) EXCEPT !.record = image]) @@ store.held,
   bytes |-> store.bytes + 1]

HoldBlock(store, dir, vcn, block, size) ==
  [held  |-> (dir :> [HeldFor(store, dir) EXCEPT !.blocks = (vcn :> block) @@ @])
               @@ store.held,
   bytes |-> store.bytes + size]

BytesOf(store, dir, size) ==
  LET held == HeldFor(store, dir)
  IN  (IF held.record = NoImage THEN 0 ELSE 1) + size * Cardinality(DOMAIN held.blocks)

(* A directory without a held record is taken for one that holds nothing.  *)
ReleaseHeldFault(store, dir, size) ==
  IF ~HasRecord(store, dir) THEN store
  ELSE [held  |-> Restrict(store.held, DOMAIN store.held \ {dir}),
        bytes |-> store.bytes - BytesOf(store, dir, size)]

ReleaseHeld(store, dir, size) ==
  IF ~Contained(store, dir) THEN store
  ELSE [held  |-> Restrict(store.held, DOMAIN store.held \ {dir}),
        bytes |-> store.bytes - BytesOf(store, dir, size)]
=============================================================================
