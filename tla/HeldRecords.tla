---------------------------- MODULE HeldRecords ----------------------------
(***************************************************************************)
(* Mft::HeldRecords (src/mft/held-records.h): the raw $MFT records a scan  *)
(* keeps between its first pass and its second. A base record that waits   *)
(* for the second pass, and the extension records it will ask for, share   *)
(* one budget of slots. An extension met before its base is held           *)
(* provisionally, under that base, until the base turns out to wait or not.*)
(*                                                                         *)
(* The budget is counted in records. What a slot holds is the number of    *)
(* the record whose bytes were copied into it; blocks_, which cuts the     *)
(* slots into allocations, is left out. Which free slot is used again is   *)
(* not fixed: the code takes the one released last.                        *)
(***************************************************************************)
EXTENDS Naturals, Sequences, FiniteSets, Selection

CONSTANTS
  RecordCount,   \* the record slots of $MFT
  Budget,        \* the records held at most
  None           \* no slot, no base, no record

ASSUME HeldAssumption ==
  /\ RecordCount \in Nat
  /\ Budget \in Nat
  /\ None \notin Nat

Records == 0..(RecordCount - 1)
\* A damaged record may name a base that $MFT does not have.
Bases == 0..RecordCount
Slots == 0..(Budget - 1)

VARIABLES
  allocated,    \* slots given out so far, free ones included
  live,         \* slots in use
  free_slots,   \* slots Release() gave back
  content,      \* the record each slot holds the bytes of
  extensions,   \* the slot of each held extension record, or None
  pending,      \* the extensions met before their base, by that base
  waiting,      \* the base records that wait, in the order they were met
  record,       \* the slot the scan is at, or None
  fresh,        \* nothing was done with that slot yet
  ended,        \* Finish() was called
  met           \* history: the base of each extension met, or None

store == <<allocated, live, free_slots, content>>
held == <<store, extensions, pending, waiting>>
vars == <<held, record, fresh, ended, met>>

Init ==
  /\ allocated = 0
  /\ live = 0
  /\ free_slots = {}
  /\ content = [s \in Slots |-> None]
  /\ extensions = [r \in Records |-> None]
  /\ pending = [b \in Bases |-> <<>>]
  /\ waiting = <<>>
  /\ record = None
  /\ fresh = FALSE
  /\ ended = FALSE
  /\ met = [r \in Records |-> None]

----------------------------------------------------------------------------
(* The slots. *)

\* A fault: the budget is compared with the slots in use before this one.
RoomFault == live <= Budget

\* Whether one more slot fits in the budget.
Room == live + 1 <= Budget

\* The slots Store() may use. None when bytes is not a record (whole is FALSE)
\* or the budget is spent.
Places(whole) ==
  IF ~whole THEN {None}
  ELSE IF free_slots # {} THEN free_slots
  ELSE IF Room THEN {allocated}
  ELSE {None}

\* Store(): record r is copied into slot s, unless there is none.
Store(r, s) ==
  IF s = None
  THEN UNCHANGED store
  ELSE /\ content' = [content EXCEPT ![s] = r]
       /\ free_slots' = free_slots \ {s}
       /\ allocated' = IF s = allocated THEN allocated + 1 ELSE allocated
       /\ live' = live + 1

\* The slots of the provisional extensions of the bases bs.
SlotsPending(bs) ==
  (UNION {{pending[b][i].slot : i \in DOMAIN pending[b]} : b \in bs}) \ {None}

\* live_ once slots are given back.
LiveWithout(slots) == live - Cardinality(slots)

\* Release() of everything that waits for the bases bs.
Release(bs) ==
  /\ free_slots' = free_slots \cup SlotsPending(bs)
  /\ live' = LiveWithout(SlotsPending(bs))
  /\ pending' = [b \in Bases |-> IF b \in bs THEN <<>> ELSE pending[b]]
  /\ UNCHANGED <<allocated, content>>

----------------------------------------------------------------------------
(* The operations, as the scan calls them. whole says that the slot reader *)
(* holds the bytes of the record.                                          *)

\* The bases that precede record r: they did not wait.
Passed(r) == {b \in Bases : b < r}

ReleaseBefore(r) ==
  /\ Release(Passed(r))
  /\ record' = r
  /\ fresh' = TRUE
  /\ UNCHANGED <<extensions, waiting, ended, met>>

\* The waiting records numbered base: FindWaiting().
FindWaiting(base) == {i \in DOMAIN waiting : waiting[i].record = base}

\* A fault: the last extension listed comes first.
ListedFault(w, r) == [w EXCEPT !.unheld_extensions = <<r>> \o @]

\* The waiting record w, which reads extension r from the disk.
Listed(w, r) == [w EXCEPT !.unheld_extensions = Append(@, r)]

\* An extension of an earlier base: kept when that base waits.
MeetLater(r, base, whole) ==
  \/ /\ FindWaiting(base) = {}
     /\ UNCHANGED <<store, extensions, waiting>>
  \/ \E i \in FindWaiting(base), s \in Places(whole) :
       /\ Store(r, s)
       /\ extensions' = [extensions EXCEPT ![r] = s]
       /\ waiting' = IF s = None
                     THEN [waiting EXCEPT ![i] = Listed(waiting[i], r)]
                     ELSE waiting

\* An extension of a base to come: held provisionally.
MeetFirst(r, base, whole) ==
  \E s \in Places(whole) :
    /\ Store(r, s)
    /\ pending' = [pending EXCEPT ![base] = Append(@, [record |-> r, slot |-> s])]

\* MeetExtension(): an extension that names itself has no base to ask for it.
MeetExtension(r, base, whole) ==
  /\ \/ /\ base < r
        /\ MeetLater(r, base, whole)
        /\ UNCHANGED pending
     \/ /\ base = r
        /\ UNCHANGED held
     \/ /\ base > r
        /\ MeetFirst(r, base, whole)
        /\ UNCHANGED <<extensions, waiting>>
  /\ fresh' = FALSE
  /\ met' = [met EXCEPT ![r] = base]
  /\ UNCHANGED <<record, ended>>

\* A fault: what is kept for one base is kept again.
TakenPendingFault(base) == pending

\* TakePending(): nothing waits for base any more.
TakenPending(base) == [pending EXCEPT ![base] = <<>>]

\* The held extensions once those that waited for base are among them.
Kept(base) ==
  [r \in Records |->
     IF \E i \in DOMAIN pending[base] : pending[base][i].record = r
     THEN (CHOOSE p \in {pending[base][i] : i \in DOMAIN pending[base]} :
             p.record = r).slot
     ELSE extensions[r]]

\* The extensions among ps that have no slot, by their record.
WithoutSlot == [record : Records, slot : {None}]
Numbers(ps) == [i \in DOMAIN ps |-> ps[i].record]
Unheld(ps) == Numbers(Select(ps, WithoutSlot))

\* HoldWaiting(): base record r waits. Keep() is given no bytes for the
\* extensions met before it, so one that has no slot is not stored now.
HoldWaiting(r) ==
  /\ \E s \in Places(TRUE) :
       /\ Store(r, s)
       /\ waiting' = Append(waiting,
            [record |-> r, slot |-> s,
             unheld_extensions |-> Unheld(pending[r])])
  /\ extensions' = Kept(r)
  /\ pending' = TakenPending(r)
  /\ fresh' = FALSE
  /\ UNCHANGED <<record, ended, met>>

\* Confirm(): base record r, whose bytes are not held, is parsed at once.
Confirm(r) ==
  /\ extensions' = Kept(r)
  /\ pending' = TakenPending(r)
  /\ fresh' = FALSE
  /\ UNCHANGED <<store, waiting, record, ended, met>>

\* Finish(): no base record is left to come.
Finish ==
  /\ Release(Bases)
  /\ ended' = TRUE
  /\ UNCHANGED <<extensions, waiting, record, fresh, met>>

----------------------------------------------------------------------------
(* What a scan may do: it goes through the record slots in increasing      *)
(* order, makes at most one call for each, and ends.                       *)

Position == IF record = None THEN 0 ELSE record + 1

Next ==
  \/ \E r \in Records :
       ~ended /\ Position <= r /\ ReleaseBefore(r)
  \/ /\ ~ended /\ fresh
     /\ \/ \E base \in Bases, whole \in BOOLEAN : MeetExtension(record, base, whole)
        \/ HoldWaiting(record)
        \/ Confirm(record)
  \/ ~ended /\ Finish

Spec == Init /\ [][Next]_vars
----------------------------------------------------------------------------
(* Properties. *)

SlotOrNone == Slots \cup {None}
Provisional == [record : Records, slot : SlotOrNone]
Waiting == [record : Records, slot : SlotOrNone, unheld_extensions : Seq(Records)]

\* The type of the state.
TypeOK ==
  /\ allocated \in 0..Budget
  /\ live \in 0..Budget
  /\ free_slots \subseteq Slots
  /\ content \in [Slots -> Records \cup {None}]
  /\ extensions \in [Records -> SlotOrNone]
  /\ pending \in [Bases -> Seq(Provisional)]
  /\ waiting \in Seq(Waiting)
  /\ record \in Records \cup {None}
  /\ fresh \in BOOLEAN
  /\ ended \in BOOLEAN
  /\ met \in [Records -> Bases \cup {None}]

\* Every use of a slot: by which record, and where from.
Uses ==
  {[slot |-> extensions[r], record |-> r, from |-> "extension"] :
     r \in {r \in Records : extensions[r] # None}}
  \cup {[slot |-> waiting[i].slot, record |-> waiting[i].record, from |-> "waiting"] :
     i \in {i \in DOMAIN waiting : waiting[i].slot # None}}
  \cup UNION {{[slot |-> p.slot, record |-> p.record, from |-> "pending"] :
     p \in {p \in {pending[b][i] : i \in DOMAIN pending[b]} : p.slot # None}} :
     b \in Bases}

\* A slot in use holds the bytes of the record it is used for: none is
\* released, and then used again, while a record still points at it.
SlotsHoldTheirRecord ==
  \A u \in Uses : content[u.slot] = u.record /\ u.slot \notin free_slots

\* No slot is lost: each slot given out is free or in use, and live_, which the
\* budget is checked against, counts the ones in use.
NoSlotLost ==
  /\ {u.slot : u \in Uses} \cup free_slots = 0..(allocated - 1)
  /\ live = Cardinality({u.slot : u \in Uses})

\* Each slot is either free or of one record, and counted so.
SlotsAccounted == SlotsHoldTheirRecord /\ NoSlotLost

\* The extensions met of base r, itself left out.
ExtensionsOf(r) == {e \in Records : met[e] = r /\ e # r}

\* The second pass misses no extension: each one met of a waiting base is held,
\* or listed for the disk read, and not both.
ExtensionsKnown ==
  \A i \in DOMAIN waiting :
    LET listed == {waiting[i].unheld_extensions[j] :
                     j \in DOMAIN waiting[i].unheld_extensions}
    IN  ExtensionsOf(waiting[i].record) =
          listed \cup {e \in ExtensionsOf(waiting[i].record) : extensions[e] # None}
        /\ \A e \in listed : extensions[e] = None

\* The second pass reads the listed extensions run by run, and looks waiting
\* records up by bisection: both need the increasing order.
InRecordOrder ==
  /\ \A i, j \in DOMAIN waiting :
       i < j => waiting[i].record < waiting[j].record
  /\ \A w \in DOMAIN waiting :
       \A i, j \in DOMAIN waiting[w].unheld_extensions :
         i < j => waiting[w].unheld_extensions[i] < waiting[w].unheld_extensions[j]

\* Nothing is held that nobody can ask for: an extension held under a base that
\* is yet to come is the only kind that may turn out useless, and once the
\* first pass is over there is none.
NothingStale ==
  /\ \A b \in Bases : pending[b] # <<>> => record # None /\ b >= record
  /\ ended => \A b \in Bases : pending[b] = <<>>

\* What the second pass is handed: all the extensions of each waiting record,
\* in the order it reads them, and nothing else.
SecondPassKnows == ExtensionsKnown /\ InRecordOrder /\ NothingStale
=============================================================================
