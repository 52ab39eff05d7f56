------------------------- MODULE HeldRecordsProofs -------------------------
(***************************************************************************)
(* Proofs about HeldRecords, for any number of records and any budget.     *)
(*                                                                         *)
(* The invariant they rest on says, of every record, where it stands: a    *)
(* record the scan has not reached is nowhere, one that was met as an      *)
(* extension is under its base or held, one that waits was not met. So a   *)
(* record is in one place, which is why a slot given back is in none.      *)
(***************************************************************************)
EXTENDS HeldRecords, SelectionProofs

\* The scan is past record r, or made its call for it.
Reached(r) == record # None /\ (r < record \/ (r = record /\ ~fresh))

\* Extension r waits for base b, in slot s.
PendingIn(b, r, s) ==
  \E i \in DOMAIN pending[b] : pending[b][i].record = r /\ pending[b][i].slot = s

\* Base record r waits for the second pass, in slot s.
WaitsIn(r, s) ==
  \E i \in DOMAIN waiting : waiting[i].record = r /\ waiting[i].slot = s

\* Slot s is used for record r.
Holds(s, r) ==
  \/ extensions[r] = s
  \/ WaitsIn(r, s)
  \/ \E b \in Bases : PendingIn(b, r, s)

Used == {s \in Slots : \E r \in Records : Holds(s, r)}

\* Only what the scan reached is known.
KnownAreReached ==
  /\ fresh => record # None
  /\ \A r \in Records : met[r] # None => Reached(r)
  /\ \A r \in Records : extensions[r] # None => met[r] # None
  /\ \A i \in DOMAIN waiting :
       Reached(waiting[i].record) /\ met[waiting[i].record] = None

\* An extension that waits for a base does so for the one it named, which is
\* to come, and is held nowhere else.
PendingAreMet ==
  \A b \in Bases : \A i \in DOMAIN pending[b] :
    /\ met[pending[b][i].record] = b
    /\ pending[b][i].record < b
    /\ extensions[pending[b][i].record] = None

\* They wait in the order they were met in.
PendingInOrder ==
  \A b \in Bases : \A i, j \in DOMAIN pending[b] :
    i < j => pending[b][i].record < pending[b][j].record

\* Every extension of a base to come waits for it.
NonePassedOver ==
  ~ended => \A b \in Bases : \A e \in ExtensionsOf(b) :
    ~Reached(b) => \E i \in DOMAIN pending[b] : pending[b][i].record = e

\* The accounts, by Holds.
HeldRight ==
  \A s \in Slots, r \in Records : Holds(s, r) => content[s] = r /\ s \notin free_slots
AllAccounted ==
  /\ Used \cup free_slots = 0..(allocated - 1)
  /\ live = Cardinality(Used)

WhereTheyStand == KnownAreReached /\ PendingAreMet /\ PendingInOrder /\ NonePassedOver
Accounts == HeldRight /\ AllAccounted

\* Extension e is listed for the disk read of the waiting record at i.
IsListed(i, e) ==
  \E j \in DOMAIN waiting[i].unheld_extensions : waiting[i].unheld_extensions[j] = e

\* ExtensionsKnown, extension by extension.
KnownOneWay ==
  \A i \in DOMAIN waiting :
    /\ \A e \in Records :
         IsListed(i, e) => e \in ExtensionsOf(waiting[i].record) /\ extensions[e] = None
    /\ \A e \in ExtensionsOf(waiting[i].record) : extensions[e] = None => IsListed(i, e)

Handed == KnownOneWay /\ InRecordOrder /\ NothingStale

IInv == TypeOK /\ WhereTheyStand /\ Accounts /\ Handed
----------------------------------------------------------------------------
(* The slots. *)

\* What is used is what Holds() says.
LEMMA UsesAreHeld ==
  ASSUME TypeOK
  PROVE  /\ \A u \in Uses : /\ u.slot \in Slots /\ u.record \in Records
                            /\ Holds(u.slot, u.record)
         /\ \A s \in Slots, r \in Records :
              Holds(s, r) => \E u \in Uses : u.slot = s /\ u.record = r
<1> DEFINE E == {[slot |-> extensions[r], record |-> r, from |-> "extension"] :
                   r \in {r \in Records : extensions[r] # None}}
           W == {[slot |-> waiting[i].slot, record |-> waiting[i].record, from |-> "waiting"] :
                   i \in {i \in DOMAIN waiting : waiting[i].slot # None}}
           P == UNION {{[slot |-> p.slot, record |-> p.record, from |-> "pending"] :
                   p \in {p \in {pending[b][i] : i \in DOMAIN pending[b]} : p.slot # None}} :
                   b \in Bases}
<1>1. Uses = E \cup W \cup P
  BY DEF Uses
<1>2. \A u \in E : u.slot \in Slots /\ u.record \in Records /\ Holds(u.slot, u.record)
  BY DEF TypeOK, SlotOrNone, Holds
<1>3. \A u \in W : u.slot \in Slots /\ u.record \in Records /\ Holds(u.slot, u.record)
  <2> SUFFICES ASSUME NEW i \in DOMAIN waiting, waiting[i].slot # None
               PROVE  /\ waiting[i].slot \in Slots /\ waiting[i].record \in Records
                      /\ Holds(waiting[i].slot, waiting[i].record)
    OBVIOUS
  <2>1. waiting[i] \in Waiting
    BY DEF TypeOK
  <2> QED
    BY <2>1 DEF Waiting, SlotOrNone, Holds, WaitsIn
<1>4. \A u \in P : u.slot \in Slots /\ u.record \in Records /\ Holds(u.slot, u.record)
  <2> SUFFICES ASSUME NEW b \in Bases, NEW i \in DOMAIN pending[b], pending[b][i].slot # None
               PROVE  /\ pending[b][i].slot \in Slots /\ pending[b][i].record \in Records
                      /\ Holds(pending[b][i].slot, pending[b][i].record)
    OBVIOUS
  <2>1. pending[b][i] \in Provisional
    BY DEF TypeOK
  <2> QED
    BY <2>1 DEF Provisional, SlotOrNone, Holds, PendingIn
<1>5. ASSUME NEW s \in Slots, NEW r \in Records, Holds(s, r)
      PROVE  \E u \in E \cup W \cup P : u.slot = s /\ u.record = r
  <2>1. s # None
    BY HeldAssumption DEF Slots
  <2>2. CASE extensions[r] = s
    <3>1. [slot |-> s, record |-> r, from |-> "extension"] \in E
      BY <2>1, <2>2
    <3> HIDE DEF E, W, P
    <3> QED
      BY <3>1
  <2>3. CASE WaitsIn(r, s)
    <3>1. PICK i \in DOMAIN waiting : waiting[i].record = r /\ waiting[i].slot = s
      BY <2>3 DEF WaitsIn
    <3>2. [slot |-> s, record |-> r, from |-> "waiting"] \in W
      BY <2>1, <3>1
    <3> HIDE DEF E, W, P
    <3> QED
      BY <3>2
  <2>4. CASE \E b \in Bases : PendingIn(b, r, s)
    <3>1. PICK b \in Bases : \E i \in DOMAIN pending[b] :
            pending[b][i].record = r /\ pending[b][i].slot = s
      BY <2>4 DEF PendingIn
    <3>2. PICK i \in DOMAIN pending[b] : pending[b][i].record = r /\ pending[b][i].slot = s
      BY <3>1
    <3>3. [slot |-> s, record |-> r, from |-> "pending"] \in P
      BY <2>1, <3>2
    <3> HIDE DEF E, W, P
    <3> QED
      BY <3>3
  <2> QED
    BY <1>5, <2>2, <2>3, <2>4 DEF Holds
<1> HIDE DEF E, W, P
<1> QED
  BY <1>1, <1>2, <1>3, <1>4, <1>5

\* The accounts by Holds are the accounts.
LEMMA AccountsSlots ==
  ASSUME TypeOK, Accounts
  PROVE  SlotsAccounted
<1>1. {u.slot : u \in Uses} = Used
  BY UsesAreHeld DEF Used
<1>2. SlotsHoldTheirRecord
  BY UsesAreHeld DEF SlotsHoldTheirRecord, Accounts, HeldRight
<1> QED
  BY <1>1, <1>2 DEF SlotsAccounted, NoSlotLost, Accounts, AllAccounted

\* There are as many slots as the budget allows.
LEMMA SlotsCounted ==
  ASSUME NEW S, S \subseteq Slots
  PROVE  IsFiniteSet(S) /\ Cardinality(S) \in 0..Budget
<1>1. IsFiniteSet(Slots) /\ Cardinality(Slots) = Budget
  BY HeldAssumption, FS_Interval DEF Slots
<1> QED
  BY <1>1, HeldAssumption, FS_Subset, FS_CardinalityType

\* A slot Store() may use is in no use, and fits in the budget.
LEMMA PlaceIsFree ==
  ASSUME TypeOK, Accounts, NEW whole \in BOOLEAN, NEW s \in Places(whole), s # None
  PROVE  /\ s \in Slots /\ s \notin Used
         /\ \/ s \in free_slots /\ s # allocated
            \/ s = allocated /\ free_slots = {} /\ allocated + 1 <= Budget
<1>1. CASE s \in free_slots
  BY <1>1, HeldAssumption DEF TypeOK, Accounts, HeldRight, AllAccounted, Used, Slots
<1>2. CASE s \notin free_slots
  <2>1. s = allocated /\ free_slots = {} /\ Room
    BY <1>2 DEF Places
  <2>2. Used = 0..(allocated - 1)
    BY <2>1 DEF Accounts, AllAccounted
  <2>3. Cardinality(Used) = allocated
    BY <2>2, FS_Interval DEF TypeOK
  <2> QED
    BY <2>1, <2>2, <2>3, HeldAssumption DEF Room, TypeOK, Accounts, AllAccounted, Slots
<1> QED
  BY <1>1, <1>2

\* One record more is held, in slot s unless that is None.
LEMMA StoreAccounts ==
  ASSUME TypeOK, Accounts, NEW whole \in BOOLEAN, NEW s \in Places(whole),
         NEW r \in Records, Store(r, s),
         \A x \in Slots, e \in Records : Holds(x, e)' <=> (Holds(x, e) \/ (x = s /\ e = r))
  PROVE  /\ Accounts'
         /\ allocated' \in 0..Budget /\ live' \in 0..Budget /\ free_slots' \subseteq Slots
         /\ content' \in [Slots -> Records \cup {None}]
<1>1. CASE s = None
  <2>1. UNCHANGED store
    BY <1>1 DEF Store
  <2>2. \A x \in Slots, e \in Records : Holds(x, e)' <=> Holds(x, e)
    BY <1>1, HeldAssumption DEF Slots
  <2>3. Used' = Used
    BY <2>2 DEF Used
  <2> QED
    BY <2>1, <2>2, <2>3 DEF store, Accounts, HeldRight, AllAccounted, TypeOK
<1>2. CASE s # None
  <2>1. /\ s \in Slots /\ s \notin Used
        /\ \/ s \in free_slots /\ s # allocated
           \/ s = allocated /\ free_slots = {} /\ allocated + 1 <= Budget
    BY <1>2, PlaceIsFree
  <2>2. /\ content' = [content EXCEPT ![s] = r]
        /\ free_slots' = free_slots \ {s}
        /\ allocated' = IF s = allocated THEN allocated + 1 ELSE allocated
        /\ live' = live + 1
    BY <1>2 DEF Store
  <2>3. Used' = Used \cup {s}
    BY <2>1 DEF Used
  <2>4. Used \subseteq Slots /\ Used \cup {s} \subseteq Slots
    BY <2>1 DEF Used
  <2>5. /\ Cardinality(Used \cup {s}) = Cardinality(Used) + 1
        /\ Cardinality(Used \cup {s}) \in 0..Budget
    BY <2>1, <2>4, SlotsCounted, FS_AddElement
  <2>6. HeldRight'
    BY <2>1, <2>2 DEF HeldRight, Accounts, TypeOK, Used
  <2>7. (Used \cup free_slots = 0..(allocated - 1))'
    BY <2>1, <2>2, <2>3 DEF TypeOK, Accounts, AllAccounted
  <2>8. AllAccounted'
    BY <2>2, <2>3, <2>5, <2>7 DEF AllAccounted, Accounts
  <2> QED
    BY <2>1, <2>2, <2>5, <2>6, <2>8 DEF AllAccounted, Accounts, TypeOK
<1> QED
  BY <1>1, <1>2

\* What waits for a base has its types.
LEMMA PendingTyped ==
  ASSUME TypeOK, NEW b \in Bases, NEW i \in DOMAIN pending[b]
  PROVE  /\ pending[b][i] \in Provisional
         /\ pending[b][i].record \in Records /\ pending[b][i].slot \in Slots \cup {None}
<1>1. pending[b] \in Seq(Provisional)
  BY DEF TypeOK
<1>2. pending[b][i] \in Provisional
  BY <1>1
<1> QED
  BY <1>2 DEF Provisional, SlotOrNone

\* Only one record is in a slot, and it is there once: what waits for one base
\* is neither held, nor waiting, nor under another.
LEMMA PendingNowhereElse ==
  ASSUME TypeOK, WhereTheyStand, Accounts,
         NEW b \in Bases, NEW s \in Slots, NEW r \in Records, PendingIn(b, r, s),
         NEW e \in Records
  PROVE  /\ extensions[e] # s /\ ~WaitsIn(e, s)
         /\ \A c \in Bases \ {b} : ~PendingIn(c, e, s)
<1> USE DEF WhereTheyStand
<1>1. content[s] = r
  BY DEF Accounts, HeldRight, Holds
<1>2. met[r] = b /\ extensions[r] = None
  BY DEF PendingIn, PendingAreMet
<1>3. s # None /\ b # None
  BY HeldAssumption DEF Slots, Bases
<1>4. ASSUME Holds(s, e) PROVE e = r
  BY <1>1, <1>4 DEF Accounts, HeldRight
<1>5. extensions[e] # s
  BY <1>2, <1>3, <1>4 DEF Holds
<1>6. ~WaitsIn(e, s)
  BY <1>2, <1>3, <1>4 DEF Holds, WaitsIn, KnownAreReached
<1>7. ASSUME NEW c \in Bases \ {b} PROVE ~PendingIn(c, e, s)
  <2> SUFFICES ASSUME PendingIn(c, e, s) PROVE FALSE
    OBVIOUS
  <2>1. met[e] = c
    BY DEF PendingIn, PendingAreMet
  <2>2. e = r
    BY <1>4 DEF Holds
  <2> QED
    BY <1>2, <2>1, <2>2
<1> QED
  BY <1>5, <1>6, <1>7

\* The slots of what waits for the bases bs, one by one.
LEMMA BackFrom ==
  ASSUME NEW bs
  PROVE  \A s : s \in SlotsPending(bs) <=>
           s # None /\ \E b \in bs : \E i \in DOMAIN pending[b] : pending[b][i].slot = s
<1> DEFINE Of(b) == {pending[b][i].slot : i \in DOMAIN pending[b]}
           All == UNION {Of(b) : b \in bs}
<1>1. SlotsPending(bs) = All \ {None}
  BY DEF SlotsPending
<1>2. \A s, b : s \in Of(b) <=> \E i \in DOMAIN pending[b] : pending[b][i].slot = s
  OBVIOUS
<1> HIDE DEF Of
<1>3. \A s : s \in All <=> \E b \in bs : s \in Of(b)
  OBVIOUS
<1> HIDE DEF All
<1> QED
  BY <1>1, <1>2, <1>3

\* Release() gives back the slots of what waits for the bases bs, and no other.
LEMMA ReleaseAccounts ==
  ASSUME TypeOK, WhereTheyStand, Accounts, NEW bs \in SUBSET Bases, Release(bs),
         UNCHANGED <<extensions, waiting>>
  PROVE  /\ Accounts'
         /\ allocated' \in 0..Budget /\ live' \in 0..Budget /\ free_slots' \subseteq Slots
         /\ content' \in [Slots -> Records \cup {None}]
         /\ pending' \in [Bases -> Seq(Provisional)]
<1> DEFINE Back == SlotsPending(bs)
<1>1. /\ free_slots' = free_slots \cup Back
      /\ live' = live - Cardinality(Back)
      /\ pending' = [b \in Bases |-> IF b \in bs THEN <<>> ELSE pending[b]]
      /\ allocated' = allocated /\ content' = content
  BY DEF Release, LiveWithout
<1>2. pending' \in [Bases -> Seq(Provisional)]
  <2>1. <<>> \in Seq(Provisional)
    OBVIOUS
  <2> QED
    BY <1>1, <2>1 DEF TypeOK
<1>3. \A s : s \in Back <=>
        s # None /\ \E b \in bs : \E i \in DOMAIN pending[b] : pending[b][i].slot = s
  BY BackFrom
<1> HIDE DEF Back
<1>4. \A s : s \in Back <=> s \in Slots /\ \E b \in bs, r \in Records : PendingIn(b, r, s)
  <2>1. ASSUME NEW s \in Back PROVE s \in Slots /\ \E b \in bs, r \in Records : PendingIn(b, r, s)
    <3>1. s # None /\ \E b \in bs : \E i \in DOMAIN pending[b] : pending[b][i].slot = s
      BY <1>3, <2>1
    <3>2. PICK b \in bs : \E i \in DOMAIN pending[b] : pending[b][i].slot = s
      BY <3>1
    <3>3. PICK i \in DOMAIN pending[b] : pending[b][i].slot = s
      BY <3>2
    <3>4. pending[b][i].record \in Records /\ pending[b][i].slot \in Slots \cup {None}
      BY PendingTyped
    <3>5. PendingIn(b, pending[b][i].record, s)
      BY <3>3 DEF PendingIn
    <3> QED
      BY <3>1, <3>3, <3>4, <3>5
  <2>2. ASSUME NEW s \in Slots, NEW b \in bs, NEW r \in Records, PendingIn(b, r, s)
        PROVE  s \in Back
    <3>1. PICK i \in DOMAIN pending[b] : pending[b][i].slot = s
      BY <2>2 DEF PendingIn
    <3>2. s # None
      BY HeldAssumption DEF Slots
    <3> QED
      BY <1>3, <3>1, <3>2
  <2> QED
    BY <2>1, <2>2
<1>5. ASSUME NEW s \in Slots, NEW r \in Records
      PROVE  Holds(s, r)' <=> Holds(s, r) /\ s \notin Back
  <2>1. ASSUME NEW b \in Bases
        PROVE  PendingIn(b, r, s)' <=> PendingIn(b, r, s) /\ b \notin bs
    BY <1>1 DEF PendingIn
  <2>2. WaitsIn(r, s)' <=> WaitsIn(r, s)
    BY DEF WaitsIn
  <2>3. Holds(s, r)' <=> \/ extensions[r] = s \/ WaitsIn(r, s)
                         \/ \E b \in Bases : PendingIn(b, r, s) /\ b \notin bs
    BY <2>1, <2>2 DEF Holds
  <2>4. CASE s \notin Back
    BY <2>3, <2>4, <1>4 DEF Holds
  <2>5. CASE s \in Back
    <3>1. PICK b \in bs, e \in Records : PendingIn(b, e, s)
      BY <1>4, <2>5
    <3>2. ~(extensions[r] = s) /\ ~WaitsIn(r, s) /\ \A c \in Bases \ {b} : ~PendingIn(c, r, s)
      BY <3>1, PendingNowhereElse
    <3> QED
      BY <2>3, <2>5, <3>1, <3>2
  <2> QED
    BY <2>4, <2>5
<1>6. Used' = Used \ Back
  BY <1>5 DEF Used
<1>7. Back \subseteq Used
  BY <1>4 DEF Used, Holds
<1>8. Used \subseteq Slots
  BY DEF Used
<1>9. Cardinality(Used \ Back) = Cardinality(Used) - Cardinality(Back)
  <2>1. Used \cap Back = Back
    BY <1>7
  <2> QED
    BY <2>1, <1>8, SlotsCounted, FS_Difference
<1>10. live' = Cardinality(Used') /\ live' \in 0..Budget
  <2>1. Cardinality(Used \ Back) \in 0..Budget
    BY <1>8, SlotsCounted
  <2> QED
    BY <2>1, <1>1, <1>6, <1>9 DEF Accounts, AllAccounted
<1>11. HeldRight'
  BY <1>1, <1>5 DEF HeldRight, Accounts
<1>12. AllAccounted'
  BY <1>1, <1>6, <1>7, <1>10 DEF AllAccounted, Accounts
<1> QED
  BY <1>1, <1>2, <1>4, <1>10, <1>11, <1>12 DEF Accounts, TypeOK
----------------------------------------------------------------------------
(* What is known of each record. *)

\* A waiting record has its types.
LEMMA WaitingTyped ==
  ASSUME TypeOK, NEW i \in DOMAIN waiting
  PROVE  /\ waiting[i] \in Waiting
         /\ waiting[i].record \in Records /\ waiting[i].slot \in SlotOrNone
         /\ waiting[i].unheld_extensions \in Seq(Records)
<1>1. waiting[i] \in Waiting
  BY DEF TypeOK
<1> QED
  BY <1>1 DEF Waiting

\* The second pass knows every extension when it does one by one.
LEMMA HandedKnows ==
  ASSUME TypeOK, Handed
  PROVE  SecondPassKnows
<1>1. ASSUME NEW i \in DOMAIN waiting,
             NEW listed, listed = {waiting[i].unheld_extensions[j] :
                                     j \in DOMAIN waiting[i].unheld_extensions}
      PROVE  /\ ExtensionsOf(waiting[i].record) =
                  listed \cup {e \in ExtensionsOf(waiting[i].record) : extensions[e] # None}
             /\ \A e \in listed : extensions[e] = None
  <2>1. \A e : e \in listed <=> IsListed(i, e)
    BY <1>1 DEF IsListed
  <2>2. \A e \in listed : e \in Records
    BY <1>1, WaitingTyped
  <2>3. \A e \in ExtensionsOf(waiting[i].record) : e \in Records
    BY DEF ExtensionsOf
  <2>4. \A e \in listed : e \in ExtensionsOf(waiting[i].record) /\ extensions[e] = None
    BY <2>1, <2>2 DEF Handed, KnownOneWay
  <2>5. \A e \in ExtensionsOf(waiting[i].record) : extensions[e] = None => e \in listed
    BY <2>1 DEF Handed, KnownOneWay
  <2> QED
    BY <2>4, <2>5
<1>2. ExtensionsKnown
  BY <1>1 DEF ExtensionsKnown
<1> QED
  BY <1>2 DEF SecondPassKnows, Handed

\* Nothing is known of the record the scan is at before its call.
LEMMA FreshIsUnknown ==
  ASSUME TypeOK, WhereTheyStand, fresh
  PROVE  /\ record \in Records
         /\ met[record] = None /\ extensions[record] = None
         /\ \A e \in Records : met[e] # None => e < record
         /\ \A i \in DOMAIN waiting : waiting[i].record < record
         /\ \A b \in Bases : \A i \in DOMAIN pending[b] : pending[b][i].record < record
<1> USE DEF WhereTheyStand
<1>1. record \in Records
  BY DEF TypeOK, KnownAreReached
<1>2. \A e \in Records : met[e] # None => e < record
  BY <1>1 DEF KnownAreReached, Reached
<1>3. met[record] = None
  BY <1>1, <1>2 DEF Records
<1>4. extensions[record] = None
  BY <1>1, <1>3 DEF KnownAreReached
<1>5. \A i \in DOMAIN waiting : waiting[i].record < record
  BY DEF KnownAreReached, Reached
<1>6. ASSUME NEW b \in Bases, NEW i \in DOMAIN pending[b] PROVE pending[b][i].record < record
  <2>1. met[pending[b][i].record] = b /\ b # None
    BY HeldAssumption DEF PendingAreMet, Bases
  <2> QED
    BY <1>2, <2>1, PendingTyped
<1> QED
  BY <1>1, <1>2, <1>3, <1>4, <1>5, <1>6

----------------------------------------------------------------------------
(* One lemma per action. *)

LEMMA InitHolds == Init => IInv
<1> SUFFICES ASSUME Init PROVE IInv
  OBVIOUS
<1> USE HeldAssumption DEF Init
<1>1. \A b \in Bases : pending[b] = <<>>
  OBVIOUS
<1>2. TypeOK
  <2>1. <<>> \in Seq(Provisional) /\ <<>> \in Seq(Waiting)
    OBVIOUS
  <2>2. pending \in [Bases -> Seq(Provisional)]
    BY <2>1
  <2>3. content \in [Slots -> Records \cup {None}] /\ extensions \in [Records -> SlotOrNone]
        /\ met \in [Records -> Bases \cup {None}]
    BY DEF SlotOrNone
  <2>4. allocated \in 0..Budget /\ live \in 0..Budget /\ free_slots \subseteq Slots
    OBVIOUS
  <2>5. waiting \in Seq(Waiting)
    BY <2>1, Zenon
  <2>6. record \in Records \cup {None} /\ fresh \in BOOLEAN /\ ended \in BOOLEAN
    OBVIOUS
  <2> HIDE DEF Init
  <2> QED
    BY <2>2, <2>3, <2>4, <2>5, <2>6 DEF TypeOK
<1>3. WhereTheyStand
  BY <1>1 DEF WhereTheyStand, KnownAreReached, PendingAreMet, PendingInOrder, NonePassedOver,
              ExtensionsOf, Bases
<1>4. \A s \in Slots, r \in Records : ~Holds(s, r)
  BY <1>1 DEF Holds, WaitsIn, PendingIn, Slots
<1>5. Used = {}
  BY <1>4 DEF Used
<1>6. Accounts
  BY <1>4, <1>5, FS_EmptySet DEF Accounts, HeldRight, AllAccounted
<1>7. Handed
  BY <1>1 DEF Handed, KnownOneWay, InRecordOrder, NothingStale
<1> QED
  BY <1>2, <1>3, <1>6, <1>7 DEF IInv

\* What waits for the bases passed is let go, and the scan goes on to record r.
LEMMA ReleaseBeforeHolds ==
  ASSUME IInv, NEW r \in Records, ~ended, Position <= r, ReleaseBefore(r)
  PROVE  IInv'
<1> USE DEF IInv
<1>1. /\ Release(Passed(r)) /\ record' = r /\ fresh' = TRUE
      /\ UNCHANGED <<extensions, waiting, ended, met>>
  BY DEF ReleaseBefore
<1>2. Passed(r) \in SUBSET Bases
  BY DEF Passed
<1>3. /\ Accounts'
      /\ allocated' \in 0..Budget /\ live' \in 0..Budget /\ free_slots' \subseteq Slots
      /\ content' \in [Slots -> Records \cup {None}]
      /\ pending' \in [Bases -> Seq(Provisional)]
  BY <1>1, <1>2, ReleaseAccounts
<1>4. TypeOK'
  BY <1>1, <1>3 DEF TypeOK
<1>5. \A b \in Bases : pending'[b] = IF b < r THEN <<>> ELSE pending[b]
  BY <1>1 DEF Release, Passed
<1>6. \A e \in Nat : Reached(e) => Reached(e)'
  BY <1>1, HeldAssumption DEF Reached, Position, TypeOK, Records
<1>7. WhereTheyStand'
  <2> USE DEF WhereTheyStand
  <2>1. KnownAreReached'
    <3>1. (\A e \in Records : met[e] # None => Reached(e))'
      BY <1>1, <1>6 DEF KnownAreReached, Records
    <3>2. (\A i \in DOMAIN waiting :
             Reached(waiting[i].record) /\ met[waiting[i].record] = None)'
      BY <1>1, <1>6, WaitingTyped DEF KnownAreReached, Records
    <3> QED
      BY <1>1, <3>1, <3>2, HeldAssumption DEF KnownAreReached, Records
  <2>2. PendingAreMet' /\ PendingInOrder'
    BY <1>1, <1>5 DEF PendingAreMet, PendingInOrder
  <2>3. NonePassedOver'
    <3> SUFFICES ASSUME NEW b \in Bases, NEW e \in ExtensionsOf(b), ~Reached(b)'
                 PROVE  \E i \in DOMAIN pending'[b] : pending'[b][i].record = e
      BY <1>1 DEF NonePassedOver, ExtensionsOf
    <3>1. ~Reached(b)
      BY <1>6 DEF Bases
    <3>2. pending'[b] = pending[b]
      BY <1>1, <1>5, HeldAssumption DEF Reached, Records
    <3> QED
      BY <3>1, <3>2 DEF NonePassedOver
  <2> QED
    BY <2>1, <2>2, <2>3
<1>8. Handed'
  <2>1. NothingStale'
    BY <1>1, <1>5, HeldAssumption DEF NothingStale, Records, Bases
  <2> QED
    BY <1>1, <2>1 DEF Handed, KnownOneWay, InRecordOrder, IsListed, ExtensionsOf
<1> QED
  BY <1>3, <1>4, <1>7, <1>8

\* The first pass is over.
LEMMA FinishHolds ==
  ASSUME IInv, ~ended, Finish
  PROVE  IInv'
<1> USE DEF IInv
<1>1. /\ Release(Bases) /\ ended' = TRUE
      /\ UNCHANGED <<extensions, waiting, record, fresh, met>>
  BY DEF Finish
<1>2. /\ Accounts'
      /\ allocated' \in 0..Budget /\ live' \in 0..Budget /\ free_slots' \subseteq Slots
      /\ content' \in [Slots -> Records \cup {None}]
      /\ pending' \in [Bases -> Seq(Provisional)]
  BY <1>1, ReleaseAccounts
<1>3. \A b \in Bases : pending'[b] = <<>>
  BY <1>1 DEF Release
<1>4. TypeOK'
  BY <1>1, <1>2 DEF TypeOK
<1>5. WhereTheyStand'
  BY <1>1, <1>3 DEF WhereTheyStand, KnownAreReached, Reached, PendingAreMet, PendingInOrder,
                    NonePassedOver
<1>6. Handed'
  BY <1>1, <1>3 DEF Handed, KnownOneWay, InRecordOrder, NothingStale, IsListed, ExtensionsOf
<1> QED
  BY <1>2, <1>4, <1>5, <1>6

\* What is done about the record the scan is at leaves the others where they
\* stand: the scan has reached it then, and nothing else.
LEMMA CallReaches ==
  ASSUME IInv, fresh, record' = record, fresh' = FALSE
  PROVE  \A e \in Nat : Reached(e)' <=> Reached(e) \/ e = record
<1>1. record \in Records
  BY FreshIsUnknown DEF IInv
<1> QED
  BY <1>1, HeldAssumption DEF Reached, Records

\* An extension of an earlier base, which does not wait, is let go.
LEMMA MeetPassedHolds ==
  ASSUME IInv, ~ended, fresh, NEW base \in Bases, base <= record, FindWaiting(base) = {},
         UNCHANGED <<held, record, ended>>, fresh' = FALSE,
         met' = [met EXCEPT ![record] = base]
  PROVE  IInv'
<1> USE DEF IInv
<1>1. /\ record \in Records
      /\ met[record] = None /\ extensions[record] = None
      /\ \A e \in Records : met[e] # None => e < record
      /\ \A i \in DOMAIN waiting : waiting[i].record < record
      /\ \A b \in Bases : \A i \in DOMAIN pending[b] : pending[b][i].record < record
  BY FreshIsUnknown
<1>2. UNCHANGED <<allocated, live, free_slots, content, extensions, pending, waiting>>
  BY DEF held, store
<1>3. /\ met' \in [Records -> Bases \cup {None}]
      /\ met'[record] = base /\ \A e \in Records \ {record} : met'[e] = met[e]
  BY <1>1 DEF TypeOK
<1>4. TypeOK'
  BY <1>2, <1>3 DEF TypeOK
<1>5. Accounts'
  BY <1>2 DEF Accounts, HeldRight, AllAccounted, Used, Holds, WaitsIn, PendingIn
<1>6. \A e \in Nat : Reached(e)' <=> Reached(e) \/ e = record
  BY CallReaches
<1>7. \A i \in DOMAIN waiting : waiting[i].record \in Records /\ waiting[i].record # base
  BY WaitingTyped DEF FindWaiting
<1>8. \A b \in Bases : \A i \in DOMAIN pending[b] :
        pending[b][i].record \in Records \ {record}
  BY <1>1, PendingTyped DEF Records
<1>9. WhereTheyStand'
  <2> USE DEF WhereTheyStand
  <2>1. KnownAreReached'
    BY <1>1, <1>2, <1>3, <1>6, <1>7, HeldAssumption DEF KnownAreReached, Records
  <2>2. PendingAreMet' /\ PendingInOrder'
    BY <1>2, <1>3, <1>8 DEF PendingAreMet, PendingInOrder
  <2>3. NonePassedOver'
    BY <1>1, <1>2, <1>3, <1>6 DEF NonePassedOver, ExtensionsOf, Reached, Records, Bases
  <2> QED
    BY <2>1, <2>2, <2>3
<1>10. Handed'
  <2>1. \A i \in DOMAIN waiting : ExtensionsOf(waiting[i].record)' = ExtensionsOf(waiting[i].record)
    BY <1>1, <1>2, <1>3, <1>7, HeldAssumption DEF ExtensionsOf, Records
  <2> QED
    BY <1>2, <2>1 DEF Handed, KnownOneWay, InRecordOrder, NothingStale, IsListed
<1> QED
  BY <1>4, <1>5, <1>9, <1>10

\* An extension of an earlier base that waits is held, in slot s, or listed.
LEMMA MeetLaterHolds ==
  ASSUME IInv, ~ended, fresh, NEW base \in Bases, base < record,
         NEW whole \in BOOLEAN, NEW i \in FindWaiting(base), NEW s \in Places(whole),
         Store(record, s),
         extensions' = [extensions EXCEPT ![record] = s],
         waiting' = IF s = None THEN [waiting EXCEPT ![i] = Listed(waiting[i], record)]
                    ELSE waiting,
         UNCHANGED <<pending, record, ended>>, fresh' = FALSE,
         met' = [met EXCEPT ![record] = base]
  PROVE  IInv'
<1> USE DEF IInv
<1>1. /\ record \in Records
      /\ met[record] = None /\ extensions[record] = None
      /\ \A e \in Records : met[e] # None => e < record
      /\ \A j \in DOMAIN waiting : waiting[j].record < record
      /\ \A b \in Bases : \A j \in DOMAIN pending[b] : pending[b][j].record < record
  BY FreshIsUnknown
<1>2. /\ met' \in [Records -> Bases \cup {None}]
      /\ met'[record] = base /\ \A e \in Records \ {record} : met'[e] = met[e]
  BY <1>1 DEF TypeOK
<1>3. s \in SlotOrNone
  BY PlaceIsFree DEF SlotOrNone
<1>4. /\ extensions' \in [Records -> SlotOrNone]
      /\ extensions'[record] = s /\ \A e \in Records \ {record} : extensions'[e] = extensions[e]
  BY <1>1, <1>3 DEF TypeOK
<1>5. i \in DOMAIN waiting /\ waiting[i].record = base
  BY DEF FindWaiting
<1>6. /\ waiting' \in Seq(Waiting) /\ DOMAIN waiting' = DOMAIN waiting
      /\ \A j \in DOMAIN waiting : /\ waiting'[j].record = waiting[j].record
                                   /\ waiting'[j].slot = waiting[j].slot
      /\ \A j \in DOMAIN waiting : j # i \/ s # None => waiting'[j] = waiting[j]
      /\ s = None => waiting'[i].unheld_extensions =
                       Append(waiting[i].unheld_extensions, record)
  <2>1. CASE s = None
    <3>1. /\ waiting[i] \in Waiting /\ waiting[i].unheld_extensions \in Seq(Records)
      BY <1>5, WaitingTyped
    <3>2. Append(waiting[i].unheld_extensions, record) \in Seq(Records)
      BY <1>1, <3>1
    <3>3. /\ Listed(waiting[i], record) \in Waiting
          /\ Listed(waiting[i], record).record = waiting[i].record
          /\ Listed(waiting[i], record).slot = waiting[i].slot
          /\ Listed(waiting[i], record).unheld_extensions =
               Append(waiting[i].unheld_extensions, record)
      BY <3>1, <3>2 DEF Listed, Waiting
    <3>4. waiting' = [waiting EXCEPT ![i] = Listed(waiting[i], record)]
      BY <2>1
    <3>5. waiting' \in Seq(Waiting) /\ DOMAIN waiting' = DOMAIN waiting
      BY <1>5, <3>3, <3>4 DEF TypeOK
    <3> QED
      BY <1>5, <2>1, <3>3, <3>4, <3>5 DEF TypeOK
  <2>2. CASE s # None
    BY <2>2 DEF TypeOK
  <2> QED
    BY <2>1, <2>2
<1>7. ASSUME NEW x \in Slots, NEW e \in Records
      PROVE  Holds(x, e)' <=> (Holds(x, e) \/ (x = s /\ e = record))
  <2>1. WaitsIn(e, x)' <=> WaitsIn(e, x)
    BY <1>6 DEF WaitsIn
  <2>2. \A b \in Bases : PendingIn(b, e, x)' <=> PendingIn(b, e, x)
    BY DEF PendingIn
  <2>3. x # None
    BY HeldAssumption DEF Slots
  <2> QED
    BY <1>1, <1>4, <2>1, <2>2, <2>3 DEF Holds
<1>8. /\ Accounts'
      /\ allocated' \in 0..Budget /\ live' \in 0..Budget /\ free_slots' \subseteq Slots
      /\ content' \in [Slots -> Records \cup {None}]
  BY <1>1, <1>7, StoreAccounts
<1>9. TypeOK'
  BY <1>2, <1>4, <1>6, <1>8 DEF TypeOK
<1>10. \A e \in Nat : Reached(e)' <=> Reached(e) \/ e = record
  BY CallReaches
<1>11. \A b \in Bases : \A j \in DOMAIN pending[b] :
         pending[b][j].record \in Records \ {record}
  BY <1>1, PendingTyped DEF Records
<1>12. \A j \in DOMAIN waiting : waiting[j].record \in Records \ {record}
  BY <1>1, WaitingTyped DEF Records
<1>13. WhereTheyStand'
  <2> USE DEF WhereTheyStand
  <2>1. KnownAreReached'
    BY <1>1, <1>2, <1>4, <1>6, <1>10, <1>12, HeldAssumption DEF KnownAreReached, Records, Bases
  <2>2. PendingAreMet' /\ PendingInOrder'
    BY <1>2, <1>4, <1>11 DEF PendingAreMet, PendingInOrder
  <2>3. NonePassedOver'
    BY <1>1, <1>2, <1>10 DEF NonePassedOver, ExtensionsOf, Reached, Records, Bases
  <2> QED
    BY <2>1, <2>2, <2>3
<1>14. KnownOneWay'
  <2> SUFFICES ASSUME NEW j \in DOMAIN waiting
               PROVE  /\ \A e \in Records : IsListed(j, e)' =>
                           e \in ExtensionsOf(waiting[j].record)' /\ extensions'[e] = None
                      /\ \A e \in ExtensionsOf(waiting[j].record)' :
                           extensions'[e] = None => IsListed(j, e)'
    BY <1>6 DEF KnownOneWay
  <2>1. \A e \in Records : e \in ExtensionsOf(waiting[j].record)' <=>
          e \in ExtensionsOf(waiting[j].record) \/ (e = record /\ waiting[j].record = base)
    <3>1. ExtensionsOf(waiting[j].record)' = {e \in Records : met'[e] = waiting[j].record
                                                               /\ e # waiting[j].record}
      BY <1>6 DEF ExtensionsOf
    <3>2. waiting[j].record # None
      BY <1>12, HeldAssumption DEF Records
    <3> QED
      BY <1>1, <1>2, <1>12, <3>1, <3>2 DEF ExtensionsOf
  <2>2. waiting[j].record = base <=> j = i
    <3>1. i \in Nat /\ j \in Nat
      BY <1>5 DEF TypeOK
    <3> QED
      BY <1>5, <1>12, <3>1 DEF Handed, InRecordOrder, Records
  <2>3. waiting[j].unheld_extensions \in Seq(Records)
    BY WaitingTyped
  <2>4. \A e : IsListed(j, e)' <=> IsListed(j, e) \/ (j = i /\ s = None /\ e = record)
    <3>1. CASE j = i /\ s = None
      <4> DEFINE u == waiting[j].unheld_extensions
      <4>1. /\ DOMAIN Append(u, record) = DOMAIN u \cup {Len(u) + 1}
            /\ \A k \in DOMAIN u : Append(u, record)[k] = u[k]
            /\ Append(u, record)[Len(u) + 1] = record
        BY <1>1, <2>3, AppendPlaces
      <4>2. waiting'[j].unheld_extensions = Append(u, record)
        BY <1>6, <3>1
      <4> QED
        BY <3>1, <4>1, <4>2 DEF IsListed
    <3>2. CASE ~(j = i /\ s = None)
      BY <1>6, <3>2 DEF IsListed
    <3> QED
      BY <3>1, <3>2
  <2>5. record \notin ExtensionsOf(waiting[j].record)
    BY <1>1, <1>12, HeldAssumption DEF ExtensionsOf, Records
  <2>6. /\ \A e \in Records :
             IsListed(j, e) => e \in ExtensionsOf(waiting[j].record) /\ extensions[e] = None
        /\ \A e \in ExtensionsOf(waiting[j].record) : extensions[e] = None => IsListed(j, e)
    BY DEF Handed, KnownOneWay
  <2>7. \A e \in ExtensionsOf(waiting[j].record)' : e \in Records
    BY DEF ExtensionsOf
  <2> QED
    BY <1>4, <2>1, <2>2, <2>4, <2>5, <2>6, <2>7
<1>15. InRecordOrder'
  <2>1. \A j, k \in DOMAIN waiting : j < k => waiting'[j].record < waiting'[k].record
    BY <1>6 DEF Handed, InRecordOrder
  <2>2. ASSUME NEW w \in DOMAIN waiting
        PROVE  \A j, k \in DOMAIN waiting'[w].unheld_extensions :
                 j < k => waiting'[w].unheld_extensions[j] < waiting'[w].unheld_extensions[k]
    <3>1. CASE w = i /\ s = None
      <4> DEFINE u == waiting[i].unheld_extensions
      <4>1. u \in Seq(Records)
        BY <1>5, WaitingTyped
      <4>2. \A j \in DOMAIN u : u[j] < record
        <5> TAKE j \in DOMAIN u
        <5>1. IsListed(i, u[j]) /\ u[j] \in Records
          BY <4>1 DEF IsListed
        <5>2. met[u[j]] = base
          BY <1>5, <5>1 DEF Handed, KnownOneWay, ExtensionsOf
        <5> QED
          BY <1>1, <5>1, <5>2, HeldAssumption DEF Bases
      <4>3. \A j, k \in DOMAIN u : j < k => u[j] < u[k]
        BY <1>5 DEF Handed, InRecordOrder
      <4>4. waiting'[w].unheld_extensions = Append(u, record)
        BY <1>6, <3>1
      <4>5. Records \in SUBSET Int
        BY DEF Records
      <4> HIDE DEF u
      <4> QED
        BY <1>1, <4>1, <4>2, <4>3, <4>4, <4>5, AppendInOrder
    <3>2. CASE ~(w = i /\ s = None)
      BY <1>6, <3>2 DEF Handed, InRecordOrder
    <3> QED
      BY <3>1, <3>2
  <2> QED
    BY <1>6, <2>1, <2>2 DEF InRecordOrder
<1>16. NothingStale'
  BY DEF Handed, NothingStale
<1> QED
  BY <1>8, <1>9, <1>13, <1>14, <1>15, <1>16 DEF Handed

\* An extension of a base to come waits for it, in slot s unless that is None.
LEMMA MeetFirstHolds ==
  ASSUME IInv, ~ended, fresh, NEW base \in Bases, base > record,
         NEW whole \in BOOLEAN, NEW s \in Places(whole), Store(record, s),
         pending' = [pending EXCEPT ![base] = Append(@, [record |-> record, slot |-> s])],
         UNCHANGED <<extensions, waiting, record, ended>>, fresh' = FALSE,
         met' = [met EXCEPT ![record] = base]
  PROVE  IInv'
<1> USE DEF IInv
<1> DEFINE p == [record |-> record, slot |-> s]
           last == Len(pending[base]) + 1
<1>1. /\ record \in Records
      /\ met[record] = None /\ extensions[record] = None
      /\ \A e \in Records : met[e] # None => e < record
      /\ \A j \in DOMAIN waiting : waiting[j].record < record
      /\ \A b \in Bases : \A j \in DOMAIN pending[b] : pending[b][j].record < record
  BY FreshIsUnknown
<1>2. /\ met' \in [Records -> Bases \cup {None}]
      /\ met'[record] = base /\ \A e \in Records \ {record} : met'[e] = met[e]
  BY <1>1 DEF TypeOK
<1>3. s \in SlotOrNone
  BY PlaceIsFree DEF SlotOrNone
<1>4. p \in Provisional /\ p.record = record /\ p.slot = s
  BY <1>1, <1>3 DEF Provisional
<1>5. pending[base] \in Seq(Provisional)
  BY DEF TypeOK
<1>6. /\ pending' \in [Bases -> Seq(Provisional)]
      /\ pending'[base] = Append(pending[base], p)
      /\ \A b \in Bases \ {base} : pending'[b] = pending[b]
  <2>1. Append(pending[base], p) \in Seq(Provisional)
    BY <1>4, <1>5, AppendPlaces
  <2> HIDE DEF p
  <2>2. pending' = [pending EXCEPT ![base] = Append(@, p)]
    BY DEF p
  <2> QED
    BY <2>1, <2>2 DEF TypeOK
<1>7. /\ DOMAIN pending'[base] = DOMAIN pending[base] \cup {last}
      /\ \A j \in DOMAIN pending[base] :
           j \in Nat /\ j < last /\ pending'[base][j] = pending[base][j]
      /\ pending'[base][last] = p
      /\ last \in Nat
  BY <1>4, <1>5, <1>6, AppendPlaces
<1> HIDE DEF p, last
<1>8. ASSUME NEW x \in Slots, NEW e \in Records
      PROVE  Holds(x, e)' <=> (Holds(x, e) \/ (x = s /\ e = record))
  <2>1. WaitsIn(e, x)' <=> WaitsIn(e, x)
    BY DEF WaitsIn
  <2>2. \A b \in Bases \ {base} : PendingIn(b, e, x)' <=> PendingIn(b, e, x)
    BY <1>6 DEF PendingIn
  <2>3. PendingIn(base, e, x)' <=> PendingIn(base, e, x) \/ (x = s /\ e = record)
    BY <1>4, <1>7 DEF PendingIn
  <2> QED
    BY <2>1, <2>2, <2>3 DEF Holds
<1>9. /\ Accounts'
      /\ allocated' \in 0..Budget /\ live' \in 0..Budget /\ free_slots' \subseteq Slots
      /\ content' \in [Slots -> Records \cup {None}]
  BY <1>1, <1>8, StoreAccounts
<1>10. TypeOK'
  BY <1>2, <1>6, <1>9 DEF TypeOK
<1>11. \A e \in Nat : Reached(e)' <=> Reached(e) \/ e = record
  BY CallReaches
<1>12. \A b \in Bases : \A j \in DOMAIN pending[b] :
         pending[b][j].record \in Records \ {record}
  BY <1>1, PendingTyped DEF Records
<1>13. \A j \in DOMAIN waiting : waiting[j].record \in Records \ {record, base}
                                 /\ waiting[j].record < record
  BY <1>1, WaitingTyped DEF Records, Bases
<1>14. WhereTheyStand'
  <2> USE DEF WhereTheyStand
  <2>1. KnownAreReached'
    BY <1>1, <1>2, <1>11, <1>13, HeldAssumption DEF KnownAreReached, Records, Bases
  <2>2. PendingAreMet'
    <3>1. \A j \in DOMAIN pending'[base] :
            /\ met'[pending'[base][j].record] = base
            /\ pending'[base][j].record < base
            /\ extensions[pending'[base][j].record] = None
      BY <1>1, <1>2, <1>4, <1>7, <1>12 DEF PendingAreMet
    <3> QED
      BY <1>2, <1>6, <1>12, <3>1 DEF PendingAreMet
  <2>3. PendingInOrder'
    <3>1. \A i, j \in DOMAIN pending'[base] :
            i < j => pending'[base][i].record < pending'[base][j].record
      BY <1>1, <1>4, <1>7 DEF PendingInOrder
    <3> QED
      BY <1>6, <3>1 DEF PendingInOrder
  <2>4. NonePassedOver'
    <3> SUFFICES ASSUME NEW b \in Bases, NEW e \in Records, met'[e] = b, e # b, ~Reached(b)'
                 PROVE  \E i \in DOMAIN pending'[b] : pending'[b][i].record = e
      BY DEF NonePassedOver, ExtensionsOf
    <3>1. CASE e = record
      BY <1>2, <1>4, <1>7, <3>1
    <3>2. CASE e # record
      <4>1. ~Reached(b) /\ e \in ExtensionsOf(b)
        BY <1>2, <1>11, <3>2 DEF ExtensionsOf, Bases
      <4>2. PICK i \in DOMAIN pending[b] : pending[b][i].record = e
        BY <4>1 DEF NonePassedOver
      <4> QED
        BY <4>2, <1>6, <1>7
    <3> QED
      BY <3>1, <3>2
  <2> QED
    BY <2>1, <2>2, <2>3, <2>4
<1>15. Handed'
  <2>1. \A i \in DOMAIN waiting : ExtensionsOf(waiting[i].record)' = ExtensionsOf(waiting[i].record)
    BY <1>1, <1>2, <1>13, HeldAssumption DEF ExtensionsOf, Records
  <2>2. NothingStale'
    <3>1. record # None /\ base >= record
      BY <1>1, HeldAssumption DEF Records, Bases
    <3>2. \A b \in Bases \ {base} : pending'[b] # <<>> => b >= record
      BY <1>6 DEF Handed, NothingStale
    <3> QED
      BY <3>1, <3>2 DEF NothingStale
  <2> QED
    BY <2>1, <2>2 DEF Handed, KnownOneWay, InRecordOrder, IsListed
<1> QED
  BY <1>9, <1>10, <1>14, <1>15

\* MeetExtension() keeps the invariant, whatever base the extension names.
LEMMA MeetExtensionHolds ==
  ASSUME IInv, ~ended, fresh, NEW base \in Bases, NEW whole \in BOOLEAN,
         MeetExtension(record, base, whole)
  PROVE  IInv'
<1>1. /\ record \in Records
      /\ \A j \in DOMAIN waiting : waiting[j].record < record
  BY FreshIsUnknown DEF IInv
<1>2. fresh' = FALSE /\ met' = [met EXCEPT ![record] = base] /\ UNCHANGED <<record, ended>>
  BY DEF MeetExtension
<1>3. CASE base < record /\ MeetLater(record, base, whole) /\ UNCHANGED pending
  <2>1. CASE FindWaiting(base) = {} /\ UNCHANGED <<store, extensions, waiting>>
    <3>1. base <= record /\ UNCHANGED held
      BY <1>1, <1>3, <2>1 DEF held, Records, Bases
    <3> QED
      BY <1>2, <2>1, <3>1, MeetPassedHolds
  <2>2. CASE \E i \in FindWaiting(base), s \in Places(whole) :
               /\ Store(record, s)
               /\ extensions' = [extensions EXCEPT ![record] = s]
               /\ waiting' = IF s = None
                             THEN [waiting EXCEPT ![i] = Listed(waiting[i], record)]
                             ELSE waiting
    BY <1>2, <1>3, <2>2, MeetLaterHolds
  <2> QED
    BY <1>3, <2>1, <2>2 DEF MeetLater
<1>4. CASE base = record /\ UNCHANGED held
  <2>1. base <= record /\ FindWaiting(base) = {}
    BY <1>1, <1>4 DEF FindWaiting, Records
  <2> QED
    BY <1>2, <1>4, <2>1, MeetPassedHolds
<1>5. CASE base > record /\ MeetFirst(record, base, whole) /\ UNCHANGED <<extensions, waiting>>
  BY <1>2, <1>5, MeetFirstHolds DEF MeetFirst
<1> QED
  BY <1>3, <1>4, <1>5 DEF MeetExtension

\* What waited for the record the scan is at becomes held.
LEMMA TakeHolds ==
  ASSUME IInv, ~ended, fresh, extensions' = Kept(record), pending' = TakenPending(record),
         fresh' = FALSE, UNCHANGED <<record, ended, met>>
  PROVE  /\ extensions' \in [Records -> SlotOrNone]
         /\ pending' \in [Bases -> Seq(Provisional)]
         /\ \A x \in Slots, e \in Records :
              (extensions'[e] = x \/ \E b \in Bases : PendingIn(b, e, x)') <=>
              (extensions[e] = x \/ \E b \in Bases : PendingIn(b, e, x))
         /\ PendingAreMet' /\ PendingInOrder' /\ NonePassedOver' /\ NothingStale'
         /\ \A e \in Records : extensions'[e] # None => met[e] # None
         /\ \A e \in Records : e \notin ExtensionsOf(record) => extensions'[e] = extensions[e]
         /\ \A e \in ExtensionsOf(record) : \E i \in DOMAIN pending[record] :
              pending[record][i].record = e /\ extensions'[e] = pending[record][i].slot
<1> USE DEF IInv, WhereTheyStand
<1> DEFINE ps == pending[record]
<1>1. record \in Records /\ record \in Bases /\ record # None
  BY FreshIsUnknown, HeldAssumption DEF Records, Bases
<1>2. ps \in Seq(Provisional)
  BY <1>1 DEF TypeOK
<1>3. \A i \in DOMAIN ps :
        /\ ps[i].record \in Records /\ ps[i].slot \in SlotOrNone
        /\ met[ps[i].record] = record /\ ps[i].record < record
        /\ extensions[ps[i].record] = None
  BY <1>1, PendingTyped DEF PendingAreMet, SlotOrNone
<1>4. \A i, j \in DOMAIN ps : ps[i].record = ps[j].record => i = j
  <2>1. \A i \in DOMAIN ps : i \in Nat
    BY <1>2
  <2>2. \A i \in DOMAIN ps : ps[i].record \in Int
    BY <1>3 DEF Records
  <2>3. \A i, j \in DOMAIN ps : i < j => ps[i].record < ps[j].record
    BY <1>1 DEF PendingInOrder
  <2> HIDE DEF ps
  <2> QED
    BY <2>1, <2>2, <2>3
<1>5. ASSUME NEW i \in DOMAIN ps PROVE extensions'[ps[i].record] = ps[i].slot
  <2> DEFINE all == {ps[j] : j \in DOMAIN ps}
             e == ps[i].record
  <2>1. e \in Records /\ \E j \in DOMAIN ps : ps[j].record = e
    BY <1>3
  <2>2. extensions'[e] = (CHOOSE p \in all : p.record = e).slot
    BY <2>1 DEF Kept
  <2>3. \A p \in all : p.record = e => p = ps[i]
    BY <1>4
  <2>4. ps[i] \in all /\ ps[i].record = e
    OBVIOUS
  <2> HIDE DEF all, e, ps
  <2>5. (CHOOSE p \in all : p.record = e) = ps[i]
    BY <2>3, <2>4
  <2> QED
    BY <2>2, <2>5 DEF e
<1>6. ASSUME NEW e \in Records, ~\E i \in DOMAIN ps : ps[i].record = e
      PROVE  extensions'[e] = extensions[e]
  BY <1>6 DEF Kept
<1>7. extensions' \in [Records -> SlotOrNone]
  <2>1. extensions' = [e \in Records |-> extensions'[e]]
    BY DEF Kept
  <2>2. \A e \in Records : extensions'[e] \in SlotOrNone
    <3> TAKE e \in Records
    <3>1. CASE \E i \in DOMAIN ps : ps[i].record = e
      BY <1>3, <1>5, <3>1
    <3>2. CASE ~\E i \in DOMAIN ps : ps[i].record = e
      BY <1>6, <3>2 DEF TypeOK
    <3> QED
      BY <3>1, <3>2
  <2> QED
    BY <2>1, <2>2
<1>8. /\ pending' \in [Bases -> Seq(Provisional)]
      /\ pending'[record] = <<>>
      /\ \A b \in Bases \ {record} : pending'[b] = pending[b]
  <2>1. <<>> \in Seq(Provisional)
    OBVIOUS
  <2> QED
    BY <1>1, <2>1 DEF TypeOK, TakenPending
<1> HIDE DEF ps
<1>9. ASSUME NEW x \in Slots, NEW e \in Records
      PROVE  (extensions'[e] = x \/ \E b \in Bases : PendingIn(b, e, x)') <=>
             (extensions[e] = x \/ \E b \in Bases : PendingIn(b, e, x))
  <2>1. x # None
    BY HeldAssumption DEF Slots
  <2>2. \A b \in Bases \ {record} : PendingIn(b, e, x)' <=> PendingIn(b, e, x)
    BY <1>8 DEF PendingIn
  <2>3. ~PendingIn(record, e, x)'
    BY <1>8 DEF PendingIn
  <2>4. extensions'[e] = x <=> extensions[e] = x \/ PendingIn(record, e, x)
    <3>1. PendingIn(record, e, x) <=> \E i \in DOMAIN ps : ps[i].record = e /\ ps[i].slot = x
      BY DEF PendingIn, ps
    <3>2. CASE \E i \in DOMAIN ps : ps[i].record = e
      <4>1. PICK i \in DOMAIN ps : ps[i].record = e
        BY <3>2
      <4>2. extensions'[e] = ps[i].slot /\ extensions[e] = None
        BY <1>3, <1>5, <4>1
      <4>3. \A j \in DOMAIN ps : ps[j].record = e => j = i
        BY <1>4, <4>1
      <4> QED
        BY <2>1, <3>1, <4>1, <4>2, <4>3
    <3>3. CASE ~\E i \in DOMAIN ps : ps[i].record = e
      BY <1>6, <3>1, <3>3
    <3> QED
      BY <3>2, <3>3
  <2> QED
    BY <1>1, <2>2, <2>3, <2>4
<1>10. ASSUME NEW e \in Records
       PROVE  e \in ExtensionsOf(record) <=> \E i \in DOMAIN ps : ps[i].record = e
  <2>1. ~Reached(record)
    BY <1>1 DEF Reached, Records
  <2>2. e \in ExtensionsOf(record) => \E i \in DOMAIN ps : ps[i].record = e
    BY <1>1, <2>1 DEF NonePassedOver, ps
  <2>3. \A i \in DOMAIN ps : ps[i].record \in ExtensionsOf(record)
    BY <1>1, <1>3 DEF ExtensionsOf, Records
  <2> QED
    BY <2>2, <2>3
<1>11. \A e \in Records : e \notin ExtensionsOf(record) => extensions'[e] = extensions[e]
  BY <1>6, <1>10
<1>12. \A e \in ExtensionsOf(record) : \E i \in DOMAIN pending[record] :
         pending[record][i].record = e /\ extensions'[e] = pending[record][i].slot
  <2>1. \A e \in ExtensionsOf(record) : e \in Records
    BY DEF ExtensionsOf
  <2> QED
    BY <1>5, <1>10, <2>1 DEF ps
<1>13. \A e \in Records : extensions'[e] # None => met[e] # None
  BY <1>1, <1>11 DEF KnownAreReached, ExtensionsOf
<1>14. PendingAreMet'
  <2>1. ASSUME NEW b \in Bases \ {record}, NEW i \in DOMAIN pending[b]
        PROVE  extensions'[pending[b][i].record] = None
    <3>1. pending[b][i].record \in Records /\ met[pending[b][i].record] = b
          /\ extensions[pending[b][i].record] = None
      BY PendingTyped DEF PendingAreMet
    <3> QED
      BY <1>11, <3>1 DEF ExtensionsOf
  <2>2. ASSUME NEW b \in Bases, NEW i \in DOMAIN pending'[b]
        PROVE  /\ met[pending'[b][i].record] = b
               /\ pending'[b][i].record < b
               /\ extensions'[pending'[b][i].record] = None
    <3>1. b # record
      BY <1>8
    <3> QED
      BY <1>8, <2>1, <3>1 DEF PendingAreMet
  <2> QED
    BY <2>2 DEF PendingAreMet
<1>15. PendingInOrder'
  BY <1>8 DEF PendingInOrder
<1>16. NonePassedOver'
  <2>1. \A e \in Nat : Reached(e)' <=> Reached(e) \/ e = record
    BY CallReaches
  <2>2. \A b \in Bases : ~Reached(b)' => ~Reached(b) /\ b # record
    BY <2>1 DEF Bases
  <2> QED
    BY <1>8, <2>2 DEF NonePassedOver, ExtensionsOf
<1>17. NothingStale'
  BY <1>8 DEF Handed, NothingStale
<1> QED
  BY <1>7, <1>8, <1>9, <1>11, <1>12, <1>13, <1>14, <1>15, <1>16, <1>17

\* Those that have no slot, in the order they wait in.
LEMMA UnheldLists ==
  ASSUME TypeOK, PendingInOrder, NEW r \in Bases
  PROVE  /\ Unheld(pending[r]) \in Seq(Records)
         /\ \A e : (\E k \in DOMAIN Unheld(pending[r]) : Unheld(pending[r])[k] = e) <=>
              (\E i \in DOMAIN pending[r] : pending[r][i].record = e /\ pending[r][i].slot = None)
         /\ \A i, j \in DOMAIN Unheld(pending[r]) :
              i < j => Unheld(pending[r])[i] < Unheld(pending[r])[j]
<1> DEFINE ps == pending[r]
           q == Select(ps, WithoutSlot)
           u == Unheld(ps)
<1>1. ps \in Seq(Provisional) /\ DOMAIN ps = 1..Len(ps) /\ Len(ps) \in Nat
  BY DEF TypeOK
<1>2. \A i \in DOMAIN ps : ps[i] \in Provisional /\ ps[i].record \in Records
  BY PendingTyped
<1>3. \A i, j \in DOMAIN ps : i < j => ps[i].record < ps[j].record
  BY DEF PendingInOrder
<1>4. \A i \in DOMAIN ps : ps[i] \in WithoutSlot <=> ps[i].slot = None
  BY <1>2 DEF WithoutSlot, Provisional
<1>5. q \in Seq(Provisional) /\ \E f : PlacedBy(f, q, ps, WithoutSlot, Len(ps))
  BY <1>1, SelectPlaces
<1>6. u = [k \in DOMAIN q |-> q[k].record]
  BY DEF Unheld, Numbers
<1> HIDE DEF ps, q, u
<1>7. DOMAIN q = 1..Len(q) /\ Len(q) \in Nat
  BY <1>5
<1>8. PICK f : PlacedBy(f, q, ps, WithoutSlot, Len(ps))
  BY <1>5
<1>9. /\ f \in [1..Len(q) -> 1..Len(ps)]
      /\ \A i, j \in 1..Len(q) : i < j => f[i] < f[j]
      /\ \A i \in 1..Len(q) : q[i] = ps[f[i]] /\ ps[f[i]] \in WithoutSlot
      /\ \A p \in 1..Len(ps) : ps[p] \in WithoutSlot => \E i \in 1..Len(q) : f[i] = p
  BY <1>8 DEF PlacedBy
<1>10. \A k \in DOMAIN q : f[k] \in DOMAIN ps /\ u[k] = ps[f[k]].record /\ ps[f[k]].slot = None
  BY <1>1, <1>4, <1>6, <1>7, <1>9
<1>11. u \in Seq(Records)
  BY <1>2, <1>6, <1>7, <1>10
<1>12. \A i, j \in DOMAIN u : i < j => u[i] < u[j]
  BY <1>3, <1>6, <1>7, <1>9, <1>10
<1>13. ASSUME NEW e
       PROVE  (\E k \in DOMAIN u : u[k] = e) <=>
              (\E i \in DOMAIN ps : ps[i].record = e /\ ps[i].slot = None)
  <2>1. ASSUME NEW k \in DOMAIN u, u[k] = e
        PROVE  \E i \in DOMAIN ps : ps[i].record = e /\ ps[i].slot = None
    BY <1>6, <1>10, <2>1
  <2>2. ASSUME NEW i \in DOMAIN ps, ps[i].record = e, ps[i].slot = None
        PROVE  \E k \in DOMAIN u : u[k] = e
    <3>1. PICK k \in 1..Len(q) : f[k] = i
      BY <1>1, <1>4, <1>9, <2>2
    <3> QED
      BY <1>6, <1>7, <1>10, <2>2, <3>1
  <2> QED
    BY <2>1, <2>2
<1> QED
  BY <1>11, <1>12, <1>13 DEF u, ps

\* A base record that is parsed at once keeps what waited for it.
LEMMA ConfirmHolds ==
  ASSUME IInv, ~ended, fresh, Confirm(record)
  PROVE  IInv'
<1> USE DEF IInv
<1>1. /\ extensions' = Kept(record) /\ pending' = TakenPending(record) /\ fresh' = FALSE
      /\ UNCHANGED <<allocated, live, free_slots, content, waiting, record, ended, met>>
  BY DEF Confirm, store
<1>2. /\ extensions' \in [Records -> SlotOrNone]
      /\ pending' \in [Bases -> Seq(Provisional)]
      /\ \A x \in Slots, e \in Records :
           (extensions'[e] = x \/ \E b \in Bases : PendingIn(b, e, x)') <=>
           (extensions[e] = x \/ \E b \in Bases : PendingIn(b, e, x))
      /\ PendingAreMet' /\ PendingInOrder' /\ NonePassedOver' /\ NothingStale'
      /\ \A e \in Records : extensions'[e] # None => met[e] # None
      /\ \A e \in Records : e \notin ExtensionsOf(record) => extensions'[e] = extensions[e]
  BY <1>1, TakeHolds
<1>3. TypeOK'
  BY <1>1, <1>2 DEF TypeOK
<1>4. \A x \in Slots, e \in Records : Holds(x, e)' <=> Holds(x, e)
  BY <1>1, <1>2 DEF Holds, WaitsIn
<1>5. Accounts'
  <2>1. Used' = Used
    BY <1>4 DEF Used
  <2> QED
    BY <1>1, <1>4, <2>1 DEF Accounts, HeldRight, AllAccounted
<1>6. \A e \in Nat : Reached(e)' <=> Reached(e) \/ e = record
  BY <1>1, CallReaches
<1>7. \A i \in DOMAIN waiting : waiting[i].record \in Records /\ waiting[i].record # record
  BY FreshIsUnknown, WaitingTyped DEF Records
<1>8. KnownAreReached'
  BY <1>1, <1>2, <1>6, <1>7 DEF WhereTheyStand, KnownAreReached, Records
<1>9. KnownOneWay'
  <2> SUFFICES ASSUME NEW i \in DOMAIN waiting
               PROVE  /\ \A e \in Records : IsListed(i, e) =>
                           e \in ExtensionsOf(waiting[i].record) /\ extensions'[e] = None
                      /\ \A e \in ExtensionsOf(waiting[i].record) :
                           extensions'[e] = None => IsListed(i, e)
    BY <1>1 DEF KnownOneWay, ExtensionsOf, IsListed
  <2>1. \A e \in ExtensionsOf(waiting[i].record) : extensions'[e] = extensions[e]
    BY <1>2, <1>7 DEF ExtensionsOf
  <2> QED
    BY <2>1 DEF Handed, KnownOneWay
<1>10. InRecordOrder'
  BY <1>1 DEF Handed, InRecordOrder
<1> QED
  BY <1>2, <1>3, <1>5, <1>8, <1>9, <1>10 DEF WhereTheyStand, Handed

\* A base record that waits keeps what waited for it, and lists the rest.
LEMMA HoldWaitingHolds ==
  ASSUME IInv, ~ended, fresh, HoldWaiting(record)
  PROVE  IInv'
<1> USE DEF IInv
<1>1. /\ extensions' = Kept(record) /\ pending' = TakenPending(record) /\ fresh' = FALSE
      /\ UNCHANGED <<record, ended, met>>
  BY DEF HoldWaiting
<1> DEFINE u == Unheld(pending[record])
<1>2. PICK s \in Places(TRUE) :
        /\ Store(record, s)
        /\ waiting' = Append(waiting, [record |-> record, slot |-> s, unheld_extensions |-> u])
  BY DEF HoldWaiting
<1> DEFINE w == [record |-> record, slot |-> s, unheld_extensions |-> u]
<1> PICK last \in Nat : last = Len(waiting) + 1
  BY DEF TypeOK
<1>3. /\ record \in Records /\ record \in Bases
      /\ met[record] = None
      /\ \A i \in DOMAIN waiting : waiting[i].record < record
  <2>1. record \in Records /\ met[record] = None
    BY FreshIsUnknown
  <2>2. \A i \in DOMAIN waiting : waiting[i].record < record
    BY FreshIsUnknown
  <2> QED
    BY <2>1, <2>2, HeldAssumption DEF Records, Bases
<1>4. /\ extensions' \in [Records -> SlotOrNone]
      /\ pending' \in [Bases -> Seq(Provisional)]
      /\ \A x \in Slots, e \in Records :
           (extensions'[e] = x \/ \E b \in Bases : PendingIn(b, e, x)') <=>
           (extensions[e] = x \/ \E b \in Bases : PendingIn(b, e, x))
      /\ PendingAreMet' /\ PendingInOrder' /\ NonePassedOver' /\ NothingStale'
      /\ \A e \in Records : extensions'[e] # None => met[e] # None
      /\ \A e \in Records : e \notin ExtensionsOf(record) => extensions'[e] = extensions[e]
      /\ \A e \in ExtensionsOf(record) : \E i \in DOMAIN pending[record] :
           pending[record][i].record = e /\ extensions'[e] = pending[record][i].slot
  BY <1>1, TakeHolds
<1>5. /\ u \in Seq(Records)
      /\ \A e : (\E k \in DOMAIN u : u[k] = e) <=>
                (\E i \in DOMAIN pending[record] :
                   pending[record][i].record = e /\ pending[record][i].slot = None)
      /\ \A i, j \in DOMAIN u : i < j => u[i] < u[j]
  BY <1>3, UnheldLists DEF WhereTheyStand
<1>6. s \in SlotOrNone
  BY PlaceIsFree DEF SlotOrNone
<1> HIDE DEF u
<1>7. w \in Waiting /\ w.record = record /\ w.slot = s /\ w.unheld_extensions = u
  BY <1>3, <1>5, <1>6 DEF Waiting
<1>8. /\ waiting' \in Seq(Waiting)
      /\ DOMAIN waiting' = DOMAIN waiting \cup {last}
      /\ \A i \in DOMAIN waiting : i \in Nat /\ i < last /\ waiting'[i] = waiting[i]
      /\ waiting'[last] = w
      /\ last \in Nat
  BY <1>2, <1>7, AppendPlaces DEF TypeOK
<1> HIDE DEF w
<1>9. ASSUME NEW x \in Slots, NEW e \in Records
      PROVE  Holds(x, e)' <=> (Holds(x, e) \/ (x = s /\ e = record))
  <2>1. WaitsIn(e, x)' <=> WaitsIn(e, x) \/ (x = s /\ e = record)
    BY <1>7, <1>8 DEF WaitsIn
  <2> QED
    BY <1>4, <2>1 DEF Holds
<1>10. /\ Accounts'
       /\ allocated' \in 0..Budget /\ live' \in 0..Budget /\ free_slots' \subseteq Slots
       /\ content' \in [Slots -> Records \cup {None}]
  BY <1>2, <1>3, <1>9, StoreAccounts
<1>11. TypeOK'
  BY <1>1, <1>4, <1>8, <1>10 DEF TypeOK
<1>12. \A e \in Nat : Reached(e)' <=> Reached(e) \/ e = record
  BY <1>1, CallReaches
<1>13. \A i \in DOMAIN waiting : waiting[i].record \in Records /\ waiting[i].record # record
  BY <1>3, WaitingTyped DEF Records
<1>14. KnownAreReached'
  <2>1. \A i \in DOMAIN waiting' :
          /\ waiting'[i].record < record \/ waiting'[i].record = record
          /\ met[waiting'[i].record] = None
    BY <1>3, <1>7, <1>8 DEF WhereTheyStand, KnownAreReached
  <2>2. record # None
    BY <1>3, HeldAssumption DEF Records
  <2>3. (\A i \in DOMAIN waiting : Reached(waiting[i].record) /\ met[waiting[i].record] = None)'
    BY <1>1, <2>1, <2>2 DEF Reached
  <2>4. (\A e \in Records : met[e] # None => Reached(e))'
    BY <1>1, <1>12 DEF WhereTheyStand, KnownAreReached, Records
  <2> QED
    BY <1>1, <1>4, <2>3, <2>4 DEF KnownAreReached
<1>15. KnownOneWay'
  <2>1. ASSUME NEW i \in DOMAIN waiting
        PROVE  /\ \A e \in Records : IsListed(i, e) =>
                    e \in ExtensionsOf(waiting[i].record) /\ extensions'[e] = None
               /\ \A e \in ExtensionsOf(waiting[i].record) :
                    extensions'[e] = None => IsListed(i, e)
    <3>1. \A e \in ExtensionsOf(waiting[i].record) : extensions'[e] = extensions[e]
      BY <1>4, <1>13 DEF ExtensionsOf
    <3> QED
      BY <3>1 DEF Handed, KnownOneWay
  <2>2. \A r : ExtensionsOf(r)' = ExtensionsOf(r)
    BY <1>1 DEF ExtensionsOf
  <2>3. \A i \in DOMAIN waiting : \A e : IsListed(i, e)' <=> IsListed(i, e)
    BY <1>8 DEF IsListed
  <2>4. \A e : IsListed(last, e)' <=> \E i \in DOMAIN pending[record] :
          pending[record][i].record = e /\ pending[record][i].slot = None
    <3>1. waiting'[last].unheld_extensions = u
      BY <1>7, <1>8
    <3>2. \A e : IsListed(last, e)' <=> \E k \in DOMAIN u : u[k] = e
      BY <3>1, Zenon DEF IsListed
    <3> QED
      BY <1>5, <3>2, Zenon
  <2>5. \A i \in DOMAIN pending[record] :
          /\ pending[record][i].record \in ExtensionsOf(record)
          /\ pending[record][i].record \in Records
    BY <1>3, PendingTyped DEF WhereTheyStand, PendingAreMet, ExtensionsOf, Records
  <2>6. \A i, j \in DOMAIN pending[record] :
          pending[record][i].record = pending[record][j].record => i = j
    <3>1. DOMAIN pending[record] \subseteq Nat
      BY <1>3 DEF TypeOK
    <3> QED
      BY <1>3, <2>5, <3>1 DEF WhereTheyStand, PendingInOrder, Records
  <2>7. \A e \in Records : IsListed(last, e)' => e \in ExtensionsOf(record) /\ extensions'[e] = None
    BY <1>4, <2>4, <2>5, <2>6
  <2>8. \A e \in ExtensionsOf(record) : extensions'[e] = None => IsListed(last, e)'
    BY <1>4, <2>4
  <2>9. \A i \in DOMAIN waiting' :
          /\ \A e \in Records : IsListed(i, e)' =>
               e \in ExtensionsOf(waiting'[i].record) /\ extensions'[e] = None
          /\ \A e \in ExtensionsOf(waiting'[i].record) :
               extensions'[e] = None => IsListed(i, e)'
    BY <1>7, <1>8, <2>1, <2>3, <2>7, <2>8
  <2> QED
    BY <1>1, <2>9 DEF KnownOneWay, ExtensionsOf
<1>16. InRecordOrder'
  BY <1>3, <1>5, <1>7, <1>8 DEF Handed, InRecordOrder
<1> QED
  BY <1>4, <1>10, <1>11, <1>14, <1>15, <1>16 DEF WhereTheyStand, Handed

----------------------------------------------------------------------------
(* The theorems. *)

\* Every step keeps the invariant.
LEMMA NextHolds ==
  ASSUME IInv, [Next]_vars
  PROVE  IInv'
<1>1. CASE Next
  <2>1. ASSUME NEW r \in Records, ~ended, Position <= r, ReleaseBefore(r) PROVE IInv'
    BY <2>1, ReleaseBeforeHolds
  <2>2. ASSUME ~ended, fresh, NEW base \in Bases, NEW whole \in BOOLEAN,
               MeetExtension(record, base, whole)
        PROVE  IInv'
    BY <2>2, MeetExtensionHolds
  <2>3. ASSUME ~ended, fresh, HoldWaiting(record) PROVE IInv'
    BY <2>3, HoldWaitingHolds
  <2>4. ASSUME ~ended, fresh, Confirm(record) PROVE IInv'
    BY <2>4, ConfirmHolds
  <2>5. ASSUME ~ended, Finish PROVE IInv'
    BY <2>5, FinishHolds
  <2> QED
    BY <1>1, <2>1, <2>2, <2>3, <2>4, <2>5 DEF Next
<1>2. CASE UNCHANGED vars
  BY <1>2 DEF vars, held, store, IInv, TypeOK, WhereTheyStand, KnownAreReached, Reached,
              PendingAreMet, PendingInOrder, NonePassedOver, ExtensionsOf, Accounts, HeldRight,
              AllAccounted, Used, Holds, WaitsIn, PendingIn, Handed, KnownOneWay, IsListed,
              InRecordOrder, NothingStale
<1> QED
  BY <1>1, <1>2

\* The invariant holds throughout every scan.
THEOREM Invariance == Spec => []IInv
  BY InitHolds, NextHolds, PTL DEF Spec

\* The state of HeldRecords keeps its types: no more slots are given out, nor
\* counted in use, than the budget allows.
THEOREM TypeCorrect == Spec => []TypeOK
<1>1. IInv => TypeOK
  BY DEF IInv
<1> QED
  BY <1>1, Invariance, PTL

\* Store() and Release() keep the accounts: a slot is free or holds the bytes of
\* the one record that points at it, and live_ counts the slots in use.
THEOREM SlotsStayAccounted == Spec => []SlotsAccounted
<1>1. IInv => SlotsAccounted
  BY AccountsSlots DEF IInv
<1> QED
  BY <1>1, Invariance, PTL

\* Every extension met of a waiting base record is held, or listed for the disk
\* read of the second pass, in increasing order, and nothing is held in vain
\* once the first pass is over.
THEOREM SecondPassIsHandedAll == Spec => []SecondPassKnows
<1>1. IInv => SecondPassKnows
  BY HandedKnows DEF IInv
<1> QED
  BY <1>1, Invariance, PTL
=============================================================================
