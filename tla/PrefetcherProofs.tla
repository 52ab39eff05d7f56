-------------------------- MODULE PrefetcherProofs --------------------------
(***************************************************************************)
(* Proofs about Prefetcher, for any ranges, requests, caps and alignment.  *)
(*                                                                         *)
(* The inductive invariant says what each range, each slot and each count  *)
(* means at every step of a call, not only between calls: the first ranges *)
(* of a queue are those with a slot (LaneRight), the slots in use are      *)
(* shared out between the ranges (Shared), a slot holds what its range     *)
(* asked for or is being filled with it (SlotRight), the reads of the lane *)
(* in flight are listed (ReadingRight), and a read being served keeps its  *)
(* range (CallRight).                                                      *)
(***************************************************************************)
EXTENDS Prefetcher, SelectionProofs

RangeSet == [offset : Nat, length : Nat, slot : Slots \cup {NoSlot}]
LaneSet == [ranges : Seq(RangeSet), started : Nat, started_bytes : Nat]

\* Where the bytes of a read come from: address a of store m.
Place(m, a) == [disk |-> m, at |-> a]
Places == [disk : Media \cup {NoMedium}, at : Nat]

SlotSet == [in_use : BOOLEAN, pending : BOOLEAN, got : Nat, start : Nat, bytes : Nat,
            buf : Places, os : SUBSET Places]

\* A range that some pattern admitted.
Bounded(range) == \E p \in Patterns : AlignedBytes(range) <= Caps[p].max_range_bytes

\* The ranges with a slot are the first ones, each has its own, and the counts
\* of the queue are theirs.
LaneRight(lane) ==
  /\ lane \in LaneSet
  /\ lane.started <= Len(lane.ranges)
  /\ \A i \in DOMAIN lane.ranges : lane.ranges[i].slot # NoSlot <=> i <= lane.started
  /\ \A i, j \in DOMAIN lane.ranges :
       lane.ranges[i].slot = lane.ranges[j].slot /\ lane.ranges[i].slot # NoSlot => i = j
  /\ lane.started_bytes = BytesAt(lane, 1..lane.started)
  /\ \A i \in DOMAIN lane.ranges : Bounded(lane.ranges[i])

\* The slots of the ranges of lane.
Held(lane) == HeldBy(lane, DOMAIN lane.ranges)

\* The slots of the ranges of lane read what the ranges ask for.
Fits(lane, sl) ==
  \A i \in DOMAIN lane.ranges :
    lane.ranges[i].slot # NoSlot =>
      sl[lane.ranges[i].slot].start = AlignDown(lane.ranges[i].offset)

\* The slots in use are those of the two queues, each of one of them.
Shared(fi, st, sl) ==
  /\ \A s \in Slots : ~(s \in Held(fi) /\ s \in Held(st))
  /\ \A s \in Slots : sl[s].in_use <=> s \in Held(fi) \/ s \in Held(st)
  /\ Fits(fi, sl)
  /\ Fits(st, sl)

\* The n bytes of m from address a on can be read.
Sound(m, a, n) ==
  m # NoMedium /\ a + n <= AddrMax /\ \A x \in a..(a + n - 1) : x \notin BadOf[m]

\* A read in flight is the one of the slot; once it is over, the buffer holds the
\* bytes of the open store at start, got of them when the slot was waited for.
SlotRight(slot, m) ==
  /\ slot \in SlotSet
  /\ slot.os # {} => slot.in_use /\ slot.pending /\ slot.os = {Place(m, slot.start)}
  /\ slot.pending /\ slot.os = {} => slot.buf = Place(m, slot.start)
  /\ ~slot.pending /\ slot.got > 0 =>
       slot.buf = Place(m, slot.start) /\ Sound(m, slot.start, slot.got)

SlotsRight(sl, m) ==
  /\ DOMAIN sl = Slots
  /\ \A s \in Slots : SlotRight(sl[s], m)

\* reading lists the slots of the lane whose read is in flight, each once, and
\* maybe some whose read is over.
ReadingRight(rd, st, sl) ==
  /\ rd \in Seq(Slots)
  /\ \A i, j \in DOMAIN rd : rd[i] = rd[j] => i = j
  /\ \A i \in DOMAIN rd : rd[i] \in Held(st)
  /\ \A s \in Slots : s \in Held(st) /\ sl[s].os # {} => \E i \in DOMAIN rd : rd[i] = s

\* The slots with a read in flight.
Flying(sl) == {s \in Slots : sl[s].os # {}}

\* No more reads than some pattern allows.
ReadsCapped(sl) == \E p \in Patterns : Cardinality(Flying(sl)) <= Caps[p].max_reads

\* The most bytes of the lane, of which some range may be alone.
LaneCap(p) == Greatest(Caps[p].max_bytes, Caps[p].max_range_bytes)

\* No more bytes on the lane than some pattern allows, and one range more with
\* those of the first queue.
BytesCapped(fi, st) ==
  /\ \E p \in Patterns : st.started_bytes <= LaneCap(p)
  /\ \E p, q \in Patterns :
       fi.started_bytes + st.started_bytes <= LaneCap(p) + Caps[q].max_range_bytes

\* The reads of the lane in flight are no more than the call counted.
Counted(st, sl, n) == Cardinality(Flying(sl) \cap Held(st)) <= n

\* The range at index of lane holds request r.
Holds(lane, index, r) ==
  /\ index \in DOMAIN lane.ranges
  /\ lane.ranges[index].offset <= r.start
  /\ r.start + r.len <= EndOf(lane.ranges[index])

LanesRight ==
  /\ LaneRight(first)
  /\ LaneRight(standing)
  /\ Shared(first, standing, slots)
  /\ SlotsRight(slots, medium)
  /\ ReadingRight(reading, standing, slots)
  /\ ReadsCapped(slots)
  /\ BytesCapped(first, standing)

Typed ==
  /\ medium \in Media \cup {NoMedium}
  /\ handle \in {"none", "open", "failed"}
  /\ pattern \in Patterns
  /\ phase \in Phases
  /\ andThen \in {"idle", "serve", "sync"}
  /\ in_flight \in Nat
  /\ serving \in [lane : {"first", "standing"}, index : Nat]
  /\ request \in [start : Int, len : Nat]

\* The call in progress: a read that is not answered has no answer, and one that
\* is served from a range still has it.
CallRight ==
  /\ phase \in {"idle", "serve", "sync"} => andThen = "idle"
  /\ phase \in {"serve", "sync"} \/ andThen \in {"serve", "sync"} => answer = NoAnswer
  /\ phase = "serve" \/ andThen = "serve" =>
       /\ medium # NoMedium
       /\ request.len > 0
       /\ request.start >= 0
       /\ Holds(Lane, serving.index, request)
  /\ phase \in {"first", "standing"} => Counted(standing, slots, in_flight)

\* The inductive invariant.
IInv == Typed /\ LanesRight /\ CallRight
----------------------------------------------------------------------------
(* Addresses and sums. *)

LEMMA AlignedDown ==
  ASSUME NEW x \in Nat
  PROVE  AlignDown(x) \in Nat /\ AlignDown(x) <= x
<1>1. x % Alignment \in Nat
  BY PrefetcherAssumption
<1>2. x % Alignment <= x
  BY PrefetcherAssumption
<1> QED
  BY <1>1, <1>2 DEF AlignDown

LEMMA AlignedUp ==
  ASSUME NEW x \in Nat
  PROVE  AlignUp(x) \in Nat /\ x <= AlignUp(x)
<1> DEFINE y == x + Alignment - 1
<1>1. Alignment \in Nat /\ Alignment # 0
  BY PrefetcherAssumption
<1>2. y \in Nat
  BY <1>1
<1>3. y % Alignment \in Nat /\ y % Alignment <= Alignment - 1
  BY <1>1, <1>2
<1> QED
  BY <1>1, <1>2, <1>3 DEF AlignUp, AlignDown

\* The aligned read of a range is no shorter than the range.
LEMMA AlignedTyped ==
  ASSUME NEW r, r.offset \in Nat, r.length \in Nat
  PROVE  AlignedBytes(r) \in Nat /\ EndOf(r) \in Nat
<1>1. EndOf(r) \in Nat /\ r.offset <= EndOf(r)
  BY DEF EndOf
<1>2. AlignUp(EndOf(r)) \in Nat /\ EndOf(r) <= AlignUp(EndOf(r))
  BY <1>1, AlignedUp
<1>3. AlignDown(r.offset) \in Nat /\ AlignDown(r.offset) <= r.offset
  BY AlignedDown
<1> QED
  BY <1>1, <1>2, <1>3 DEF AlignedBytes

\* Ranges with the same addresses are read alike.
LEMMA AlignedSame ==
  ASSUME NEW r, NEW q, r.offset = q.offset, r.length = q.length
  PROVE  AlignedBytes(r) = AlignedBytes(q) /\ (Bounded(r) <=> Bounded(q))
  BY DEF AlignedBytes, EndOf, Bounded

LEMMA CapsTyped ==
  ASSUME NEW p \in Patterns
  PROVE  /\ Caps[p].max_reads \in Nat
         /\ Caps[p].max_bytes \in Nat
         /\ Caps[p].max_range_bytes \in Nat
         /\ LaneCap(p) \in Nat /\ Caps[p].max_bytes <= LaneCap(p)
         /\ Caps[p].max_range_bytes <= LaneCap(p)
<1>1. Caps[p] \in Tuning
  BY PrefetcherAssumption
<1> QED
  BY <1>1 DEF Tuning, LaneCap, Greatest

LEMMA TotalOfNone ==
  ASSUME NEW f, NEW n \in Nat, \A i \in 1..n : f[i] \in Nat
  PROVE  Total(f, n, {}) = 0
<1>1. PICK e : e = {}
  OBVIOUS
<1>2. Total(f, n, e) = Total(f, n, e) + Total(f, n, e)
  BY <1>1, TotalSplits
<1>3. PICK x \in Nat : x = Total(f, n, e)
  BY TotalTyped
<1>4. x = x + x
  BY <1>2, <1>3, Zenon
<1>5. x = 0
  BY <1>4
<1> QED
  BY <1>1, <1>3, <1>5

LEMMA TotalOfOne ==
  ASSUME NEW f, NEW n \in Nat, \A i \in 1..n : f[i] \in Nat, NEW k \in 1..n
  PROVE  Total(f, n, {k}) = f[k]
<1> DEFINE one == [i \in 1..1 |-> f[k]]
           h == [i \in 1..1 |-> k]
<1>1. Drawn(one, {1}, 1, h, f, {k}, n)
  BY DEF Drawn
<1>2. \A i \in 1..1 : one[i] \in Nat
  OBVIOUS
<1>3. one[1] = f[k] /\ one[1] \in Nat
  OBVIOUS
<1> HIDE DEF one, h
<1>4. Total(one, 1, {1}) = Total(f, n, {k})
  BY <1>1, TotalDrawn
<1>5. Total(one, 0, {1}) = 0
  BY TotalNone
<1>6. Total(one, 1, {1}) = Total(one, 1 - 1, {1}) + (IF 1 \in {1} THEN one[1] ELSE 0)
  BY TotalNext
<1>7. 1 - 1 = 0
  OBVIOUS
<1> QED
  BY <1>3, <1>4, <1>5, <1>6, <1>7

\* One place more.
LEMMA TotalOneMore ==
  ASSUME NEW f, NEW n \in Nat, \A i \in 1..n : f[i] \in Nat, NEW k \in Nat, k < n
  PROVE  Total(f, n, 1..(k + 1)) = Total(f, n, 1..k) + f[k + 1]
<1>1. k + 1 \in 1..n
  OBVIOUS
<1>2. (1..k) \cup {k + 1} = 1..(k + 1) /\ (1..k) \cap {k + 1} = {}
  OBVIOUS
<1>3. Total(f, n, 1..(k + 1)) = Total(f, n, 1..k) + Total(f, n, {k + 1})
  BY <1>2, TotalSplits
<1>4. Total(f, n, {k + 1}) = f[k + 1]
  BY <1>1, TotalOfOne
<1> QED
  BY <1>3, <1>4

\* f and g agree on their first k places.
Extends(f, n, g, m, k) ==
  /\ n \in Nat /\ m \in Nat /\ k \in Nat /\ m <= n /\ k <= m
  /\ \A i \in 1..n : f[i] \in Nat
  /\ \A i \in 1..k : g[i] = f[i]

\* Places that do not count add nothing.
LEMMA TotalExtended ==
  ASSUME NEW f, NEW n, NEW g, NEW m, NEW k, Extends(f, n, g, m, k)
  PROVE  Total(g, m, 1..k) = Total(f, n, 1..k)
<1> USE DEF Extends
<1> DEFINE h == [i \in 1..m |-> i]
<1>1. Drawn(g, 1..k, m, h, f, 1..k, n)
  BY DEF Drawn
<1> HIDE DEF h
<1> QED
  BY <1>1, TotalDrawn
----------------------------------------------------------------------------
(* The queues of ranges. *)

\* The bytes of the read of each range.
Sizes(lane) == [i \in DOMAIN lane.ranges |-> AlignedBytes(lane.ranges[i])]

LEMMA LaneTyped ==
  ASSUME NEW lane, lane \in LaneSet
  PROVE  /\ lane.ranges \in Seq(RangeSet) /\ lane.started \in Nat /\ lane.started_bytes \in Nat
         /\ Len(lane.ranges) \in Nat /\ DOMAIN lane.ranges = 1..Len(lane.ranges)
         /\ \A i \in DOMAIN lane.ranges :
              /\ lane.ranges[i] \in RangeSet
              /\ lane.ranges[i].offset \in Nat /\ lane.ranges[i].length \in Nat
              /\ lane.ranges[i].slot \in Slots \cup {NoSlot}
              /\ AlignedBytes(lane.ranges[i]) \in Nat /\ EndOf(lane.ranges[i]) \in Nat
         /\ \A i \in 1..Len(lane.ranges) : Sizes(lane)[i] \in Nat
<1>1. lane.ranges \in Seq(RangeSet) /\ lane.started \in Nat /\ lane.started_bytes \in Nat
  BY DEF LaneSet
<1>2. Len(lane.ranges) \in Nat /\ DOMAIN lane.ranges = 1..Len(lane.ranges)
  BY <1>1
<1>3. \A i \in DOMAIN lane.ranges : lane.ranges[i] \in RangeSet
  BY <1>1
<1>4. ASSUME NEW r \in RangeSet
      PROVE  r.offset \in Nat /\ r.length \in Nat /\ r.slot \in Slots \cup {NoSlot}
  BY DEF RangeSet
<1>5. ASSUME NEW r \in RangeSet PROVE AlignedBytes(r) \in Nat /\ EndOf(r) \in Nat
  BY <1>4, AlignedTyped
<1>6. \A i \in DOMAIN lane.ranges : Sizes(lane)[i] \in Nat
  BY <1>3, <1>5 DEF Sizes
<1> QED
  BY <1>1, <1>2, <1>3, <1>4, <1>5, <1>6

LEMMA StartedIs ==
  ASSUME NEW lane, LaneRight(lane)
  PROVE  Started(lane) = 1..lane.started
<1>1. lane.started \in Nat /\ Len(lane.ranges) \in Nat /\ DOMAIN lane.ranges = 1..Len(lane.ranges)
  BY LaneTyped DEF LaneRight
<1>2. lane.started <= Len(lane.ranges)
  BY DEF LaneRight
<1>3. \A i \in DOMAIN lane.ranges : lane.ranges[i].slot # NoSlot <=> i <= lane.started
  BY DEF LaneRight
<1> QED
  BY <1>1, <1>2, <1>3 DEF Started

LEMMA HeldIs ==
  ASSUME NEW lane, lane \in LaneSet, NEW s
  PROVE  s \in Held(lane) <=> s \in Slots /\ \E i \in DOMAIN lane.ranges : lane.ranges[i].slot = s
<1>1. \A i \in DOMAIN lane.ranges : lane.ranges[i].slot \in Slots \cup {NoSlot}
  BY LaneTyped
<1>2. NoSlot \notin Slots
  BY PrefetcherAssumption DEF Slots
<1> QED
  BY <1>1, <1>2 DEF Held, HeldBy

\* kept says where the ranges of w were in lane, from which those in drop are gone.
Shrunk(w, lane, kept, drop) ==
  /\ Left(kept, Len(w.ranges), Len(lane.ranges), drop)
  /\ DOMAIN w.ranges = 1..Len(w.ranges)
  /\ \A i \in DOMAIN w.ranges : w.ranges[i] = lane.ranges[kept[i]]

\* Where the places left are.
LEMMA KeptPlaces ==
  ASSUME NEW n \in Nat, NEW drop
  PROVE  LET kept == Select([i \in 1..n |-> i], (1..n) \ drop)
         IN  kept \in Seq(1..n) /\ Left(kept, Len(kept), n, drop)
<1> DEFINE id == [i \in 1..n |-> i]
           rest == (1..n) \ drop
           kept == Select(id, rest)
<1>1. id \in Seq(1..n) /\ Len(id) = n
  <2>1. id \in [1..n -> 1..n]
    OBVIOUS
  <2> QED
    BY <2>1
<1>2. \A i \in 1..n : id[i] = i
  OBVIOUS
<1> HIDE DEF id, rest
<1>3. kept \in Seq(1..n) /\ \E f : PlacedBy(f, kept, id, rest, n)
  BY <1>1, SelectPlaces
<1> HIDE DEF kept
<1>4. PICK f : PlacedBy(f, kept, id, rest, n)
  BY <1>3
<1>5. PICK m \in Nat : m = Len(kept) /\ kept \in [1..m -> 1..n]
  BY <1>3
<1>6. f \in [1..m -> 1..n]
  BY <1>4, <1>5 DEF PlacedBy
<1>7. \A i \in 1..m : f[i] \in 1..n /\ kept[i] = f[i] /\ f[i] \in rest
  BY <1>2, <1>4, <1>5, <1>6 DEF PlacedBy
<1>8. \A i, j \in 1..m : i < j => f[i] < f[j]
  BY <1>4, <1>5 DEF PlacedBy
<1>9. \A p \in 1..n : p \in rest => \E i \in 1..m : f[i] = p
  BY <1>2, <1>4, <1>5 DEF PlacedBy
<1>10. \A p \in 1..n : p \in rest <=> p \notin drop
  BY DEF rest
<1>11. Left(kept, m, n, drop)
  <2>1. \A i, j \in 1..m : i < j => kept[i] < kept[j]
    BY <1>7, <1>8
  <2>2. \A i \in 1..m : kept[i] \notin drop
    BY <1>7, <1>10
  <2>3. \A p \in 1..n : p \notin drop => \E i \in 1..m : kept[i] = p
    BY <1>7, <1>9, <1>10
  <2> QED
    BY <1>5, <2>1, <2>2, <2>3 DEF Left
<1> QED
  BY <1>3, <1>5, <1>11 DEF kept, id, rest

\* The ranges left are those of the queue that are not in drop.
LEMMA WithoutShrinks ==
  ASSUME NEW lane, LaneRight(lane), NEW drop
  PROVE  LET w == Without(lane, drop)
         IN  w.ranges \in Seq(RangeSet) /\ \E kept : Shrunk(w, lane, kept, drop)
<1>1. PICK n \in Nat : n = Len(lane.ranges) /\ DOMAIN lane.ranges = 1..n
  BY LaneTyped DEF LaneRight
<1>2. \A i \in 1..n : lane.ranges[i] \in RangeSet
  BY <1>1, LaneTyped DEF LaneRight
<1>3. PICK kept : /\ kept = Select([i \in 1..n |-> i], (1..n) \ drop)
                  /\ kept \in Seq(1..n) /\ Left(kept, Len(kept), n, drop)
  BY KeptPlaces
<1>4. PICK r : r = [k \in DOMAIN kept |-> lane.ranges[kept[k]]]
  OBVIOUS
<1>5. Without(lane, drop).ranges = r
  BY <1>1, <1>3, <1>4 DEF Without
<1>6. PICK m \in Nat : m = Len(kept) /\ DOMAIN kept = 1..m
  BY <1>3
<1>7. \A k \in 1..m : kept[k] \in 1..n /\ r[k] = lane.ranges[kept[k]] /\ r[k] \in RangeSet
  BY <1>2, <1>3, <1>4, <1>6
<1>8. r \in [1..m -> RangeSet]
  BY <1>4, <1>6, <1>7
<1>9. r \in Seq(RangeSet) /\ Len(r) = m /\ DOMAIN r = 1..m
  BY <1>8
<1> DEFINE w == Without(lane, drop)
<1> HIDE DEF w
<1>10. w.ranges = r
  BY <1>5 DEF w
<1>11. Shrunk(w, lane, kept, drop)
  <2>1. Left(kept, Len(w.ranges), Len(lane.ranges), drop)
    BY <1>1, <1>3, <1>6, <1>9, <1>10
  <2>2. DOMAIN w.ranges = 1..Len(w.ranges)
    BY <1>9, <1>10
  <2>3. \A i \in DOMAIN w.ranges : w.ranges[i] = lane.ranges[kept[i]]
    BY <1>7, <1>9, <1>10
  <2> QED
    BY <2>1, <2>2, <2>3 DEF Shrunk
<1> QED
  BY <1>9, <1>10, <1>11 DEF w

\* Drop() of some ranges, wherever they are in the queue, leaves the queue right.
LEMMA WithoutRight ==
  ASSUME NEW lane, LaneRight(lane), NEW drop \in SUBSET DOMAIN lane.ranges
  PROVE  LET w == Without(lane, drop)
         IN  /\ LaneRight(w)
             /\ w.started <= lane.started
             /\ w.started_bytes <= lane.started_bytes
<1> DEFINE w == Without(lane, drop)
<1>1. /\ w.started = lane.started - Cardinality(Uncounted(lane, drop))
      /\ w.started_bytes = lane.started_bytes - BytesAt(lane, Uncounted(lane, drop))
      /\ w = [ranges |-> w.ranges, started |-> w.started, started_bytes |-> w.started_bytes]
  BY DEF Without
<1>2. w.ranges \in Seq(RangeSet) /\ \E kept : Shrunk(w, lane, kept, drop)
  BY WithoutShrinks
<1> HIDE DEF w
<1>3. PICK kept : Shrunk(w, lane, kept, drop)
  BY <1>2
<1>4. PICK n \in Nat, m \in Nat, t \in Nat :
        /\ n = Len(lane.ranges) /\ DOMAIN lane.ranges = 1..n
        /\ m = Len(w.ranges) /\ DOMAIN w.ranges = 1..m
        /\ t = lane.started /\ t <= n
  BY <1>2, LaneTyped DEF LaneRight
<1>5. /\ Left(kept, m, n, drop)
      /\ \A i \in 1..m : w.ranges[i] = lane.ranges[kept[i]]
  BY <1>3, <1>4 DEF Shrunk
<1>6. /\ kept \in [1..m -> 1..n]
      /\ \A i, j \in 1..m : i < j => kept[i] < kept[j]
      /\ \A i \in 1..m : kept[i] \notin drop
      /\ \A p \in 1..n : p \notin drop => \E i \in 1..m : kept[i] = p
  BY <1>5 DEF Left
<1>7. Uncounted(lane, drop) = drop \cap (1..t)
  BY <1>4, StartedIs DEF Uncounted
<1>8. PICK l : l = t - Cardinality(drop \cap (1..t))
  OBVIOUS
<1>9. l \in 0..m /\ \A i \in 1..m : kept[i] <= t <=> i <= l
  <2>1. t \in 0..n
    BY <1>4
  <2> QED
    BY <1>5, <1>8, <2>1, PrefixLeft
<1>10. w.started = l
  BY <1>1, <1>4, <1>7, <1>8
<1>11. l <= t
  <2>1. (drop \cap (1..t)) \in SUBSET (1..t)
    OBVIOUS
  <2>2. Cardinality(drop \cap (1..t)) \in 0..t
    BY <2>1, PlacesCounted
  <2> QED
    BY <1>8, <2>2
<1>12. PICK sizes, left : sizes = Sizes(lane) /\ left = Sizes(w)
  OBVIOUS
<1>13. /\ \A i \in 1..n : sizes[i] \in Nat
       /\ \A i \in 1..m : left[i] = sizes[kept[i]]
  <2>1. \A i \in 1..n : sizes[i] \in Nat
    BY <1>4, <1>12, LaneTyped DEF LaneRight
  <2>2. \A i \in 1..m : left[i] = sizes[kept[i]]
    BY <1>4, <1>5, <1>6, <1>12 DEF Sizes
  <2> QED
    BY <2>1, <2>2
<1>14. PICK gone, rest : gone = drop \cap (1..t) /\ rest = (1..t) \ drop
  OBVIOUS
<1>15. Total(sizes, n, 1..t) = Total(sizes, n, gone) + Total(sizes, n, rest)
  <2>1. PICK all : all = 1..t
    OBVIOUS
  <2>2. gone \cup rest = all /\ gone \cap rest = {}
    BY <1>14, <2>1
  <2>3. Total(sizes, n, all) = Total(sizes, n, gone) + Total(sizes, n, rest)
    BY <1>13, <2>2, TotalSplits
  <2> QED
    BY <2>1, <2>3
<1>16. Total(left, m, 1..l) = Total(sizes, n, rest)
  <2>1. \A i \in 1..m : i \in 1..l <=> kept[i] \in rest
    BY <1>6, <1>9, <1>14
  <2>2. \A p \in 1..n : p \in rest => \E i \in 1..m : kept[i] = p
    BY <1>6, <1>14
  <2>3. Drawn(left, 1..l, m, kept, sizes, rest, n)
    BY <1>6, <1>13, <2>1, <2>2 DEF Drawn
  <2> QED
    BY <1>13, <2>3, TotalDrawn
<1>17. PICK a \in Nat, b \in Nat : a = Total(sizes, n, gone) /\ b = Total(sizes, n, rest)
  <2>1. Total(sizes, n, gone) \in Nat
    BY <1>13, TotalTyped
  <2>2. Total(sizes, n, rest) \in Nat
    BY <1>13, TotalTyped
  <2> QED
    BY <2>1, <2>2
<1>18. lane.started_bytes = a + b
  <2>1. lane.started_bytes = BytesAt(lane, 1..t)
    BY <1>4 DEF LaneRight
  <2>2. BytesAt(lane, 1..t) = Total(sizes, n, 1..t)
    BY <1>4, <1>12 DEF BytesAt, Sizes
  <2> QED
    BY <1>15, <1>17, <2>1, <2>2
<1>19. w.started_bytes = b
  <2>1. BytesAt(lane, gone) = Total(sizes, n, gone)
    BY <1>4, <1>12 DEF BytesAt, Sizes
  <2>2. w.started_bytes = (a + b) - a
    BY <1>1, <1>7, <1>14, <1>17, <1>18, <2>1
  <2> QED
    BY <2>2
<1>20. w.started_bytes = BytesAt(w, 1..w.started)
  <2>1. BytesAt(w, 1..l) = Total(left, m, 1..l)
    BY <1>4, <1>12 DEF BytesAt, Sizes
  <2> QED
    BY <1>10, <1>16, <1>17, <1>19, <2>1
<1>21. \A i \in 1..m : kept[i] \in 1..n /\ w.ranges[i] = lane.ranges[kept[i]]
  BY <1>5, <1>6
<1>22. LaneRight(w)
  <2>1. w \in LaneSet
    <3>1. w.ranges \in Seq(RangeSet) /\ w.started \in Nat /\ w.started_bytes \in Nat
      BY <1>2, <1>9, <1>10, <1>19
    <3> QED
      BY <1>1, <3>1 DEF LaneSet
  <2>2. w.started <= Len(w.ranges)
    BY <1>4, <1>9, <1>10
  <2>3. \A i \in DOMAIN w.ranges : w.ranges[i].slot # NoSlot <=> i <= w.started
    <3>1. \A j \in 1..n : lane.ranges[j].slot # NoSlot <=> j <= t
      BY <1>4 DEF LaneRight
    <3> QED
      BY <1>4, <1>9, <1>10, <1>21, <3>1
  <2>4. ASSUME NEW i \in DOMAIN w.ranges, NEW j \in DOMAIN w.ranges,
               w.ranges[i].slot = w.ranges[j].slot, w.ranges[i].slot # NoSlot
        PROVE  i = j
    <3>1. i \in 1..m /\ j \in 1..m
      BY <1>4
    <3>2. \A x, y \in 1..n :
            lane.ranges[x].slot = lane.ranges[y].slot /\ lane.ranges[x].slot # NoSlot => x = y
      BY <1>4 DEF LaneRight
    <3>3. kept[i] = kept[j]
      BY <1>21, <2>4, <3>1, <3>2
    <3>4. kept[i] \in Nat /\ (i < j => kept[i] < kept[j]) /\ (j < i => kept[j] < kept[i])
      BY <1>6, <3>1
    <3> QED
      BY <3>1, <3>3, <3>4
  <2>5. \A i \in DOMAIN w.ranges : Bounded(w.ranges[i])
    BY <1>4, <1>21 DEF LaneRight
  <2> QED
    BY <1>20, <2>1, <2>2, <2>3, <2>4, <2>5 DEF LaneRight
<1>23. w.started <= lane.started /\ w.started_bytes <= lane.started_bytes
  BY <1>4, <1>10, <1>11, <1>18, <1>19
<1> QED
  BY <1>22, <1>23 DEF w

\* Every range left is one of those not dropped, and the other way round.
LEMMA LeftRanges ==
  ASSUME NEW lane, LaneRight(lane), NEW drop \in SUBSET DOMAIN lane.ranges
  PROVE  LET w == Without(lane, drop)
         IN  /\ \A i \in DOMAIN w.ranges :
                  \E j \in DOMAIN lane.ranges \ drop : w.ranges[i] = lane.ranges[j]
             /\ \A j \in DOMAIN lane.ranges \ drop :
                  \E i \in DOMAIN w.ranges : w.ranges[i] = lane.ranges[j]
<1> DEFINE w == Without(lane, drop)
<1>1. \E kept : Shrunk(w, lane, kept, drop)
  BY WithoutShrinks
<1> HIDE DEF w
<1>2. PICK kept : Shrunk(w, lane, kept, drop)
  BY <1>1
<1>3. PICK n \in Nat : n = Len(lane.ranges) /\ DOMAIN lane.ranges = 1..n
  BY LaneTyped DEF LaneRight
<1>4. PICK m : m = Len(w.ranges) /\ DOMAIN w.ranges = 1..m /\ Left(kept, m, n, drop)
  BY <1>2, <1>3 DEF Shrunk
<1>5. \A i \in 1..m : w.ranges[i] = lane.ranges[kept[i]]
  BY <1>2, <1>4 DEF Shrunk
<1>6. /\ \A i \in 1..m : kept[i] \in (1..n) \ drop
      /\ \A p \in (1..n) \ drop : \E i \in 1..m : kept[i] = p
  BY <1>4 DEF Left
<1>7. \A i \in DOMAIN w.ranges :
        \E j \in DOMAIN lane.ranges \ drop : w.ranges[i] = lane.ranges[j]
  BY <1>3, <1>4, <1>5, <1>6
<1>8. \A j \in DOMAIN lane.ranges \ drop :
        \E i \in DOMAIN w.ranges : w.ranges[i] = lane.ranges[j]
  BY <1>3, <1>4, <1>5, <1>6
<1> QED
  BY <1>7, <1>8 DEF w

\* The slots left are those that are not given back.
LEMMA LeftHeld ==
  ASSUME NEW lane, LaneRight(lane), NEW drop \in SUBSET DOMAIN lane.ranges, NEW s
  PROVE  s \in Held(Without(lane, drop)) <=> s \in Held(lane) /\ s \notin HeldBy(lane, drop)
<1> DEFINE w == Without(lane, drop)
<1>1. /\ \A i \in DOMAIN w.ranges :
           \E j \in DOMAIN lane.ranges \ drop : w.ranges[i] = lane.ranges[j]
      /\ \A j \in DOMAIN lane.ranges \ drop :
           \E i \in DOMAIN w.ranges : w.ranges[i] = lane.ranges[j]
  BY LeftRanges
<1> HIDE DEF w
<1>2. \A i, j \in DOMAIN lane.ranges :
        lane.ranges[i].slot = lane.ranges[j].slot /\ lane.ranges[i].slot # NoSlot => i = j
  BY DEF LaneRight
<1>3. s \in Held(w) => s \in Held(lane) /\ s \notin HeldBy(lane, drop)
  <2> SUFFICES ASSUME s \in Held(w) PROVE s \in Held(lane) /\ s \notin HeldBy(lane, drop)
    OBVIOUS
  <2>1. s # NoSlot
    BY DEF Held, HeldBy
  <2>2. PICK i \in DOMAIN w.ranges : w.ranges[i].slot = s
    BY DEF Held, HeldBy
  <2>3. PICK j \in DOMAIN lane.ranges \ drop : lane.ranges[j].slot = s
    BY <1>1, <2>2
  <2>4. s \in Held(lane)
    BY <2>1, <2>3 DEF Held, HeldBy
  <2>5. ASSUME s \in HeldBy(lane, drop) PROVE FALSE
    <3>1. PICK k \in drop : lane.ranges[k].slot = s
      BY <2>5 DEF HeldBy
    <3> QED
      BY <1>2, <2>1, <2>3, <3>1
  <2> QED
    BY <2>4, <2>5
<1>4. s \in Held(lane) /\ s \notin HeldBy(lane, drop) => s \in Held(w)
  <2> SUFFICES ASSUME s \in Held(lane), s \notin HeldBy(lane, drop) PROVE s \in Held(w)
    OBVIOUS
  <2>1. s # NoSlot
    BY DEF Held, HeldBy
  <2>2. PICK j \in DOMAIN lane.ranges : lane.ranges[j].slot = s
    BY DEF Held, HeldBy
  <2>3. j \notin drop
    BY <2>1, <2>2 DEF HeldBy
  <2>4. PICK i \in DOMAIN w.ranges : w.ranges[i].slot = s
    BY <1>1, <2>2, <2>3
  <2> QED
    BY <2>1, <2>4 DEF Held, HeldBy
<1> QED
  BY <1>3, <1>4 DEF w

\* w is lane with range, which has no slot, at its end.
Announces(w, lane, range) ==
  w = [lane EXCEPT !.ranges = Append(@, Announced(range))]

\* A range announced leaves the queue right.
LEMMA AnnouncedRight ==
  ASSUME NEW lane, LaneRight(lane), NEW range \in [offset : Nat, length : Nat], Bounded(range),
         NEW w, Announces(w, lane, range)
  PROVE  /\ LaneRight(w)
         /\ w.started = lane.started /\ w.started_bytes = lane.started_bytes
         /\ Len(w.ranges) = Len(lane.ranges) + 1
         /\ \A i \in DOMAIN lane.ranges : i \in DOMAIN w.ranges /\ w.ranges[i] = lane.ranges[i]
         /\ w.ranges[Len(lane.ranges) + 1].slot = NoSlot
<1>1. PICK n \in Nat, t \in Nat : /\ n = Len(lane.ranges) /\ DOMAIN lane.ranges = 1..n
                                  /\ lane.ranges \in Seq(RangeSet)
                                  /\ t = lane.started /\ t <= n /\ lane.started_bytes \in Nat
  BY LaneTyped DEF LaneRight
<1> DEFINE a == Announced(range)
           r == Append(lane.ranges, a)
<1>2. /\ a \in RangeSet /\ a.slot = NoSlot
      /\ a.offset = range.offset /\ a.length = range.length
  BY DEF Announced, RangeSet
<1> HIDE DEF a
<1>3. /\ r \in Seq(RangeSet) /\ Len(r) = n + 1
      /\ DOMAIN r = 1..(n + 1) /\ r[n + 1] = a
      /\ \A i \in 1..n : r[i] = lane.ranges[i]
  BY <1>1, <1>2
<1>4. w = [ranges |-> r, started |-> t, started_bytes |-> lane.started_bytes]
  BY <1>1 DEF Announces, LaneRight, LaneSet, a
<1> HIDE DEF r
<1>5. w.ranges = r /\ w.started = t /\ w.started_bytes = lane.started_bytes
  BY <1>4
<1>6. w \in LaneSet
  BY <1>1, <1>3, <1>4 DEF LaneSet
<1>7. w.started_bytes = BytesAt(w, 1..w.started)
  <2>1. PICK f, g : f = Sizes(lane) /\ g = Sizes(w)
    OBVIOUS
  <2>2. \A i \in 1..(n + 1) : g[i] \in Nat
    BY <1>3, <1>5, <1>6, <2>1, LaneTyped
  <2>3. \A i \in 1..t : f[i] = g[i]
    BY <1>1, <1>3, <1>5, <2>1 DEF Sizes
  <2>4. Total(f, n, 1..t) = Total(g, n + 1, 1..t)
    <3>1. PICK k \in Nat : k = n + 1 /\ n <= k
      OBVIOUS
    <3>2. \A i \in 1..k : g[i] \in Nat
      BY <2>2, <3>1
    <3>3. t <= n /\ n <= k
      BY <1>1, <3>1
    <3>4. Extends(g, k, f, n, t)
      BY <2>3, <3>2, <3>3 DEF Extends
    <3>5. Total(f, n, 1..t) = Total(g, k, 1..t)
      BY <3>4, TotalExtended
    <3> QED
      BY <3>1, <3>5
  <2>5. BytesAt(lane, 1..t) = Total(f, n, 1..t)
    BY <1>1, <2>1 DEF BytesAt, Sizes
  <2>6. BytesAt(w, 1..t) = Total(g, n + 1, 1..t)
    BY <1>3, <1>5, <2>1 DEF BytesAt, Sizes
  <2>7. lane.started_bytes = BytesAt(lane, 1..t)
    BY <1>1 DEF LaneRight
  <2> QED
    BY <1>5, <2>4, <2>5, <2>6, <2>7
<1>8. \A i \in 1..n : lane.ranges[i].slot # NoSlot <=> i <= t
  BY <1>1 DEF LaneRight
<1>9. ASSUME NEW i \in DOMAIN w.ranges PROVE w.ranges[i].slot # NoSlot <=> i <= w.started
  <2>1. CASE i \in 1..n
    BY <1>3, <1>5, <1>8, <2>1
  <2>2. CASE i = n + 1
    <3>1. ~(i <= t)
      BY <1>1, <2>2
    <3> QED
      BY <1>2, <1>3, <1>5, <2>2, <3>1
  <2>3. i \in 1..n \/ i = n + 1
    BY <1>3, <1>5
  <2> QED
    BY <2>1, <2>2, <2>3
<1>10. \A i, j \in 1..n :
         lane.ranges[i].slot = lane.ranges[j].slot /\ lane.ranges[i].slot # NoSlot => i = j
  BY <1>1 DEF LaneRight
<1>11. \A i, j \in DOMAIN w.ranges :
         w.ranges[i].slot = w.ranges[j].slot /\ w.ranges[i].slot # NoSlot => i = j
  BY <1>2, <1>3, <1>5, <1>10
<1>12. \A i \in DOMAIN w.ranges : Bounded(w.ranges[i])
  <2>1. Bounded(a)
    BY <1>2, AlignedSame
  <2>2. \A i \in 1..n : Bounded(lane.ranges[i])
    BY <1>1 DEF LaneRight
  <2> QED
    BY <1>3, <1>5, <2>1, <2>2
<1>13. w.started <= Len(w.ranges)
  BY <1>1, <1>3, <1>5
<1>14. LaneRight(w)
  BY <1>6, <1>7, <1>9, <1>11, <1>12, <1>13 DEF LaneRight
<1> QED
  BY <1>1, <1>2, <1>3, <1>5, <1>14

\* The read of the next range started in slot s.
LEMMA StartedRight ==
  ASSUME NEW lane, LaneRight(lane), lane.started < Len(lane.ranges),
         NEW s \in Slots, s \notin Held(lane), NEW w, w = StartedIn(lane, s)
  PROVE  LET k == lane.started + 1
         IN  /\ LaneRight(w)
             /\ k \in DOMAIN lane.ranges
             /\ w.started = k
             /\ w.started_bytes = lane.started_bytes + AlignedBytes(lane.ranges[k])
             /\ DOMAIN w.ranges = DOMAIN lane.ranges
             /\ \A i \in DOMAIN w.ranges :
                  /\ w.ranges[i].offset = lane.ranges[i].offset
                  /\ w.ranges[i].length = lane.ranges[i].length
                  /\ w.ranges[i].slot = IF i = k THEN s ELSE lane.ranges[i].slot
<1>1. PICK n \in Nat, t \in Nat : /\ n = Len(lane.ranges) /\ DOMAIN lane.ranges = 1..n
                                  /\ lane.ranges \in Seq(RangeSet)
                                  /\ t = lane.started /\ t < n /\ lane.started_bytes \in Nat
  BY LaneTyped DEF LaneRight
<1>2. PICK k \in 1..n : k = t + 1
  BY <1>1
<1>3. \A i \in 1..n : /\ lane.ranges[i] \in RangeSet /\ AlignedBytes(lane.ranges[i]) \in Nat
  BY <1>1, LaneTyped DEF LaneRight
<1> DEFINE q == [lane.ranges[k] EXCEPT !.slot = s]
           r == [lane.ranges EXCEPT ![k].slot = s]
<1>4. /\ q \in RangeSet /\ q.slot = s
      /\ q.offset = lane.ranges[k].offset /\ q.length = lane.ranges[k].length
  <2>1. lane.ranges[k] \in RangeSet
    BY <1>3
  <2> QED
    BY <2>1 DEF RangeSet
<1>5. r = [lane.ranges EXCEPT ![k] = q]
  OBVIOUS
<1>6. w.ranges = r /\ w.started = k /\ w.started_bytes = lane.started_bytes + AlignedBytes(lane.ranges[k])
  BY <1>1, <1>2 DEF StartedIn
<1>7. w = [ranges |-> w.ranges, started |-> w.started, started_bytes |-> w.started_bytes]
  BY DEF StartedIn
<1> HIDE DEF r, q
<1>8. /\ r \in Seq(RangeSet) /\ Len(r) = n /\ DOMAIN r = 1..n /\ r[k] = q
      /\ \A i \in 1..n : i # k => r[i] = lane.ranges[i]
  BY <1>1, <1>2, <1>4, <1>5
<1>9. \A i \in 1..n : /\ r[i].offset = lane.ranges[i].offset
                      /\ r[i].length = lane.ranges[i].length
                      /\ r[i].slot = IF i = k THEN s ELSE lane.ranges[i].slot
  BY <1>4, <1>8
<1>10. \A i \in 1..n : /\ AlignedBytes(r[i]) = AlignedBytes(lane.ranges[i])
                       /\ Bounded(r[i]) <=> Bounded(lane.ranges[i])
  BY <1>9, AlignedSame
<1>11. w \in LaneSet
  <2>1. w.started_bytes \in Nat
    BY <1>1, <1>3, <1>6
  <2>2. w.ranges \in Seq(RangeSet) /\ w.started \in Nat
    BY <1>2, <1>6, <1>8
  <2> QED
    BY <1>7, <2>1, <2>2 DEF LaneSet
<1>12. w.started_bytes = BytesAt(w, 1..w.started)
  <2>1. PICK f : f = Sizes(lane)
    OBVIOUS
  <2>2. Sizes(w) = f
    BY <1>1, <1>6, <1>8, <1>10, <2>1 DEF Sizes
  <2>3. \A i \in 1..n : f[i] \in Nat
    BY <1>1, <1>3, <2>1 DEF Sizes
  <2>4. Total(f, n, 1..(t + 1)) = Total(f, n, 1..t) + f[t + 1]
    BY <1>1, <2>3, TotalOneMore
  <2>5. lane.started_bytes = Total(f, n, 1..t)
    BY <1>1, <2>1 DEF LaneRight, BytesAt, Sizes
  <2>6. f[k] = AlignedBytes(lane.ranges[k])
    BY <1>1, <2>1 DEF Sizes
  <2>7. BytesAt(w, 1..k) = Total(f, n, 1..k)
    BY <1>6, <1>8, <2>2 DEF BytesAt, Sizes
  <2> QED
    BY <1>2, <1>6, <2>4, <2>5, <2>6, <2>7
<1>13. \A i \in 1..n : lane.ranges[i].slot # NoSlot <=> i <= t
  BY <1>1 DEF LaneRight
<1>14. s # NoSlot /\ \A i \in 1..n : lane.ranges[i].slot # s
  <2>1. s # NoSlot
    BY PrefetcherAssumption DEF Slots
  <2> QED
    BY <1>1, <2>1 DEF Held, HeldBy
<1>15. \A i \in DOMAIN w.ranges : w.ranges[i].slot # NoSlot <=> i <= w.started
  <2>1. ASSUME NEW i \in 1..n PROVE r[i].slot # NoSlot <=> i <= k
    <3>1. CASE i = k
      BY <1>9, <1>14, <3>1
    <3>2. CASE i # k
      <4>1. i <= k <=> i <= t
        BY <1>2, <3>2
      <4> QED
        BY <1>9, <1>13, <3>2, <4>1
    <3> QED
      BY <3>1, <3>2
  <2> QED
    BY <1>6, <1>8, <2>1
<1>16. \A i, j \in DOMAIN w.ranges :
         w.ranges[i].slot = w.ranges[j].slot /\ w.ranges[i].slot # NoSlot => i = j
  <2>1. \A i, j \in 1..n :
          lane.ranges[i].slot = lane.ranges[j].slot /\ lane.ranges[i].slot # NoSlot => i = j
    BY <1>1 DEF LaneRight
  <2>2. \A i, j \in 1..n : r[i].slot = r[j].slot /\ r[i].slot # NoSlot => i = j
    BY <1>9, <1>14, <2>1
  <2> QED
    BY <1>6, <1>8, <2>2
<1>17. \A i \in DOMAIN w.ranges : Bounded(w.ranges[i])
  BY <1>1, <1>6, <1>8, <1>10 DEF LaneRight
<1>18. w.started <= Len(w.ranges)
  BY <1>6, <1>8
<1>19. LaneRight(w)
  BY <1>11, <1>12, <1>15, <1>16, <1>17, <1>18 DEF LaneRight
<1> QED
  BY <1>1, <1>2, <1>6, <1>8, <1>9, <1>19

\* The slots of the queue are s besides.
LEMMA StartedHeld ==
  ASSUME NEW lane, LaneRight(lane), lane.started < Len(lane.ranges),
         NEW s \in Slots, s \notin Held(lane), NEW w, w = StartedIn(lane, s), NEW x
  PROVE  x \in Held(w) <=> x \in Held(lane) \/ x = s
<1>1. PICK k : k = lane.started + 1
  OBVIOUS
<1>2. /\ LaneRight(w) /\ k \in DOMAIN lane.ranges /\ DOMAIN w.ranges = DOMAIN lane.ranges
      /\ \A i \in DOMAIN w.ranges : w.ranges[i].slot = IF i = k THEN s ELSE lane.ranges[i].slot
  BY <1>1, StartedRight
<1>3. lane.ranges[k].slot = NoSlot
  <2>1. k \in DOMAIN lane.ranges /\ ~(k <= lane.started)
    BY <1>1, <1>2, LaneTyped DEF LaneRight
  <2> QED
    BY <2>1 DEF LaneRight
<1>4. s # NoSlot
  BY PrefetcherAssumption DEF Slots
<1> QED
  BY <1>2, <1>3, <1>4 DEF Held, HeldBy
----------------------------------------------------------------------------
(* The slots, and Drop(). *)

LEMMA SlotsFinite ==
  ASSUME NEW T \in SUBSET Slots
  PROVE  IsFiniteSet(T) /\ Cardinality(T) \in Nat
<1>1. MaxSlots \in Nat
  BY PrefetcherAssumption
<1>2. T \in SUBSET (1..MaxSlots)
  BY DEF Slots
<1>3. IsFiniteSet(T) /\ Cardinality(T) \in 0..MaxSlots
  BY <1>1, <1>2, PlacesCounted
<1> QED
  BY <1>1, <1>3

LEMMA FewerSlots ==
  ASSUME NEW T \in SUBSET Slots, NEW U \in SUBSET T
  PROVE  Cardinality(U) \in Nat /\ Cardinality(U) <= Cardinality(T)
<1>1. IsFiniteSet(T)
  BY SlotsFinite
<1>2. U \in SUBSET Slots
  OBVIOUS
<1>3. Cardinality(U) \in Nat
  BY <1>2, SlotsFinite
<1>4. Cardinality(U) <= Cardinality(T)
  BY <1>1, FS_Subset
<1> QED
  BY <1>3, <1>4

LEMMA FewerReads ==
  ASSUME NEW sl, NEW t, ReadsCapped(sl), Flying(t) \subseteq Flying(sl)
  PROVE  ReadsCapped(t)
<1>1. Flying(sl) \in SUBSET Slots /\ Flying(t) \in SUBSET Flying(sl)
  BY DEF Flying
<1>2. Cardinality(Flying(sl)) \in Nat
  BY <1>1, SlotsFinite
<1>3. Cardinality(Flying(t)) \in Nat /\ Cardinality(Flying(t)) <= Cardinality(Flying(sl))
  BY <1>1, FewerSlots
<1>4. PICK p \in Patterns : Cardinality(Flying(sl)) <= Caps[p].max_reads
  BY DEF ReadsCapped
<1>5. Caps[p].max_reads \in Nat
  BY CapsTyped
<1>6. Cardinality(Flying(t)) <= Caps[p].max_reads
  BY <1>2, <1>3, <1>4, <1>5
<1> QED
  BY <1>6 DEF ReadsCapped

LEMMA FewerBytes ==
  ASSUME NEW fi, NEW st, BytesCapped(fi, st), NEW gi, NEW su,
         fi.started_bytes \in Nat, st.started_bytes \in Nat,
         gi.started_bytes \in Nat, su.started_bytes \in Nat,
         gi.started_bytes <= fi.started_bytes, su.started_bytes <= st.started_bytes
  PROVE  BytesCapped(gi, su)
<1>1. PICK p \in Patterns : st.started_bytes <= LaneCap(p)
  BY DEF BytesCapped
<1>2. PICK r \in Patterns, q \in Patterns :
        fi.started_bytes + st.started_bytes <= LaneCap(r) + Caps[q].max_range_bytes
  BY DEF BytesCapped
<1>3. LaneCap(p) \in Nat /\ LaneCap(r) \in Nat /\ Caps[q].max_range_bytes \in Nat
  BY CapsTyped
<1>4. su.started_bytes <= LaneCap(p)
  BY <1>1, <1>3
<1>5. gi.started_bytes + su.started_bytes <= LaneCap(r) + Caps[q].max_range_bytes
  BY <1>2, <1>3
<1> QED
  BY <1>4, <1>5 DEF BytesCapped

LEMMA FreeRight ==
  ASSUME NEW m
  PROVE  SlotRight(FreeSlot, m) /\ FreeSlot.os = {} /\ FreeSlot.in_use = FALSE
<1>1. /\ FreeSlot.os = {} /\ FreeSlot.in_use = FALSE /\ FreeSlot.pending = FALSE
      /\ FreeSlot.got = 0
  BY DEF FreeSlot
<1>2. FreeSlot \in SlotSet
  BY DEF FreeSlot, SlotSet, Places
<1> QED
  BY <1>1, <1>2 DEF SlotRight

\* t is sl once the slots in gone are free.
Freed(t, sl, gone) ==
  /\ DOMAIN t = Slots
  /\ \A s \in Slots : t[s] = IF s \in gone THEN FreeSlot ELSE sl[s]

LEMMA FreedIs ==
  ASSUME NEW lane, NEW drop
  PROVE  Freed(SlotsWithout(lane, drop), slots, HeldBy(lane, drop))
  BY DEF Freed, SlotsWithout, Released

\* Slots given back hold nothing, and no read is started by it.
LEMMA FreedRight ==
  ASSUME NEW sl, NEW m, SlotsRight(sl, m), ReadsCapped(sl), NEW t, NEW gone, Freed(t, sl, gone)
  PROVE  SlotsRight(t, m) /\ ReadsCapped(t) /\ \A s \in Slots : t[s].os # {} => t[s] = sl[s]
<1>1. SlotRight(FreeSlot, m) /\ FreeSlot.os = {}
  BY FreeRight
<1>2. \A s \in Slots : SlotRight(t[s], m)
  BY <1>1 DEF Freed, SlotsRight
<1>3. \A s \in Slots : t[s].os # {} => t[s] = sl[s]
  BY <1>1 DEF Freed
<1>4. Flying(t) \subseteq Flying(sl)
  BY <1>3 DEF Flying
<1>5. ReadsCapped(t)
  BY <1>4, FewerReads
<1> QED
  BY <1>2, <1>3, <1>5 DEF SlotsRight, Freed

\* Drop() of ranges of lane, while other is the queue it leaves alone.
LEMMA DropShares ==
  ASSUME NEW lane, LaneRight(lane), NEW other, LaneRight(other), NEW sl,
         Shared(lane, other, sl), NEW drop \in SUBSET DOMAIN lane.ranges,
         NEW w, w = Without(lane, drop), NEW t, Freed(t, sl, HeldBy(lane, drop))
  PROVE  Shared(w, other, t)
<1>1. PICK gone : gone = HeldBy(lane, drop)
  OBVIOUS
<1>2. \A s : s \in Held(w) <=> s \in Held(lane) /\ s \notin gone
  BY <1>1, LeftHeld
<1>3. \A s \in gone : s \in Held(lane)
  BY <1>1 DEF Held, HeldBy
<1>4. \A s \in Slots : t[s] = IF s \in gone THEN FreeSlot ELSE sl[s]
  BY <1>1 DEF Freed
<1>5. \A s \in Slots : ~(s \in Held(lane) /\ s \in Held(other))
  BY DEF Shared
<1>6. \A s \in Slots : sl[s].in_use <=> s \in Held(lane) \/ s \in Held(other)
  BY DEF Shared
<1>7. \A s \in Slots : ~(s \in Held(w) /\ s \in Held(other))
  BY <1>2, <1>5
<1>8. \A s \in Slots : t[s].in_use <=> s \in Held(w) \/ s \in Held(other)
  <2> TAKE s \in Slots
  <2>1. FreeSlot.in_use = FALSE
    BY FreeRight
  <2> QED
    BY <1>2, <1>3, <1>4, <1>5, <1>6, <2>1
<1>9. Fits(other, t)
  <2> SUFFICES ASSUME NEW i \in DOMAIN other.ranges, other.ranges[i].slot # NoSlot
               PROVE  t[other.ranges[i].slot].start = AlignDown(other.ranges[i].offset)
    BY DEF Fits
  <2>1. PICK s \in Slots : s = other.ranges[i].slot
    BY LaneTyped DEF LaneRight
  <2>2. s \in Held(other)
    BY <2>1, HeldIs DEF LaneRight
  <2>3. t[s] = sl[s]
    BY <1>3, <1>4, <1>5, <2>2
  <2> QED
    BY <2>1, <2>3 DEF Shared, Fits
<1>10. Fits(w, t)
  <2> SUFFICES ASSUME NEW i \in DOMAIN w.ranges, w.ranges[i].slot # NoSlot
               PROVE  t[w.ranges[i].slot].start = AlignDown(w.ranges[i].offset)
    BY DEF Fits
  <2>1. PICK j \in DOMAIN lane.ranges : w.ranges[i] = lane.ranges[j]
    BY LeftRanges
  <2>2. PICK s \in Slots : s = lane.ranges[j].slot
    BY <2>1, LaneTyped DEF LaneRight
  <2>3. s \in Held(w)
    BY <2>1, <2>2 DEF Held, HeldBy
  <2>4. t[s] = sl[s]
    BY <1>2, <1>4, <2>3
  <2>5. sl[s].start = AlignDown(lane.ranges[j].offset)
    BY <2>1, <2>2 DEF Shared, Fits
  <2> QED
    BY <2>1, <2>2, <2>4, <2>5
<1> QED
  BY <1>7, <1>8, <1>9, <1>10 DEF Shared

LEMMA SharedBack ==
  ASSUME NEW fi, NEW st, NEW sl, Shared(fi, st, sl)
  PROVE  Shared(st, fi, sl)
  BY DEF Shared

\* Drop() of ranges of the first queue.
LEMMA DropFirstRight ==
  ASSUME LanesRight, NEW drop \in SUBSET DOMAIN first.ranges, DropFirst(drop), medium' = medium
  PROVE  LanesRight'
<1>1. LaneRight(first) /\ LaneRight(standing) /\ Shared(first, standing, slots)
  BY DEF LanesRight
<1>2. first' = Without(first, drop) /\ standing' = standing /\ reading' = reading
  BY DEF DropFirst
<1>3. Freed(slots', slots, HeldBy(first, drop))
  BY FreedIs DEF DropFirst
<1>4. LaneRight(first') /\ first'.started_bytes <= first.started_bytes
  BY <1>1, <1>2, WithoutRight
<1>5. LaneRight(standing')
  BY <1>1, <1>2
<1>6. Shared(first', standing, slots')
  BY <1>1, <1>2, <1>3, DropShares
<1>7. /\ SlotsRight(slots', medium) /\ ReadsCapped(slots')
      /\ \A s \in Slots : slots'[s].os # {} => slots'[s] = slots[s]
  BY <1>3, FreedRight DEF LanesRight
<1>8. ReadingRight(reading, standing, slots')
  BY <1>7 DEF LanesRight, ReadingRight
<1>9. BytesCapped(first', standing)
  <2>1. first.started_bytes \in Nat /\ standing.started_bytes \in Nat /\ first'.started_bytes \in Nat
    BY <1>1, <1>4, LaneTyped DEF LaneRight
  <2>2. standing.started_bytes <= standing.started_bytes
    BY <2>1
  <2> QED
    BY <1>4, <2>1, <2>2, FewerBytes DEF LanesRight
<1> QED
  BY <1>2, <1>4, <1>5, <1>6, <1>7, <1>8, <1>9 DEF LanesRight

\* What is selected from a list of slots is a list of those selected, each once.
LEMMA SelectedOnce ==
  ASSUME NEW rd \in Seq(Slots), \A i, j \in DOMAIN rd : rd[i] = rd[j] => i = j, NEW T
  PROVE  LET r == Select(rd, T)
         IN  /\ r \in Seq(Slots)
             /\ \A i, j \in DOMAIN r : r[i] = r[j] => i = j
             /\ \A i \in DOMAIN r : r[i] \in T /\ \E j \in DOMAIN rd : r[i] = rd[j]
             /\ \A j \in DOMAIN rd : rd[j] \in T => \E i \in DOMAIN r : r[i] = rd[j]
<1> DEFINE r == Select(rd, T)
<1>1. r \in Seq(Slots) /\ \E f : PlacedBy(f, r, rd, T, Len(rd))
  BY SelectPlaces
<1> HIDE DEF r
<1>2. PICK f : PlacedBy(f, r, rd, T, Len(rd))
  BY <1>1
<1>3. PICK m \in Nat, n \in Nat : DOMAIN r = 1..m /\ m = Len(r) /\ DOMAIN rd = 1..n /\ n = Len(rd)
  BY <1>1
<1>4. /\ f \in [1..m -> 1..n]
      /\ \A i, j \in 1..m : i < j => f[i] < f[j]
      /\ \A i \in 1..m : r[i] = rd[f[i]] /\ rd[f[i]] \in T
      /\ \A p \in 1..n : rd[p] \in T => \E i \in 1..m : f[i] = p
  BY <1>2, <1>3 DEF PlacedBy
<1>5. ASSUME NEW i \in 1..m, NEW j \in 1..m, r[i] = r[j] PROVE i = j
  <2>1. f[i] \in 1..n /\ f[j] \in 1..n /\ f[i] = f[j]
    BY <1>3, <1>4, <1>5
  <2>2. (i < j => f[i] < f[j]) /\ (j < i => f[j] < f[i])
    BY <1>4
  <2> QED
    BY <2>1, <2>2
<1>6. \A i \in 1..m : r[i] \in T /\ \E j \in 1..n : r[i] = rd[j]
  BY <1>4
<1>7. \A j \in 1..n : rd[j] \in T => \E i \in 1..m : r[i] = rd[j]
  BY <1>4
<1>8. /\ \A i, j \in DOMAIN r : r[i] = r[j] => i = j
      /\ \A i \in DOMAIN r : r[i] \in T /\ \E j \in DOMAIN rd : r[i] = rd[j]
      /\ \A j \in DOMAIN rd : rd[j] \in T => \E i \in DOMAIN r : r[i] = rd[j]
  BY <1>3, <1>5, <1>6, <1>7
<1> QED
  BY <1>1, <1>8 DEF r

\* Drop() of ranges of the standing lane: their reads are not listed any more.
LEMMA DropStandingRight ==
  ASSUME LanesRight, NEW drop \in SUBSET DOMAIN standing.ranges, DropStanding(drop),
         medium' = medium
  PROVE  LanesRight'
<1>1. LaneRight(first) /\ LaneRight(standing) /\ Shared(first, standing, slots)
  BY DEF LanesRight
<1>2. /\ standing' = Without(standing, drop) /\ first' = first
      /\ reading' = ReadingWithout(HeldBy(standing, drop))
  BY DEF DropStanding
<1>3. Freed(slots', slots, HeldBy(standing, drop))
  BY FreedIs DEF DropStanding
<1>4. LaneRight(standing') /\ standing'.started_bytes <= standing.started_bytes
  BY <1>1, <1>2, WithoutRight
<1>5. LaneRight(first')
  BY <1>1, <1>2
<1>6. Shared(first, standing', slots')
  <2>1. Shared(standing, first, slots)
    BY <1>1, SharedBack
  <2>2. Shared(standing', first, slots')
    BY <1>1, <1>2, <1>3, <2>1, DropShares
  <2> QED
    BY <2>2, SharedBack
<1>7. /\ SlotsRight(slots', medium) /\ ReadsCapped(slots')
      /\ \A s \in Slots : slots'[s].os # {} => slots'[s] = slots[s]
  BY <1>3, FreedRight DEF LanesRight
<1>8. ReadingRight(reading', standing', slots')
  <2>1. PICK gone : gone = HeldBy(standing, drop)
    OBVIOUS
  <2>2. PICK T : T = Slots \ gone
    OBVIOUS
  <2>3. PICK r : r = Select(reading, T)
    OBVIOUS
  <2>4. /\ reading \in Seq(Slots) /\ \A i, j \in DOMAIN reading : reading[i] = reading[j] => i = j
        /\ \A i \in DOMAIN reading : reading[i] \in Held(standing)
        /\ \A s \in Slots : s \in Held(standing) /\ slots[s].os # {} =>
                              \E i \in DOMAIN reading : reading[i] = s
    BY DEF LanesRight, ReadingRight
  <2>5. /\ r \in Seq(Slots)
        /\ \A i, j \in DOMAIN r : r[i] = r[j] => i = j
        /\ \A i \in DOMAIN r : r[i] \in T /\ \E j \in DOMAIN reading : r[i] = reading[j]
        /\ \A j \in DOMAIN reading : reading[j] \in T => \E i \in DOMAIN r : r[i] = reading[j]
    BY <2>3, <2>4, SelectedOnce
  <2>6. \A s : s \in Held(standing') <=> s \in Held(standing) /\ s \notin gone
    BY <1>1, <1>2, <2>1, LeftHeld
  <2>7. \A i \in DOMAIN r : r[i] \in Held(standing')
    BY <2>2, <2>4, <2>5, <2>6
  <2>8. \A s \in Slots : s \in Held(standing') /\ slots'[s].os # {} => \E i \in DOMAIN r : r[i] = s
    <3> SUFFICES ASSUME NEW s \in Slots, s \in Held(standing'), slots'[s].os # {}
                 PROVE  \E i \in DOMAIN r : r[i] = s
      OBVIOUS
    <3>1. s \in Held(standing) /\ s \in T
      BY <2>2, <2>6
    <3>2. slots[s].os # {}
      BY <1>7
    <3>3. PICK j \in DOMAIN reading : reading[j] = s
      BY <2>4, <3>1, <3>2
    <3> QED
      BY <2>5, <3>1, <3>3
  <2>9. reading' = r
    BY <1>2, <2>1, <2>2, <2>3 DEF ReadingWithout
  <2> QED
    BY <2>5, <2>7, <2>8, <2>9 DEF ReadingRight
<1>9. BytesCapped(first, standing')
  <2>1. first.started_bytes \in Nat /\ standing.started_bytes \in Nat /\ standing'.started_bytes \in Nat
    BY <1>1, <1>4, LaneTyped DEF LaneRight
  <2>2. first.started_bytes <= first.started_bytes
    BY <2>1
  <2> QED
    BY <1>4, <2>1, <2>2, FewerBytes DEF LanesRight
<1> QED
  BY <1>2, <1>4, <1>5, <1>6, <1>7, <1>8, <1>9 DEF LanesRight
----------------------------------------------------------------------------
(* The counts of StandingInFlight() and StartReads(). *)

\* "Each started range holds one slot": as many slots as started ranges.
LEMMA HeldCounted ==
  ASSUME NEW lane, LaneRight(lane)
  PROVE  Cardinality(Held(lane)) = lane.started
<1>1. PICK n \in Nat, t \in Nat : /\ n = Len(lane.ranges) /\ DOMAIN lane.ranges = 1..n
                                  /\ t = lane.started /\ t <= n
  BY LaneTyped DEF LaneRight
<1>2. \A i \in 1..n : lane.ranges[i].slot # NoSlot <=> i <= t
  BY <1>1 DEF LaneRight
<1>3. \A i, j \in 1..n :
        lane.ranges[i].slot = lane.ranges[j].slot /\ lane.ranges[i].slot # NoSlot => i = j
  BY <1>1 DEF LaneRight
<1>4. \A s : s \in Held(lane) <=> s # NoSlot /\ \E i \in 1..n : lane.ranges[i].slot = s
  BY <1>1 DEF Held, HeldBy
<1> DEFINE f == [i \in 1..t |-> lane.ranges[i].slot]
<1>5. f \in [1..t -> Held(lane)]
  BY <1>1, <1>2, <1>4
<1>6. \A i, j \in 1..t : f[i] = f[j] => i = j
  BY <1>1, <1>2, <1>3
<1>7. \A s \in Held(lane) : \E i \in 1..t : f[i] = s
  <2> TAKE s \in Held(lane)
  <2>1. PICK i \in 1..n : lane.ranges[i].slot = s /\ s # NoSlot
    BY <1>4
  <2>2. i \in 1..t
    BY <1>2, <2>1
  <2> QED
    BY <2>1, <2>2
<1> HIDE DEF f
<1>8. IsFiniteSet(1..t) /\ Cardinality(1..t) = t
  <2>1. 1 \in Int /\ t \in Int /\ 1 <= t + 1
    OBVIOUS
  <2> QED
    BY <2>1, FS_Interval
<1>9. Cardinality(Held(lane)) = Cardinality(1..t)
  BY <1>5, <1>6, <1>7, <1>8, SameCount
<1> QED
  BY <1>1, <1>8, <1>9

LEMMA HeldSlots ==
  ASSUME NEW lane, LaneRight(lane)
  PROVE  Held(lane) \in SUBSET Slots
  BY HeldIs DEF LaneRight

\* The reads in flight are no more than the ranges started on the first queue and
\* the reads counted on the lane.
LEMMA FlyingBounded ==
  ASSUME NEW fi, LaneRight(fi), NEW st, LaneRight(st), NEW sl, Shared(fi, st, sl),
         NEW m, SlotsRight(sl, m), NEW n \in Nat, Counted(st, sl, n)
  PROVE  Cardinality(Flying(sl)) \in Nat /\ Cardinality(Flying(sl)) <= fi.started + n
<1>1. PICK H : H = Held(fi)
  OBVIOUS
<1>2. PICK G : G = Flying(sl) \cap Held(st)
  OBVIOUS
<1>3. PICK F : F = Flying(sl)
  OBVIOUS
<1>4. F \in SUBSET Slots /\ G \in SUBSET Slots /\ H \in SUBSET Slots
  BY <1>1, <1>2, <1>3, HeldSlots DEF Flying
<1>5. F \subseteq H \cup G
  <2> SUFFICES ASSUME NEW s \in F PROVE s \in H \/ s \in G
    OBVIOUS
  <2>1. s \in Slots /\ sl[s].os # {}
    BY <1>3 DEF Flying
  <2>2. sl[s].in_use
    BY <2>1 DEF SlotsRight, SlotRight
  <2>3. s \in Held(fi) \/ s \in Held(st)
    BY <2>1, <2>2 DEF Shared
  <2> QED
    BY <1>1, <1>2, <1>3, <2>3
<1>6. Cardinality(H) = fi.started
  BY <1>1, HeldCounted
<1>7. Cardinality(G) <= n
  BY <1>2 DEF Counted
<1>8. IsFiniteSet(H) /\ Cardinality(H) \in Nat
  BY <1>4, SlotsFinite
<1>9. IsFiniteSet(G) /\ Cardinality(G) \in Nat
  BY <1>4, SlotsFinite
<1>10. Cardinality(H \cup G) = Cardinality(H) + Cardinality(G) - Cardinality(H \cap G)
  BY <1>8, <1>9, FS_Union
<1>11. Cardinality(H \cap G) \in Nat
  <2>1. (H \cap G) \in SUBSET Slots
    BY <1>4
  <2> QED
    BY <2>1, SlotsFinite
<1>12. Cardinality(F) \in Nat /\ Cardinality(F) <= Cardinality(H \cup G)
  <2>1. PICK U : U = H \cup G
    OBVIOUS
  <2>2. U \in SUBSET Slots /\ F \in SUBSET U
    BY <1>4, <1>5, <2>1
  <2> QED
    BY <2>1, <2>2, FewerSlots
<1>13. PICK h \in Nat, g \in Nat, i \in Nat :
         h = Cardinality(H) /\ g = Cardinality(G) /\ i = Cardinality(H \cap G)
  BY <1>8, <1>9, <1>11
<1>14. Cardinality(F) \in Nat /\ Cardinality(F) <= h + g - i
  BY <1>10, <1>12, <1>13
<1>15. g <= n /\ h = fi.started
  BY <1>6, <1>7, <1>13
<1>16. Cardinality(F) <= fi.started + n
  BY <1>14, <1>15
<1> QED
  BY <1>3, <1>12, <1>16

\* StandingInFlight() leaves the list right, and counts the reads in flight.
LEMMA StillReadingRight ==
  ASSUME LanesRight
  PROVE  /\ ReadingRight(StillReading, standing, slots)
         /\ Len(StillReading) \in Nat
         /\ Counted(standing, slots, Len(StillReading))
<1>1. PICK T : T = {s \in Slots : slots[s].pending /\ ~ReadDone(s)}
  OBVIOUS
<1>2. PICK r : r = StillReading /\ r = Select(reading, T)
  BY <1>1 DEF StillReading
<1>3. /\ reading \in Seq(Slots) /\ \A i, j \in DOMAIN reading : reading[i] = reading[j] => i = j
      /\ \A i \in DOMAIN reading : reading[i] \in Held(standing)
      /\ \A s \in Slots : s \in Held(standing) /\ slots[s].os # {} =>
                            \E i \in DOMAIN reading : reading[i] = s
  BY DEF LanesRight, ReadingRight
<1>4. /\ r \in Seq(Slots)
      /\ \A i, j \in DOMAIN r : r[i] = r[j] => i = j
      /\ \A i \in DOMAIN r : r[i] \in T /\ \E j \in DOMAIN reading : r[i] = reading[j]
      /\ \A j \in DOMAIN reading : reading[j] \in T => \E i \in DOMAIN r : r[i] = reading[j]
  BY <1>2, <1>3, SelectedOnce
<1>5. \A s \in Slots : s \in T <=> slots[s].os # {}
  BY <1>1 DEF ReadDone, LanesRight, SlotsRight, SlotRight
<1>6. \A s \in Slots : s \in Held(standing) /\ slots[s].os # {} => \E i \in DOMAIN r : r[i] = s
  BY <1>3, <1>4, <1>5
<1>7. ReadingRight(r, standing, slots)
  BY <1>3, <1>4, <1>6 DEF ReadingRight
<1>8. Counted(standing, slots, Len(r))
  <2>1. PICK all : all = {r[i] : i \in DOMAIN r}
    OBVIOUS
  <2>2. PICK G : G = Flying(slots) \cap Held(standing)
    OBVIOUS
  <2>3. IsFiniteSet(all) /\ Cardinality(all) \in 0..Len(r)
    BY <1>4, <2>1, ElementsCounted
  <2>4. G \in SUBSET all
    BY <1>6, <2>1, <2>2 DEF Flying
  <2>5. Cardinality(G) <= Cardinality(all)
    BY <2>3, <2>4, FS_Subset
  <2>6. G \in SUBSET Slots
    BY <2>2 DEF Flying
  <2>7. Cardinality(G) \in Nat
    BY <2>6, SlotsFinite
  <2>8. Len(r) \in Nat
    BY <1>4
  <2>9. Cardinality(G) <= Len(r)
    BY <2>3, <2>5, <2>7, <2>8
  <2> QED
    BY <2>2, <2>9 DEF Counted
<1>9. Len(r) \in Nat
  BY <1>4
<1> QED
  BY <1>2, <1>7, <1>8, <1>9

\* The assertion of StandingInFlight(): its list has a slot for each range of the
\* lane whose read is in flight, and no other.
LEMMA CountAgrees ==
  ASSUME LanesRight
  PROVE  StandingCountAgrees
<1>1. PICK T : T = {s \in Slots : slots[s].pending /\ ~ReadDone(s)}
  OBVIOUS
<1>2. PICK r : r = StillReading /\ r = Select(reading, T)
  BY <1>1 DEF StillReading
<1>3. /\ reading \in Seq(Slots) /\ \A i, j \in DOMAIN reading : reading[i] = reading[j] => i = j
      /\ \A i \in DOMAIN reading : reading[i] \in Held(standing)
      /\ \A s \in Slots : s \in Held(standing) /\ slots[s].os # {} =>
                            \E i \in DOMAIN reading : reading[i] = s
  BY DEF LanesRight, ReadingRight
<1>4. /\ r \in Seq(Slots)
      /\ \A i, j \in DOMAIN r : r[i] = r[j] => i = j
      /\ \A i \in DOMAIN r : r[i] \in T /\ \E j \in DOMAIN reading : r[i] = reading[j]
      /\ \A j \in DOMAIN reading : reading[j] \in T => \E i \in DOMAIN r : r[i] = reading[j]
  BY <1>2, <1>3, SelectedOnce
<1>5. LaneRight(standing) /\ standing \in LaneSet
  BY DEF LanesRight, LaneRight
<1>6. \A s : s \in Held(standing) <=>
               s \in Slots /\ \E i \in DOMAIN standing.ranges : standing.ranges[i].slot = s
  BY <1>5, HeldIs
<1>7. \A i, j \in DOMAIN standing.ranges :
        standing.ranges[i].slot = standing.ranges[j].slot /\ standing.ranges[i].slot # NoSlot => i = j
  BY <1>5 DEF LaneRight
<1>8. NoSlot \notin Slots
  BY PrefetcherAssumption DEF Slots
<1> DEFINE In == {i \in Started(standing) :
                    slots[standing.ranges[i].slot].pending /\ ~ReadDone(standing.ranges[i].slot)}
           f == [i \in In |-> CHOOSE k \in DOMAIN r : r[k] = standing.ranges[i].slot]
<1>9. ASSUME NEW i \in In
      PROVE  /\ i \in DOMAIN standing.ranges /\ standing.ranges[i].slot \in T
             /\ \E k \in DOMAIN r : r[k] = standing.ranges[i].slot
  <2>1. i \in DOMAIN standing.ranges /\ standing.ranges[i].slot # NoSlot
    BY DEF Started
  <2>2. PICK s \in Slots : s = standing.ranges[i].slot
    BY <1>5, <2>1, LaneTyped
  <2>3. s \in T /\ slots[s].os # {} /\ s \in Held(standing)
    BY <1>1, <1>6, <2>1, <2>2 DEF ReadDone
  <2>4. PICK j \in DOMAIN reading : reading[j] = s
    BY <1>3, <2>3
  <2> QED
    BY <1>4, <2>1, <2>2, <2>3, <2>4
<1>10. \A i \in In : f[i] \in DOMAIN r /\ r[f[i]] = standing.ranges[i].slot
  BY <1>9
<1>11. f \in [In -> DOMAIN r]
  BY <1>10
<1>12. \A i, j \in In : f[i] = f[j] => i = j
  <2> SUFFICES ASSUME NEW i \in In, NEW j \in In, f[i] = f[j] PROVE i = j
    OBVIOUS
  <2>1. standing.ranges[i].slot = standing.ranges[j].slot /\ standing.ranges[i].slot \in Slots
    <3>1. standing.ranges[i].slot = standing.ranges[j].slot
      BY <1>10
    <3> HIDE DEF f, In
    <3>2. standing.ranges[i].slot \in Slots
      BY <1>1, <1>9
    <3> QED
      BY <3>1, <3>2
  <2> HIDE DEF f, In
  <2>2. standing.ranges[i].slot # NoSlot
    BY <1>8, <2>1
  <2> QED
    BY <1>7, <1>9, <2>1, <2>2
<1>13. ASSUME NEW k \in DOMAIN r PROVE \E i \in In : f[i] = k
  <2>1. r[k] \in T /\ r[k] \in Slots /\ r[k] \in Held(standing)
    BY <1>3, <1>4
  <2>2. PICK i \in DOMAIN standing.ranges : standing.ranges[i].slot = r[k]
    BY <1>6, <2>1
  <2>3. i \in In
    BY <1>1, <1>8, <2>1, <2>2 DEF Started
  <2>4. f[i] \in DOMAIN r /\ r[f[i]] = r[k]
    BY <1>10, <2>2, <2>3
  <2> HIDE DEF f, In
  <2>5. f[i] = k
    BY <1>4, <2>4
  <2> QED
    BY <2>3, <2>5
<1> HIDE DEF f
<1>14. PICK n \in Nat : DOMAIN r = 1..n /\ n = Len(r)
  BY <1>4
<1>15. IsFiniteSet(In)
  <2>1. PICK l \in Nat : DOMAIN standing.ranges = 1..l
    BY <1>5, LaneTyped
  <2>2. In \in SUBSET (1..l)
    BY <2>1 DEF Started
  <2> HIDE DEF In
  <2> QED
    BY <2>2, PlacesCounted
<1> HIDE DEF In
<1>16. Cardinality(DOMAIN r) = Cardinality(In)
  BY <1>11, <1>12, <1>13, <1>15, SameCount
<1>17. Cardinality(1..n) = n
  <2>1. 1 \in Int /\ n \in Int /\ 1 <= n + 1
    OBVIOUS
  <2> QED
    BY <2>1, FS_Interval
<1>18. Len(r) = Cardinality(In)
  BY <1>14, <1>16, <1>17
<1> QED
  BY <1>2, <1>18 DEF StandingCountAgrees, In
----------------------------------------------------------------------------
(* StartReads(). *)

\* StartRead() in a free slot.
LEMMA StartInRight ==
  ASSUME Typed, SlotsRight(slots, medium), NEW s \in Slots, ~slots[s].in_use,
         NEW range, range.offset \in Nat, range.length \in Nat,
         NEW ok \in BOOLEAN, StartIn(s, range, ok)
  PROVE  /\ SlotsRight(slots', medium)
         /\ slots[s].os = {}
         /\ slots'[s].in_use
         /\ slots'[s].start = AlignDown(range.offset)
         /\ slots'[s].os # {} <=> ok
         /\ \A x \in Slots : x # s => slots'[x] = slots[x]
<1>1. PICK a \in Nat, b \in Nat : a = AlignDown(range.offset) /\ b = AlignedBytes(range)
  <2>1. AlignDown(range.offset) \in Nat
    BY AlignedDown
  <2>2. AlignedBytes(range) \in Nat
    BY AlignedTyped
  <2> QED
    BY <2>1, <2>2
<1>2. PICK old \in SlotSet : old = slots[s] /\ SlotRight(old, medium)
  BY DEF SlotsRight, SlotRight
<1>3. old.os = {}
  BY <1>2 DEF SlotRight
<1>4. PICK os : os = IF ok THEN old.os \cup {Place(medium, a)} ELSE old.os
  OBVIOUS
<1>5. (ok => os = {Place(medium, a)}) /\ (~ok => os = {})
  BY <1>3, <1>4
<1>6. PICK new : new = [old EXCEPT !.in_use = TRUE, !.pending = ok, !.got = 0, !.start = a,
                                   !.bytes = b, !.os = os]
  OBVIOUS
<1>7. slots' = [slots EXCEPT ![s] = new]
  BY <1>1, <1>2, <1>4, <1>6, Zenon DEF StartIn, Place
<1>8. /\ new.in_use = TRUE /\ new.pending = ok /\ new.got = 0 /\ new.start = a /\ new.os = os
      /\ new.bytes = b /\ new.buf = old.buf
      /\ new = [in_use |-> TRUE, pending |-> ok, got |-> 0, start |-> a, bytes |-> b,
                buf |-> old.buf, os |-> os]
  BY <1>6 DEF SlotSet
<1>9. new \in SlotSet
  <2>1. old.buf \in Places
    BY DEF SlotSet
  <2>2. Place(medium, a) \in Places
    BY DEF Typed, Place, Places
  <2>3. os \in SUBSET Places
    BY <1>5, <2>2
  <2> QED
    BY <1>8, <2>1, <2>3 DEF SlotSet
<1>10. SlotRight(new, medium)
  <2>1. new.os # {} => new.in_use /\ new.pending /\ new.os = {Place(medium, new.start)}
    BY <1>5, <1>8
  <2>2. ~(new.pending /\ new.os = {})
    BY <1>5, <1>8
  <2>3. ~(new.got > 0)
    BY <1>8
  <2> QED
    BY <1>9, <2>1, <2>2, <2>3 DEF SlotRight
<1>11. DOMAIN slots' = Slots /\ slots'[s] = new /\ \A x \in Slots : x # s => slots'[x] = slots[x]
  BY <1>7 DEF SlotsRight
<1>12. SlotsRight(slots', medium)
  BY <1>10, <1>11 DEF SlotsRight
<1> QED
  BY <1>1, <1>2, <1>3, <1>5, <1>8, <1>11, <1>12

\* The slot of the read that started goes to its range.
LEMMA StartShares ==
  ASSUME NEW lane, LaneRight(lane), NEW other, LaneRight(other), NEW sl,
         Shared(lane, other, sl), lane.started < Len(lane.ranges),
         NEW s \in Slots, ~sl[s].in_use, NEW w, w = StartedIn(lane, s),
         NEW t, t[s].in_use, t[s].start = AlignDown(lane.ranges[lane.started + 1].offset),
         \A x \in Slots : x # s => t[x] = sl[x]
  PROVE  Shared(w, other, t)
<1>1. \A x \in Slots : ~(x \in Held(lane) /\ x \in Held(other))
  BY DEF Shared
<1>2. \A x \in Slots : sl[x].in_use <=> x \in Held(lane) \/ x \in Held(other)
  BY DEF Shared
<1>3. s \notin Held(lane) /\ s \notin Held(other)
  BY <1>2
<1>4. \A x : x \in Held(w) <=> x \in Held(lane) \/ x = s
  BY <1>3, StartedHeld
<1>5. PICK k : k = lane.started + 1
  OBVIOUS
<1>6. /\ k \in DOMAIN lane.ranges /\ DOMAIN w.ranges = DOMAIN lane.ranges
      /\ \A i \in DOMAIN w.ranges :
           /\ w.ranges[i].offset = lane.ranges[i].offset
           /\ w.ranges[i].slot = IF i = k THEN s ELSE lane.ranges[i].slot
  BY <1>3, <1>5, StartedRight
<1>7. \A x \in Slots : ~(x \in Held(w) /\ x \in Held(other))
  BY <1>1, <1>3, <1>4
<1>8. \A x \in Slots : t[x].in_use <=> x \in Held(w) \/ x \in Held(other)
  BY <1>2, <1>4
<1>9. Fits(other, t)
  <2> SUFFICES ASSUME NEW i \in DOMAIN other.ranges, other.ranges[i].slot # NoSlot
               PROVE  t[other.ranges[i].slot].start = AlignDown(other.ranges[i].offset)
    BY DEF Fits
  <2>1. PICK x \in Slots : x = other.ranges[i].slot
    BY LaneTyped DEF LaneRight
  <2>2. x \in Held(other)
    BY <2>1 DEF Held, HeldBy
  <2>3. t[x] = sl[x]
    BY <1>3, <2>2
  <2> QED
    BY <2>1, <2>3 DEF Shared, Fits
<1>10. Fits(w, t)
  <2> SUFFICES ASSUME NEW i \in DOMAIN w.ranges, w.ranges[i].slot # NoSlot
               PROVE  t[w.ranges[i].slot].start = AlignDown(w.ranges[i].offset)
    BY DEF Fits
  <2>1. CASE i = k
    BY <1>5, <1>6, <2>1
  <2>2. CASE i # k
    <3>1. i \in DOMAIN lane.ranges /\ lane.ranges[i].slot # NoSlot /\ w.ranges[i].slot = lane.ranges[i].slot
      BY <1>6, <2>2
    <3>2. PICK x \in Slots : x = lane.ranges[i].slot
      BY <3>1, LaneTyped DEF LaneRight
    <3>3. x \in Held(lane)
      BY <3>1, <3>2 DEF Held, HeldBy
    <3>4. t[x] = sl[x]
      BY <1>3, <3>3
    <3>5. sl[x].start = AlignDown(lane.ranges[i].offset)
      BY <3>1, <3>2 DEF Shared, Fits
    <3> QED
      BY <1>6, <3>1, <3>2, <3>4, <3>5
  <2> QED
    BY <2>1, <2>2
<1> QED
  BY <1>7, <1>8, <1>9, <1>10 DEF Shared

LEMMA NoneStarted ==
  ASSUME NEW lane, LaneRight(lane), lane.started = 0
  PROVE  lane.started_bytes = 0
<1> PICK f : f = Sizes(lane)
  OBVIOUS
<1>1. PICK n \in Nat : n = Len(lane.ranges) /\ \A i \in 1..n : f[i] \in Nat
  BY LaneTyped DEF LaneRight
<1>2. lane.started_bytes = Total(f, n, 1..0)
  BY <1>1 DEF LaneRight, BytesAt, Sizes
<1>3. 1..0 = {}
  OBVIOUS
<1>4. Total(f, n, {}) = 0
  BY <1>1, TotalOfNone
<1> QED
  BY <1>2, <1>3, <1>4

\* A read of the first queue starts: the caps hold with it.
LEMMA StartFirstRight ==
  ASSUME Typed, LanesRight, CallRight, StartFirst
  PROVE  LanesRight' /\ Counted(standing, slots', in_flight)
<1>1. /\ LaneRight(first) /\ LaneRight(standing) /\ Shared(first, standing, slots)
      /\ SlotsRight(slots, medium)
  BY DEF LanesRight
<1>2. /\ medium' = medium /\ standing' = standing /\ reading' = reading /\ FirstMayStart
      /\ Counted(standing, slots, in_flight)
  BY DEF StartFirst, CallRight
<1>3. PICK k : k = first.started + 1
  OBVIOUS
<1>4. PICK s \in FreeSlots, ok \in BOOLEAN :
        StartIn(s, first.ranges[k], ok) /\ first' = StartedIn(first, s)
  BY <1>3 DEF StartFirst
<1>5. s \in Slots /\ ~slots[s].in_use
  BY DEF FreeSlots
<1>6. first.started < Len(first.ranges) /\ first.started + in_flight < cap.max_reads
  BY <1>2 DEF FirstMayStart
<1>7. s \notin Held(first) /\ s \notin Held(standing)
  BY <1>1, <1>5 DEF Shared
<1>8. /\ LaneRight(first') /\ k \in DOMAIN first.ranges /\ first'.started = k
      /\ first'.started_bytes = first.started_bytes + AlignedBytes(first.ranges[k])
  BY <1>1, <1>3, <1>4, <1>5, <1>6, <1>7, StartedRight
<1>9. /\ first.ranges[k].offset \in Nat /\ first.ranges[k].length \in Nat
      /\ AlignedBytes(first.ranges[k]) \in Nat /\ Bounded(first.ranges[k])
      /\ first.started \in Nat /\ first.started_bytes \in Nat /\ standing.started_bytes \in Nat
  BY <1>1, <1>8, LaneTyped DEF LaneRight
<1>10. /\ SlotsRight(slots', medium) /\ slots[s].os = {} /\ slots'[s].in_use
       /\ slots'[s].start = AlignDown(first.ranges[k].offset)
       /\ \A x \in Slots : x # s => slots'[x] = slots[x]
  BY <1>1, <1>4, <1>5, <1>9, StartInRight
<1>11. Shared(first', standing, slots')
  BY <1>1, <1>3, <1>4, <1>5, <1>6, <1>10, StartShares
<1>12. ReadingRight(reading, standing, slots')
  BY <1>7, <1>10 DEF LanesRight, ReadingRight
<1>13. Counted(standing, slots', in_flight)
  <2>1. Flying(slots') \cap Held(standing) = Flying(slots) \cap Held(standing)
    BY <1>7, <1>10 DEF Flying
  <2> QED
    BY <1>2, <2>1 DEF Counted
<1>14. pattern \in Patterns /\ in_flight \in Nat
  BY DEF Typed
<1>15. ReadsCapped(slots')
  <2>1. Cardinality(Flying(slots')) \in Nat /\ Cardinality(Flying(slots')) <= first'.started + in_flight
    BY <1>1, <1>8, <1>10, <1>11, <1>13, <1>14, FlyingBounded
  <2>2. PICK n : n = Cardinality(Flying(slots'))
    OBVIOUS
  <2>3. n \in Nat /\ n <= first.started + 1 + in_flight
    BY <1>3, <1>8, <2>1, <2>2
  <2>4. Caps[pattern].max_reads \in Nat /\ first.started + in_flight < Caps[pattern].max_reads
    BY <1>6, <1>14, CapsTyped DEF cap
  <2>5. n <= Caps[pattern].max_reads
    BY <1>9, <1>14, <2>3, <2>4
  <2> QED
    BY <1>14, <2>2, <2>5 DEF ReadsCapped
<1>16. BytesCapped(first', standing)
  <2>1. PICK p \in Patterns : standing.started_bytes <= LaneCap(p)
    BY DEF LanesRight, BytesCapped
  <2>2. PICK q \in Patterns : AlignedBytes(first.ranges[k]) <= Caps[q].max_range_bytes
    BY <1>9 DEF Bounded
  <2>3. PICK n \in Nat, b \in Nat, o \in Nat : /\ n = AlignedBytes(first.ranges[k])
                                               /\ b = standing.started_bytes
                                               /\ o = first.started_bytes
    BY <1>9
  <2>4. PICK c \in Nat, d \in Nat : c = LaneCap(p) /\ d = Caps[q].max_range_bytes
    BY CapsTyped
  <2>5. CASE first.started = 0
    <3>1. o = 0
      BY <1>1, <2>3, <2>5, NoneStarted
    <3>2. o + n + b <= c + d
      BY <2>1, <2>2, <2>3, <2>4, <3>1
    <3>3. first'.started_bytes + standing.started_bytes <= LaneCap(p) + Caps[q].max_range_bytes
      BY <1>8, <2>3, <2>4, <3>2
    <3> QED
      BY <2>1, <3>3 DEF BytesCapped
  <2>6. CASE o + b + n <= cap.max_bytes
    <3>1. /\ Caps[pattern].max_bytes \in Nat /\ LaneCap(pattern) \in Nat
          /\ Caps[pattern].max_range_bytes \in Nat /\ Caps[pattern].max_bytes <= LaneCap(pattern)
      BY <1>14, CapsTyped
    <3>2. o + b + n <= Caps[pattern].max_bytes
      BY <2>6 DEF cap
    <3>3. o + n + b <= LaneCap(pattern) + Caps[pattern].max_range_bytes
      BY <3>1, <3>2
    <3>4. first'.started_bytes + standing.started_bytes <=
            LaneCap(pattern) + Caps[pattern].max_range_bytes
      BY <1>8, <2>3, <3>3
    <3> QED
      BY <1>14, <2>1, <3>4 DEF BytesCapped
  <2>7. first.started = 0 \/ o + b + n <= cap.max_bytes
    BY <1>2, <1>3, <2>3 DEF FirstMayStart
  <2> QED
    BY <2>5, <2>6, <2>7
<1> QED
  BY <1>1, <1>2, <1>8, <1>10, <1>11, <1>12, <1>13, <1>15, <1>16 DEF LanesRight

\* A read of the lane starts: it is listed and counted.
LEMMA StartStandingRight ==
  ASSUME Typed, LanesRight, CallRight, StartStanding
  PROVE  LanesRight' /\ Counted(standing', slots', in_flight')
<1>1. /\ LaneRight(first) /\ LaneRight(standing) /\ Shared(first, standing, slots)
      /\ SlotsRight(slots, medium)
  BY DEF LanesRight
<1>2. /\ medium' = medium /\ first' = first /\ StandingMayStart /\ in_flight' = in_flight + 1
      /\ Counted(standing, slots, in_flight)
  BY DEF StartStanding, CallRight
<1>3. PICK k : k = standing.started + 1
  OBVIOUS
<1>4. PICK s \in FreeSlots, ok \in BOOLEAN :
        /\ StartIn(s, standing.ranges[k], ok) /\ standing' = StartedIn(standing, s)
        /\ reading' = IF ok THEN Append(reading, s) ELSE reading
  BY <1>3 DEF StartStanding
<1>5. s \in Slots /\ ~slots[s].in_use
  BY DEF FreeSlots
<1>6. standing.started < Len(standing.ranges) /\ first.started + in_flight < cap.max_reads
  BY <1>2 DEF StandingMayStart
<1>7. s \notin Held(first) /\ s \notin Held(standing)
  BY <1>1, <1>5 DEF Shared
<1>8. /\ LaneRight(standing') /\ k \in DOMAIN standing.ranges
      /\ standing'.started_bytes = standing.started_bytes + AlignedBytes(standing.ranges[k])
  BY <1>1, <1>3, <1>4, <1>5, <1>6, <1>7, StartedRight
<1>9. /\ standing.ranges[k].offset \in Nat /\ standing.ranges[k].length \in Nat
      /\ AlignedBytes(standing.ranges[k]) \in Nat /\ Bounded(standing.ranges[k])
      /\ first.started \in Nat /\ first.started_bytes \in Nat /\ standing.started_bytes \in Nat
  BY <1>1, <1>8, LaneTyped DEF LaneRight
<1>10. /\ SlotsRight(slots', medium) /\ slots[s].os = {} /\ slots'[s].in_use
       /\ slots'[s].start = AlignDown(standing.ranges[k].offset)
       /\ slots'[s].os # {} <=> ok
       /\ \A x \in Slots : x # s => slots'[x] = slots[x]
  BY <1>1, <1>4, <1>5, <1>9, StartInRight
<1>11. Shared(first, standing', slots')
  <2>1. Shared(standing, first, slots)
    BY <1>1, SharedBack
  <2>2. Shared(standing', first, slots')
    BY <1>1, <1>3, <1>4, <1>5, <1>6, <1>10, <2>1, StartShares
  <2> QED
    BY <2>2, SharedBack
<1>12. \A x : x \in Held(standing') <=> x \in Held(standing) \/ x = s
  BY <1>1, <1>4, <1>5, <1>6, <1>7, StartedHeld
<1>13. ReadingRight(reading', standing', slots')
  <2>1. /\ reading \in Seq(Slots) /\ \A i, j \in DOMAIN reading : reading[i] = reading[j] => i = j
        /\ \A i \in DOMAIN reading : reading[i] \in Held(standing)
        /\ \A x \in Slots : x \in Held(standing) /\ slots[x].os # {} =>
                              \E i \in DOMAIN reading : reading[i] = x
    BY DEF LanesRight, ReadingRight
  <2>2. CASE ~ok
    <3>1. reading' = reading
      BY <1>4, <2>2
    <3>2. \A x \in Slots : x \in Held(standing') /\ slots'[x].os # {} =>
                             \E i \in DOMAIN reading : reading[i] = x
      BY <1>10, <1>12, <2>1, <2>2
    <3> QED
      BY <1>12, <2>1, <3>1, <3>2 DEF ReadingRight
  <2>3. CASE ok
    <3>1. PICK r : r = Append(reading, s)
      OBVIOUS
    <3>2. reading' = r
      BY <1>4, <2>3, <3>1
    <3>3. /\ r \in Seq(Slots) /\ DOMAIN r = DOMAIN reading \cup {Len(reading) + 1}
          /\ \A i \in DOMAIN reading : r[i] = reading[i]
          /\ r[Len(reading) + 1] = s /\ Len(reading) + 1 \notin DOMAIN reading
      BY <1>5, <2>1, <3>1, AppendPlaces
    <3>4. \A i, j \in DOMAIN r : r[i] = r[j] => i = j
      BY <1>7, <2>1, <3>3
    <3>5. \A i \in DOMAIN r : r[i] \in Held(standing')
      BY <1>12, <2>1, <3>3
    <3>6. \A x \in Slots : x \in Held(standing') /\ slots'[x].os # {} =>
                             \E i \in DOMAIN r : r[i] = x
      BY <1>10, <1>12, <2>1, <3>3
    <3> QED
      BY <3>2, <3>3, <3>4, <3>5, <3>6 DEF ReadingRight
  <2> QED
    BY <2>2, <2>3
<1>14. pattern \in Patterns /\ in_flight \in Nat
  BY DEF Typed
<1>15. Counted(standing', slots', in_flight')
  <2>1. PICK G : G = Flying(slots) \cap Held(standing)
    OBVIOUS
  <2>2. PICK U : U = G \cup {s}
    OBVIOUS
  <2>3. G \in SUBSET Slots
    BY <2>1 DEF Flying
  <2>4. U \in SUBSET Slots
    BY <1>5, <2>2, <2>3
  <2>5. IsFiniteSet(G) /\ Cardinality(G) \in Nat
    BY <2>3, SlotsFinite
  <2>6. Cardinality(U) = IF s \in G THEN Cardinality(G) ELSE Cardinality(G) + 1
    BY <2>2, <2>5, FS_AddElement
  <2>7. PICK H : H = Flying(slots') \cap Held(standing')
    OBVIOUS
  <2>8. H \in SUBSET U
    BY <1>10, <1>12, <2>1, <2>2, <2>7 DEF Flying
  <2>9. Cardinality(H) \in Nat /\ Cardinality(H) <= Cardinality(U)
    BY <2>4, <2>8, FewerSlots
  <2>10. Cardinality(G) <= in_flight
    BY <1>2, <2>1 DEF Counted
  <2>11. PICK g \in Nat, h \in Nat : g = Cardinality(G) /\ h = Cardinality(H)
    BY <2>5, <2>9
  <2>12. h <= g + 1
    BY <2>6, <2>9, <2>11
  <2>13. h <= in_flight + 1
    BY <1>14, <2>10, <2>11, <2>12
  <2>14. Cardinality(H) <= in_flight'
    BY <1>2, <2>11, <2>13
  <2> QED
    BY <2>7, <2>14 DEF Counted
<1>16. ReadsCapped(slots')
  <2>1. in_flight' \in Nat
    BY <1>2, <1>14
  <2>2. Cardinality(Flying(slots')) \in Nat /\ Cardinality(Flying(slots')) <= first.started + in_flight'
    BY <1>1, <1>8, <1>10, <1>11, <1>15, <2>1, FlyingBounded
  <2>3. PICK n : n = Cardinality(Flying(slots'))
    OBVIOUS
  <2>4. n \in Nat /\ n <= first.started + (in_flight + 1)
    BY <1>2, <2>2, <2>3
  <2>5. Caps[pattern].max_reads \in Nat /\ first.started + in_flight < Caps[pattern].max_reads
    BY <1>6, <1>14, CapsTyped DEF cap
  <2>6. n <= Caps[pattern].max_reads
    BY <1>9, <1>14, <2>4, <2>5
  <2> QED
    BY <1>14, <2>3, <2>6 DEF ReadsCapped
<1>17. BytesCapped(first, standing')
  <2>1. PICK q \in Patterns : AlignedBytes(standing.ranges[k]) <= Caps[q].max_range_bytes
    BY <1>9 DEF Bounded
  <2>2. PICK n \in Nat, b \in Nat, o \in Nat : /\ n = AlignedBytes(standing.ranges[k])
                                               /\ b = standing.started_bytes
                                               /\ o = first.started_bytes
    BY <1>9
  <2>3. standing'.started_bytes = b + n
    BY <1>8, <2>2
  <2>4. PICK p \in Patterns : o + (b + n) <= LaneCap(p)
    <3>1. CASE o + b = 0
      <4>1. o = 0 /\ b = 0
        BY <3>1
      <4>2. LaneCap(q) \in Nat /\ Caps[q].max_range_bytes \in Nat /\ Caps[q].max_range_bytes <= LaneCap(q)
        BY CapsTyped
      <4>3. o + (b + n) <= LaneCap(q)
        BY <2>1, <2>2, <4>1, <4>2
      <4> QED
        BY <4>3
    <3>2. CASE o + b + n <= cap.max_bytes
      <4>1. /\ LaneCap(pattern) \in Nat /\ Caps[pattern].max_bytes \in Nat
            /\ Caps[pattern].max_bytes <= LaneCap(pattern)
        BY <1>14, CapsTyped
      <4>2. o + (b + n) <= LaneCap(pattern)
        BY <3>2, <4>1 DEF cap
      <4> QED
        BY <1>14, <4>2
    <3>3. o + b = 0 \/ o + b + n <= cap.max_bytes
      BY <1>2, <1>3, <2>2 DEF StandingMayStart
    <3> QED
      BY <3>1, <3>2, <3>3
  <2>5. LaneCap(p) \in Nat /\ Caps[p].max_range_bytes \in Nat
    BY CapsTyped
  <2>6. standing'.started_bytes <= LaneCap(p)
    BY <2>3, <2>4, <2>5
  <2>7. first.started_bytes + standing'.started_bytes <= LaneCap(p) + Caps[p].max_range_bytes
    BY <2>2, <2>3, <2>4, <2>5
  <2> QED
    BY <2>6, <2>7 DEF BytesCapped
<1> QED
  BY <1>1, <1>2, <1>8, <1>10, <1>11, <1>13, <1>15, <1>16, <1>17 DEF LanesRight
----------------------------------------------------------------------------
(* The system, the hints and the reads. *)

\* A slot changes, but for what it is used for; no read starts in it.
LEMMA SlotChanges ==
  ASSUME LanesRight, NEW s \in Slots, NEW new, slots' = [slots EXCEPT ![s] = new],
         SlotRight(new, medium), new.in_use = slots[s].in_use, new.start = slots[s].start,
         new.os \subseteq slots[s].os, UNCHANGED <<first, standing, reading, medium>>
  PROVE  LanesRight' /\ Flying(slots') \subseteq Flying(slots)
<1>1. DOMAIN slots' = Slots /\ slots'[s] = new /\ \A x \in Slots : x # s => slots'[x] = slots[x]
  BY DEF LanesRight, SlotsRight
<1>2. \A x \in Slots : /\ slots'[x].in_use = slots[x].in_use
                       /\ slots'[x].start = slots[x].start
                       /\ slots'[x].os # {} => slots[x].os # {}
  BY <1>1
<1>3. SlotsRight(slots', medium)
  BY <1>1 DEF LanesRight, SlotsRight
<1>4. Flying(slots') \subseteq Flying(slots)
  BY <1>2 DEF Flying
<1>5. ReadsCapped(slots')
  BY <1>4, FewerReads DEF LanesRight
<1>6. ASSUME NEW lane, LaneRight(lane), Fits(lane, slots) PROVE Fits(lane, slots')
  <2> SUFFICES ASSUME NEW i \in DOMAIN lane.ranges, lane.ranges[i].slot # NoSlot
               PROVE  slots'[lane.ranges[i].slot].start = AlignDown(lane.ranges[i].offset)
    BY DEF Fits
  <2>1. PICK x \in Slots : x = lane.ranges[i].slot
    BY <1>6, LaneTyped DEF LaneRight
  <2>2. slots[x].start = AlignDown(lane.ranges[i].offset)
    BY <1>6, <2>1 DEF Fits
  <2> QED
    BY <1>2, <2>1, <2>2
<1>7. Shared(first, standing, slots')
  <2>1. Fits(first, slots') /\ Fits(standing, slots')
    BY <1>6 DEF LanesRight, Shared
  <2>2. \A x \in Slots : slots'[x].in_use <=> x \in Held(first) \/ x \in Held(standing)
    BY <1>2 DEF LanesRight, Shared
  <2>3. \A x \in Slots : ~(x \in Held(first) /\ x \in Held(standing))
    BY DEF LanesRight, Shared
  <2> QED
    BY <2>1, <2>2, <2>3 DEF Shared
<1>8. ReadingRight(reading, standing, slots')
  BY <1>2 DEF LanesRight, ReadingRight
<1> QED
  BY <1>3, <1>4, <1>5, <1>7, <1>8 DEF LanesRight

\* The system completes a read: the buffer holds what the slot asked for.
LEMMA CompletesRight ==
  ASSUME LanesRight, NEW s \in Slots, Completes(s)
  PROVE  LanesRight' /\ Flying(slots') \subseteq Flying(slots)
<1>1. PICK a \in slots[s].os : slots' = [slots EXCEPT ![s].os = @ \ {a}, ![s].buf = a]
  BY DEF Completes
<1>2. PICK old \in SlotSet : old = slots[s] /\ SlotRight(old, medium)
  BY DEF LanesRight, SlotsRight, SlotRight
<1>3. PICK none : none = old.os \ {a}
  OBVIOUS
<1>4. /\ old.in_use /\ old.pending /\ old.os = {Place(medium, old.start)}
      /\ a = Place(medium, old.start) /\ none = {}
  BY <1>1, <1>2, <1>3 DEF SlotRight
<1>5. PICK new : new = [old EXCEPT !.os = none, !.buf = a]
  OBVIOUS
<1>6. slots' = [slots EXCEPT ![s] = new]
  BY <1>1, <1>2, <1>3, <1>5 DEF LanesRight, SlotsRight
<1>7. /\ new = [in_use |-> old.in_use, pending |-> old.pending, got |-> old.got,
                start |-> old.start, bytes |-> old.bytes, buf |-> a, os |-> none]
      /\ new.in_use = old.in_use /\ new.pending = old.pending /\ new.start = old.start
      /\ new.buf = a /\ new.os = none
  BY <1>5 DEF SlotSet
<1>8. new \in SlotSet
  <2>1. /\ old.in_use \in BOOLEAN /\ old.pending \in BOOLEAN /\ old.got \in Nat
        /\ old.start \in Nat /\ old.bytes \in Nat
    BY DEF SlotSet
  <2>2. a \in Places /\ none \in SUBSET Places
    BY <1>1, <1>2, <1>4 DEF SlotSet
  <2> QED
    BY <1>7, <2>1, <2>2 DEF SlotSet
<1>9. SlotRight(new, medium)
  <2>1. new.os = {} /\ new.buf = Place(medium, new.start) /\ new.pending
    BY <1>4, <1>7
  <2> QED
    BY <1>8, <2>1 DEF SlotRight
<1>10. new.os \subseteq slots[s].os /\ new.in_use = slots[s].in_use /\ new.start = slots[s].start
  BY <1>2, <1>4, <1>7
<1>11. UNCHANGED <<first, standing, reading, medium>>
  BY DEF Completes
<1> QED
  BY <1>6, <1>9, <1>10, <1>11, SlotChanges


\* q is slot once its read was waited for, and returned got bytes.
Waited(q, slot, got) ==
  /\ got \in (IF slot.pending THEN Got(Quiet(slot).buf, slot.bytes) ELSE {slot.got})
  /\ q = [Quiet(slot) EXCEPT !.got = got]

Settled(q, slot, got) ==
  /\ q.in_use = slot.in_use /\ q.start = slot.start /\ q.os = {}
  /\ q.pending = FALSE /\ q.got = got

\* What the slot holds once its read was waited for.
LEMMA QuietRight ==
  ASSUME NEW slot, NEW got, NEW q, Typed, medium # NoMedium, SlotRight(slot, medium),
         Waited(q, slot, got)
  PROVE  SlotRight(q, medium) /\ Settled(q, slot, got)
<1> USE DEF Waited, Settled
<1>1. slot \in SlotSet
  BY DEF SlotRight
<1>2. PICK buf : buf = IF slot.os = {} THEN slot.buf ELSE CHOOSE a \in slot.os : TRUE
  OBVIOUS
<1>3. q = [in_use |-> slot.in_use, pending |-> FALSE, got |-> got, start |-> slot.start,
           bytes |-> slot.bytes, buf |-> buf, os |-> {}]
  BY <1>1, <1>2 DEF Quiet, SlotSet
<1>4. /\ q.in_use = slot.in_use /\ q.pending = FALSE /\ q.got = got /\ q.start = slot.start
      /\ q.buf = buf /\ q.os = {}
  BY <1>3
<1>5. /\ slot.in_use \in BOOLEAN /\ slot.pending \in BOOLEAN /\ slot.got \in Nat
      /\ slot.start \in Nat /\ slot.bytes \in Nat /\ slot.buf \in Places
  BY <1>1 DEF SlotSet
<1>6. slot.os # {} => slot.pending /\ slot.os = {Place(medium, slot.start)}
  BY DEF SlotRight
<1>7. slot.pending => buf = Place(medium, slot.start)
  <2>1. CASE slot.os = {}
    BY <1>2, <2>1 DEF SlotRight
  <2>2. CASE slot.os # {}
    <3>1. slot.os = {Place(medium, slot.start)} /\ buf \in slot.os
      BY <1>2, <1>6, <2>2
    <3> QED
      BY <3>1
  <2> QED
    BY <2>1, <2>2
<1>8. ~slot.pending => buf = slot.buf
  BY <1>2, <1>6
<1>9. buf \in Places
  <2>1. slot.os \subseteq Places
    BY <1>1 DEF SlotSet
  <2> QED
    BY <1>2, <1>5, <2>1
<1> PICK b \in BOOLEAN, s \in Nat, n \in Nat, u \in Places :
      b = slot.in_use /\ s = slot.start /\ n = slot.bytes /\ u = buf
  BY <1>5, <1>9
<1> DEFINE rec(g) == [in_use |-> b, pending |-> FALSE, got |-> g, start |-> s, bytes |-> n,
                      buf |-> u, os |-> {}]
<1>10. q = rec(got)
  BY <1>3, Zenon
<1>11. \A g \in Nat : rec(g) \in SlotSet
  BY DEF SlotSet
<1> HIDE DEF rec
<1>12. CASE slot.pending
  <2>1. got \in Got(buf, slot.bytes) /\ buf.disk = medium /\ buf.at = slot.start
    <3>1. Quiet(slot).buf = buf
      BY <1>1, <1>2 DEF Quiet, SlotSet
    <3>2. got \in Got(Quiet(slot).buf, slot.bytes)
      BY <1>12
    <3> QED
      BY <1>7, <1>12, <3>1, <3>2 DEF Place
  <2>2. got \in Nat /\ (got > 0 => Sound(medium, slot.start, got))
    BY <1>5, <2>1 DEF Got, Sound
  <2>3. q \in SlotSet
    BY <1>10, <1>11, <2>2
  <2>4. SlotRight(q, medium)
    BY <1>4, <1>7, <1>12, <2>2, <2>3 DEF SlotRight
  <2> QED
    BY <1>4, <2>4
<1>13. CASE ~slot.pending
  <2>1. got = slot.got /\ buf = slot.buf
    BY <1>8, <1>13
  <2>2. q \in SlotSet
    BY <1>5, <1>10, <1>11, <2>1
  <2>3. slot.got > 0 => slot.buf = Place(medium, slot.start) /\ Sound(medium, slot.start, slot.got)
    BY <1>13 DEF SlotRight
  <2>4. SlotRight(q, medium)
    BY <1>4, <2>1, <2>2, <2>3 DEF SlotRight
  <2> QED
    BY <1>4, <2>4
<1> QED
  BY <1>5, <1>12, <1>13

\* The bytes that CopyOut() takes are those of the store.
LEMMA CopiedRight ==
  ASSUME Typed, request.len > 0, NEW q, SlotRight(q, medium), q.pending = FALSE,
         q.start <= request.start, Enough(q, q.got)
  PROVE  /\ Disk!Readable(medium, request)
         /\ [ok |-> TRUE, bytes |-> Copied(q)] = Disk!Success(medium, request)
<1>1. PICK a \in Int, n \in Nat : a = request.start /\ n = request.len /\ n > 0
  BY DEF Typed
<1>2. PICK s \in Nat, g \in Nat : s = q.start /\ g = q.got
  BY DEF SlotRight, SlotSet
<1>3. a - s + n <= g /\ s <= a
  BY <1>1, <1>2 DEF Enough
<1>4. g > 0
  BY <1>1, <1>3
<1>5. q.buf.disk = medium /\ q.buf.at = s /\ Sound(medium, s, g)
  BY <1>2, <1>4 DEF SlotRight, Place
<1>6. AddrMax \in Nat
  BY PrefetcherAssumption
<1>7. Disk!Range(request) = a..(a + n - 1)
  BY <1>1 DEF Disk!Range
<1>8. \A x \in a..(a + n - 1) : x \in s..(s + g - 1) /\ x \in 0..(AddrMax - 1)
  <2> TAKE x \in a..(a + n - 1)
  <2>1. s + g <= AddrMax
    BY <1>5 DEF Sound
  <2> QED
    BY <1>3, <1>6, <2>1
<1>9. \A x \in a..(a + n - 1) : x \notin BadOf[medium]
  BY <1>5, <1>8 DEF Sound
<1>10. Disk!Readable(medium, request)
  <2>1. medium # NoMedium
    BY <1>5 DEF Sound
  <2>2. request.start >= 0
    BY <1>1, <1>3
  <2> QED
    BY <1>7, <1>8, <1>9, <2>1, <2>2 DEF Disk!Readable
<1>11. Copied(q) = Disk!Bytes(medium, request)
  <2>1. \A i \in 0..(n - 1) : q.buf.at + (a - s) + i = a + i
    BY <1>5
  <2>2. \A i \in 0..(n - 1) :
          Disk!Content(q.buf.disk, q.buf.at + (a - s) + i) = Disk!Content(medium, a + i)
    BY <1>5, <2>1
  <2> QED
    BY <1>1, <1>2, <2>2 DEF Copied, Disk!Bytes
<1> QED
  BY <1>10, <1>11 DEF Disk!Success

\* A range announced has no slot yet.
LEMMA AnnouncedHeld ==
  ASSUME NEW lane, LaneRight(lane), NEW range \in [offset : Nat, length : Nat], Bounded(range),
         NEW w, Announces(w, lane, range), NEW x
  PROVE  x \in Held(w) <=> x \in Held(lane)
<1>1. PICK n \in Nat : n = Len(lane.ranges) /\ DOMAIN lane.ranges = 1..n
  BY LaneTyped DEF LaneRight
<1>2. /\ LaneRight(w) /\ Len(w.ranges) = n + 1
      /\ \A i \in 1..n : w.ranges[i] = lane.ranges[i]
      /\ w.ranges[n + 1].slot = NoSlot
  BY <1>1, AnnouncedRight
<1>3. DOMAIN w.ranges = 1..(n + 1)
  BY <1>2, LaneTyped DEF LaneRight
<1>4. \A i \in 1..(n + 1) : i \in 1..n \/ i = n + 1
  OBVIOUS
<1>5. x \in Held(w) <=> x # NoSlot /\ \E i \in 1..(n + 1) : w.ranges[i].slot = x
  BY <1>3 DEF Held, HeldBy
<1>6. x \in Held(lane) <=> x # NoSlot /\ \E i \in 1..n : lane.ranges[i].slot = x
  BY <1>1 DEF Held, HeldBy
<1>7. \A i \in 1..n : i \in 1..(n + 1)
  OBVIOUS
<1> QED
  BY <1>2, <1>4, <1>5, <1>6, <1>7

LEMMA AnnouncedFits ==
  ASSUME NEW lane, LaneRight(lane), NEW range \in [offset : Nat, length : Nat], Bounded(range),
         NEW w, Announces(w, lane, range), NEW sl, Fits(lane, sl)
  PROVE  Fits(w, sl)
<1>1. PICK n \in Nat : n = Len(lane.ranges) /\ DOMAIN lane.ranges = 1..n
  BY LaneTyped DEF LaneRight
<1>2. /\ LaneRight(w) /\ Len(w.ranges) = n + 1
      /\ \A i \in 1..n : w.ranges[i] = lane.ranges[i]
      /\ w.ranges[n + 1].slot = NoSlot
  BY <1>1, AnnouncedRight
<1>3. DOMAIN w.ranges = 1..(n + 1)
  BY <1>2, LaneTyped DEF LaneRight
<1>4. \A i \in 1..(n + 1) : i \in 1..n \/ i = n + 1
  OBVIOUS
<1> QED
  BY <1>1, <1>2, <1>3, <1>4 DEF Fits

\* A range is announced on the first queue.
LEMMA AnnouncedFirst ==
  ASSUME LanesRight, NEW range \in [offset : Nat, length : Nat], Bounded(range),
         Announces(first', first, range), UNCHANGED <<standing, reading, slots, medium>>
  PROVE  LanesRight'
<1>1. LaneRight(first) /\ Shared(first, standing, slots)
  BY DEF LanesRight
<1>2. LaneRight(first') /\ first'.started_bytes = first.started_bytes
  BY <1>1, AnnouncedRight
<1>3. \A x : x \in Held(first') <=> x \in Held(first)
  BY <1>1, AnnouncedHeld
<1>4. Fits(first', slots)
  BY <1>1, AnnouncedFits DEF Shared
<1>5. Shared(first', standing, slots)
  BY <1>1, <1>3, <1>4 DEF Shared
<1>6. BytesCapped(first', standing)
  BY <1>2 DEF LanesRight, BytesCapped
<1> QED
  BY <1>2, <1>5, <1>6 DEF LanesRight

\* A range is announced on the standing lane.
LEMMA AnnouncedStanding ==
  ASSUME LanesRight, NEW range \in [offset : Nat, length : Nat], Bounded(range),
         Announces(standing', standing, range), UNCHANGED <<first, reading, slots, medium>>
  PROVE  LanesRight'
<1>1. LaneRight(standing) /\ Shared(first, standing, slots)
  BY DEF LanesRight
<1>2. LaneRight(standing') /\ standing'.started_bytes = standing.started_bytes
  BY <1>1, AnnouncedRight
<1>3. \A x : x \in Held(standing') <=> x \in Held(standing)
  BY <1>1, AnnouncedHeld
<1>4. Fits(standing', slots)
  BY <1>1, AnnouncedFits DEF Shared
<1>5. Shared(first, standing', slots)
  BY <1>1, <1>3, <1>4 DEF Shared
<1>6. BytesCapped(first, standing')
  BY <1>2 DEF LanesRight, BytesCapped
<1>7. ReadingRight(reading, standing', slots)
  BY <1>3 DEF LanesRight, ReadingRight
<1> QED
  BY <1>2, <1>5, <1>6, <1>7 DEF LanesRight

\* Serve() drops the ranges before the one that holds the request: it comes first.
LEMMA PassedOver ==
  ASSUME NEW lane, LaneRight(lane), NEW l \in DOMAIN lane.ranges,
         NEW w, w = Without(lane, 1..(l - 1))
  PROVE  1 \in DOMAIN w.ranges /\ w.ranges[1] = lane.ranges[l]
<1>1. PICK drop : drop = 1..(l - 1)
  OBVIOUS
<1>2. \E kept : Shrunk(w, lane, kept, drop)
  BY <1>1, WithoutShrinks
<1>3. PICK kept : Shrunk(w, lane, kept, drop)
  BY <1>2
<1>4. PICK n \in Nat : n = Len(lane.ranges) /\ DOMAIN lane.ranges = 1..n /\ l \in 1..n
  BY LaneTyped DEF LaneRight
<1>5. PICK m \in Nat : m = Len(w.ranges) /\ DOMAIN w.ranges = 1..m /\ Left(kept, m, n, drop)
  BY <1>3, <1>4 DEF Shrunk, Left
<1>6. /\ \A i \in 1..m : kept[i] \in 1..n /\ kept[i] \notin drop
      /\ \A i, j \in 1..m : i < j => kept[i] < kept[j]
      /\ \A p \in 1..n : p \notin drop => \E i \in 1..m : kept[i] = p
  BY <1>5 DEF Left
<1>7. l \notin drop
  BY <1>1, <1>4
<1>8. PICK i \in 1..m : kept[i] = l
  BY <1>4, <1>6, <1>7
<1>9. 1 \in 1..m
  OBVIOUS
<1>10. kept[1] >= l
  BY <1>1, <1>4, <1>6, <1>9
<1>11. i = 1
  <2> SUFFICES ASSUME 1 < i PROVE FALSE
    OBVIOUS
  <2>1. kept[1] < kept[i] /\ kept[1] \in Nat /\ kept[i] \in Nat
    BY <1>6, <1>9
  <2> QED
    BY <1>4, <1>8, <1>10, <2>1
<1> QED
  BY <1>3, <1>5, <1>8, <1>9, <1>11 DEF Shrunk

\* A queue with the same ranges, but for their slots, holds the same requests.
Alike(w, lane) ==
  /\ DOMAIN w.ranges = DOMAIN lane.ranges
  /\ \A i \in DOMAIN w.ranges : /\ w.ranges[i].offset = lane.ranges[i].offset
                                /\ w.ranges[i].length = lane.ranges[i].length

LEMMA AlikeHolds ==
  ASSUME NEW lane, NEW w, Alike(w, lane), NEW index, NEW r, Holds(lane, index, r)
  PROVE  Holds(w, index, r)
  BY DEF Alike, Holds, EndOf

LEMMA StartedAlike ==
  ASSUME NEW lane, LaneRight(lane), lane.started < Len(lane.ranges),
         NEW s \in Slots, s \notin Held(lane), NEW w, w = StartedIn(lane, s)
  PROVE  Alike(w, lane)
  BY StartedRight DEF Alike
----------------------------------------------------------------------------
(* The invariant holds at first and after every step. *)

LEMMA EmptyRight ==
  /\ LaneRight(EmptyLane)
  /\ EmptyLane.started_bytes = 0
  /\ \A x : x \notin Held(EmptyLane)
<1>1. /\ EmptyLane.ranges = <<>> /\ EmptyLane.started = 0 /\ EmptyLane.started_bytes = 0
      /\ EmptyLane \in LaneSet
  BY DEF EmptyLane, LaneSet
<1>2. Len(EmptyLane.ranges) = 0 /\ DOMAIN EmptyLane.ranges = {}
  BY <1>1
<1>3. BytesAt(EmptyLane, 1..EmptyLane.started) = 0
  BY <1>2, TotalNone DEF BytesAt
<1>4. LaneRight(EmptyLane)
  BY <1>1, <1>2, <1>3 DEF LaneRight
<1>5. \A x : x \notin Held(EmptyLane)
  BY <1>2 DEF Held, HeldBy
<1> QED
  BY <1>1, <1>4, <1>5

\* A new Prefetcher.
Fresh(sl) == sl = [s \in Slots |-> FreeSlot]

LEMMA FreshRight ==
  ASSUME NEW sl, Fresh(sl), NEW m
  PROVE  /\ Shared(EmptyLane, EmptyLane, sl)
         /\ SlotsRight(sl, m)
         /\ ReadingRight(<<>>, EmptyLane, sl)
         /\ ReadsCapped(sl)
         /\ BytesCapped(EmptyLane, EmptyLane)
<1>1. DOMAIN sl = Slots /\ \A s \in Slots : sl[s] = FreeSlot
  BY DEF Fresh
<1>2. SlotRight(FreeSlot, m) /\ FreeSlot.os = {} /\ FreeSlot.in_use = FALSE
  BY FreeRight
<1>3. SlotsRight(sl, m)
  BY <1>1, <1>2 DEF SlotsRight
<1>4. \A x : x \notin Held(EmptyLane)
  BY EmptyRight
<1>5. Fits(EmptyLane, sl)
  BY DEF Fits, EmptyLane
<1>6. Shared(EmptyLane, EmptyLane, sl)
  BY <1>1, <1>2, <1>4, <1>5 DEF Shared
<1>7. ReadingRight(<<>>, EmptyLane, sl)
  BY <1>4 DEF ReadingRight
<1>8. FirstPattern \in Patterns
  BY PrefetcherAssumption
<1>9. /\ Caps[FirstPattern].max_reads \in Nat /\ Caps[FirstPattern].max_range_bytes \in Nat
      /\ LaneCap(FirstPattern) \in Nat
  BY <1>8, CapsTyped
<1>10. ReadsCapped(sl)
  <2>1. Flying(sl) = {}
    BY <1>1, <1>2 DEF Flying
  <2>2. Cardinality(Flying(sl)) = 0
    BY <2>1, FS_EmptySet
  <2>3. Cardinality(Flying(sl)) <= Caps[FirstPattern].max_reads
    BY <1>9, <2>2
  <2> QED
    BY <1>8, <2>3 DEF ReadsCapped
<1>11. BytesCapped(EmptyLane, EmptyLane)
  <2>1. EmptyLane.started_bytes = 0
    BY EmptyRight
  <2>2. EmptyLane.started_bytes <= LaneCap(FirstPattern)
    BY <1>9, <2>1
  <2>3. EmptyLane.started_bytes + EmptyLane.started_bytes <=
          LaneCap(FirstPattern) + Caps[FirstPattern].max_range_bytes
    BY <1>9, <2>1
  <2> QED
    BY <1>8, <2>2, <2>3 DEF BytesCapped
<1> QED
  BY <1>3, <1>6, <1>7, <1>10, <1>11

LEMMA Initially ==
  ASSUME Init
  PROVE  IInv
<1>1. /\ first = EmptyLane /\ standing = EmptyLane /\ reading = <<>> /\ Fresh(slots)
  BY DEF Init, Fresh
<1>2. LanesRight
  <2>1. LaneRight(EmptyLane)
    BY EmptyRight
  <2>2. /\ Shared(EmptyLane, EmptyLane, slots) /\ SlotsRight(slots, medium)
        /\ ReadingRight(<<>>, EmptyLane, slots) /\ ReadsCapped(slots)
        /\ BytesCapped(EmptyLane, EmptyLane)
    BY <1>1, FreshRight
  <2> QED
    BY <1>1, <2>1, <2>2 DEF LanesRight
<1>3. Typed
  BY PrefetcherAssumption DEF Init, Typed, Phases, Disk!NoRequest
<1>4. CallRight
  BY DEF Init, CallRight
<1> QED
  BY <1>2, <1>3, <1>4 DEF IInv

\* What a step that leaves the queues and the slots alone keeps.
LEMMA LanesKept ==
  ASSUME LanesRight, UNCHANGED <<first, standing, reading, slots, medium>>
  PROVE  LanesRight'
  BY DEF LanesRight

LEMMA CountStandingRight ==
  ASSUME IInv, CountStanding \/ FirstStarted
  PROVE  IInv'
<1>1. Typed /\ LanesRight /\ CallRight
  BY DEF IInv
<1>2. /\ UNCHANGED <<medium, handle, pattern, first, standing, slots, andThen, serving>>
      /\ UNCHANGED readVars
      /\ reading' = StillReading /\ in_flight' = Len(StillReading)
      /\ phase \in {"count", "first"} /\ phase' \in {"first", "standing"}
  BY DEF CountStanding, FirstStarted
<1>3. /\ ReadingRight(StillReading, standing, slots) /\ Len(StillReading) \in Nat
      /\ Counted(standing, slots, Len(StillReading))
  BY <1>1, StillReadingRight
<1>4. LanesRight'
  BY <1>1, <1>2, <1>3 DEF LanesRight
<1>5. Typed'
  BY <1>1, <1>2, <1>3 DEF Typed, Phases, readVars
<1>6. CallRight'
  <2>1. Counted(standing', slots', in_flight')
    BY <1>2, <1>3
  <2> QED
    BY <1>1, <1>2, <2>1 DEF CallRight, Lane, readVars
<1> QED
  BY <1>4, <1>5, <1>6 DEF IInv

LEMMA StartFirstStep ==
  ASSUME IInv, StartFirst
  PROVE  IInv'
<1>1. Typed /\ LanesRight /\ CallRight
  BY DEF IInv
<1>2. UNCHANGED <<medium, handle, pattern, standing, phase, andThen, in_flight, serving, request, answer>>
  BY DEF StartFirst, callVars, readVars
<1>3. LanesRight' /\ Counted(standing, slots', in_flight)
  BY <1>1, StartFirstRight
<1>4. Typed'
  BY <1>1, <1>2 DEF Typed
<1>5. Alike(first', first)
  <2>1. PICK s \in FreeSlots : first' = StartedIn(first, s)
    BY DEF StartFirst
  <2>2. s \in Slots /\ s \notin Held(first)
    BY <1>1, <2>1 DEF FreeSlots, LanesRight, Shared
  <2>3. LaneRight(first) /\ first.started < Len(first.ranges)
    BY <1>1 DEF LanesRight, StartFirst, FirstMayStart
  <2> QED
    BY <2>1, <2>2, <2>3, StartedAlike
<1>6. Holds(Lane, serving.index, request) => Holds(Lane', serving.index, request)
  BY <1>2, <1>5, AlikeHolds DEF Lane
<1>7. CallRight'
  BY <1>1, <1>2, <1>3, <1>6 DEF CallRight
<1> QED
  BY <1>3, <1>4, <1>7 DEF IInv

LEMMA StartStandingStep ==
  ASSUME IInv, StartStanding
  PROVE  IInv'
<1>1. Typed /\ LanesRight /\ CallRight
  BY DEF IInv
<1>2. /\ UNCHANGED <<medium, handle, pattern, first, phase, andThen, serving, request, answer>>
      /\ in_flight' = in_flight + 1
  BY DEF StartStanding, readVars
<1>3. LanesRight' /\ Counted(standing', slots', in_flight')
  BY <1>1, StartStandingRight
<1>4. Typed'
  BY <1>1, <1>2 DEF Typed
<1>5. Alike(standing', standing)
  <2>1. PICK s \in FreeSlots : standing' = StartedIn(standing, s)
    BY DEF StartStanding
  <2>2. s \in Slots /\ s \notin Held(standing)
    BY <1>1, <2>1 DEF FreeSlots, LanesRight, Shared
  <2>3. LaneRight(standing) /\ standing.started < Len(standing.ranges)
    BY <1>1 DEF LanesRight, StartStanding, StandingMayStart
  <2> QED
    BY <2>1, <2>2, <2>3, StartedAlike
<1>6. Holds(Lane, serving.index, request) => Holds(Lane', serving.index, request)
  BY <1>2, <1>5, AlikeHolds DEF Lane
<1>7. CallRight'
  BY <1>1, <1>2, <1>3, <1>6 DEF CallRight
<1> QED
  BY <1>3, <1>4, <1>7 DEF IInv

LEMMA ReadsStartedStep ==
  ASSUME IInv, ReadsStarted
  PROVE  IInv'
<1>1. Typed /\ LanesRight /\ CallRight
  BY DEF IInv
<1>2. /\ UNCHANGED <<medium, handle, pattern, first, standing, reading, slots, serving, request, answer>>
      /\ phase = "standing" /\ phase' = andThen /\ andThen' = "idle" /\ in_flight' = 0
  BY DEF ReadsStarted, laneVars, readVars
<1>3. LanesRight'
  BY <1>1, <1>2, LanesKept
<1>4. Typed'
  BY <1>1, <1>2 DEF Typed, Phases
<1>5. andThen \in {"idle", "serve", "sync"}
  BY <1>1 DEF Typed
<1>6. CallRight'
  BY <1>1, <1>2, <1>5 DEF CallRight, Lane
<1> QED
  BY <1>3, <1>4, <1>6 DEF IInv

LEMMA CompletesStep ==
  ASSUME IInv, NEW s \in Slots, Completes(s)
  PROVE  IInv'
<1>1. Typed /\ LanesRight /\ CallRight
  BY DEF IInv
<1>2. UNCHANGED <<medium, handle, pattern, first, standing, reading, phase, andThen, in_flight,
                  serving, request, answer>>
  BY DEF Completes, callVars, readVars
<1>3. LanesRight' /\ Flying(slots') \subseteq Flying(slots)
  BY <1>1, CompletesRight
<1>4. Typed'
  BY <1>1, <1>2 DEF Typed
<1>5. Counted(standing, slots, in_flight) => Counted(standing, slots', in_flight)
  <2>1. PICK G, H : G = Flying(slots) \cap Held(standing) /\ H = Flying(slots') \cap Held(standing)
    OBVIOUS
  <2>2. G \in SUBSET Slots /\ H \in SUBSET G
    BY <1>3, <2>1 DEF Flying
  <2>3. Cardinality(H) \in Nat /\ Cardinality(H) <= Cardinality(G)
    BY <2>2, FewerSlots
  <2>4. Cardinality(G) \in Nat
    BY <2>2, SlotsFinite
  <2>5. in_flight \in Nat
    BY <1>1 DEF Typed
  <2>6. Cardinality(G) <= in_flight => Cardinality(H) <= in_flight
    BY <2>3, <2>4, <2>5
  <2> QED
    BY <2>1, <2>6 DEF Counted
<1>6. CallRight'
  BY <1>1, <1>2, <1>5 DEF CallRight, Lane
<1> QED
  BY <1>3, <1>4, <1>6 DEF IInv

\* What a hint leaves of the call: no read is under way.
LEMMA HintRight ==
  ASSUME IInv, phase = "idle", UNCHANGED <<medium, in_flight, serving, request>>,
         handle' \in {"none", "open", "failed"}, pattern' \in Patterns, answer' = NoAnswer,
         phase' \in {"idle", "count"}, andThen' = "idle", LanesRight'
  PROVE  IInv'
<1>1. Typed'
  BY DEF IInv, Typed, Phases
<1>2. CallRight'
  BY DEF CallRight
<1> QED
  BY <1>1, <1>2 DEF IInv

LEMMA RangeAdmitted ==
  ASSUME Typed, NEW range \in Ranges, Admissible(range)
  PROVE  range \in [offset : Nat, length : Nat] /\ Bounded(range)
<1>1. range \in [offset : Nat, length : Nat]
  BY PrefetcherAssumption
<1>2. AlignedBytes(range) <= Caps[pattern].max_range_bytes /\ pattern \in Patterns
  BY DEF Admissible, cap, Typed
<1> QED
  BY <1>1, <1>2 DEF Bounded

LEMMA AnnounceStep ==
  ASSUME IInv, Announce
  PROVE  IInv'
<1>1. Typed /\ LanesRight /\ CallRight
  BY DEF IInv
<1>2. /\ UNCHANGED <<medium, pattern, reading, slots, in_flight, serving, request>>
      /\ answer' = NoAnswer /\ phase = "idle"
  BY DEF Announce, MayCall
<1>3. pattern \in Patterns /\ andThen = "idle"
  BY <1>1, <1>2 DEF Typed, CallRight
<1>4. PICK range \in Ranges :
        /\ Admissible(range)
        /\ EnsureHandle(/\ first' = [first EXCEPT !.ranges = Append(@, Announced(range))]
                        /\ UNCHANGED standing)
  BY DEF Announce
<1>5. CASE /\ handle' = "open" /\ first' = [first EXCEPT !.ranges = Append(@, Announced(range))]
           /\ UNCHANGED standing /\ phase' = "count" /\ andThen' = "idle"
  <2>1. Announces(first', first, range)
    BY <1>5 DEF Announces
  <2>2. range \in [offset : Nat, length : Nat] /\ Bounded(range)
    BY <1>1, <1>4, RangeAdmitted
  <2>3. LanesRight'
    BY <1>1, <1>2, <1>5, <2>1, <2>2, AnnouncedFirst
  <2> QED
    BY <1>2, <1>3, <1>5, <2>3, HintRight
<1>6. CASE handle' = "failed" /\ UNCHANGED <<first, standing, phase, andThen>>
  <2>1. LanesRight'
    BY <1>1, <1>2, <1>6, LanesKept
  <2> QED
    BY <1>2, <1>3, <1>6, <2>1, HintRight
<1> QED
  BY <1>4, <1>5, <1>6 DEF EnsureHandle, ThenStartReads

LEMMA AnnounceStandingStep ==
  ASSUME IInv, AnnounceStanding
  PROVE  IInv'
<1>1. Typed /\ LanesRight /\ CallRight
  BY DEF IInv
<1>2. /\ UNCHANGED <<medium, pattern, reading, slots, in_flight, serving, request>>
      /\ answer' = NoAnswer /\ phase = "idle"
  BY DEF AnnounceStanding, MayCall
<1>3. pattern \in Patterns /\ andThen = "idle"
  BY <1>1, <1>2 DEF Typed, CallRight
<1>4. PICK range \in Ranges :
        /\ Admissible(range)
        /\ EnsureHandle(/\ standing' = [standing EXCEPT !.ranges = Append(@, Announced(range))]
                        /\ UNCHANGED first)
  BY DEF AnnounceStanding
<1>5. CASE /\ handle' = "open" /\ standing' = [standing EXCEPT !.ranges = Append(@, Announced(range))]
           /\ UNCHANGED first /\ phase' = "count" /\ andThen' = "idle"
  <2>1. Announces(standing', standing, range)
    BY <1>5 DEF Announces
  <2>2. range \in [offset : Nat, length : Nat] /\ Bounded(range)
    BY <1>1, <1>4, RangeAdmitted
  <2>3. LanesRight'
    BY <1>1, <1>2, <1>5, <2>1, <2>2, AnnouncedStanding
  <2> QED
    BY <1>2, <1>3, <1>5, <2>3, HintRight
<1>6. CASE handle' = "failed" /\ UNCHANGED <<first, standing, phase, andThen>>
  <2>1. LanesRight'
    BY <1>1, <1>2, <1>6, LanesKept
  <2> QED
    BY <1>2, <1>3, <1>6, <2>1, HintRight
<1> QED
  BY <1>4, <1>5, <1>6 DEF EnsureHandle, ThenStartReads

LEMMA CancelStep ==
  ASSUME IInv, Cancel
  PROVE  IInv'
<1>1. Typed /\ LanesRight
  BY DEF IInv
<1>2. /\ UNCHANGED <<medium, handle, pattern, in_flight, serving, request>>
      /\ answer' = NoAnswer /\ phase = "idle" /\ phase' = "count" /\ andThen' = "idle"
      /\ DropFirst(DOMAIN first.ranges)
  BY DEF Cancel, MayCall, ThenStartReads
<1>3. LanesRight'
  <2>1. DOMAIN first.ranges \in SUBSET DOMAIN first.ranges
    OBVIOUS
  <2> QED
    BY <1>1, <1>2, <2>1, DropFirstRight
<1>4. handle' \in {"none", "open", "failed"} /\ pattern' \in Patterns
  BY <1>1, <1>2 DEF Typed
<1> QED
  BY <1>2, <1>3, <1>4, HintRight

LEMMA CancelStandingStep ==
  ASSUME IInv, CancelStanding
  PROVE  IInv'
<1>1. Typed /\ LanesRight
  BY DEF IInv
<1>2. /\ UNCHANGED <<medium, handle, pattern, in_flight, serving, request>>
      /\ answer' = NoAnswer /\ phase = "idle" /\ phase' = "count" /\ andThen' = "idle"
  BY DEF CancelStanding, MayCall, ThenStartReads
<1>3. PICK drop \in SUBSET DOMAIN standing.ranges : DropStanding(drop)
  <2> PICK range \in Ranges : \E e :
        DropStanding({i \in DOMAIN standing.ranges :
                        /\ standing.ranges[i].offset < e
                        /\ range.offset < EndOf(standing.ranges[i])})
    BY DEF CancelStanding
  <2>1. PICK end :
          DropStanding({i \in DOMAIN standing.ranges :
                          /\ standing.ranges[i].offset < end
                          /\ range.offset < EndOf(standing.ranges[i])})
    OBVIOUS
  <2>2. PICK drop : drop = {i \in DOMAIN standing.ranges :
                              /\ standing.ranges[i].offset < end
                              /\ range.offset < EndOf(standing.ranges[i])}
    OBVIOUS
  <2>3. DropStanding(drop) /\ drop \in SUBSET DOMAIN standing.ranges
    BY <2>1, <2>2
  <2> QED
    BY <2>3
<1>4. LanesRight'
  BY <1>1, <1>2, <1>3, DropStandingRight
<1>5. handle' \in {"none", "open", "failed"} /\ pattern' \in Patterns
  BY <1>1, <1>2 DEF Typed
<1> QED
  BY <1>2, <1>4, <1>5, HintRight

LEMMA SetPatternStep ==
  ASSUME IInv, SetPattern
  PROVE  IInv'
<1>1. Typed /\ LanesRight
  BY DEF IInv
<1>2. /\ UNCHANGED <<medium, handle, first, standing, reading, slots, in_flight, serving, request>>
      /\ answer' = NoAnswer /\ phase = "idle" /\ phase' = "count" /\ andThen' = "idle"
      /\ pattern' \in Patterns
  BY DEF SetPattern, MayCall, ThenStartReads, laneVars
<1>3. LanesRight'
  BY <1>1, <1>2, LanesKept
<1>4. handle' \in {"none", "open", "failed"}
  BY <1>1, <1>2 DEF Typed
<1> QED
  BY <1>2, <1>3, <1>4, HintRight

LEMMA OpenStep ==
  ASSUME IInv, Open
  PROVE  IInv'
<1>1. /\ first' = EmptyLane /\ standing' = EmptyLane /\ reading' = <<>> /\ Fresh(slots')
      /\ phase = "idle" /\ UNCHANGED <<phase, andThen, in_flight, serving, request>>
  BY DEF Open, NewPrefetcher, Fresh, callVars
<1>2. LanesRight'
  <2>1. LaneRight(EmptyLane)
    BY EmptyRight
  <2>2. /\ Shared(EmptyLane, EmptyLane, slots') /\ SlotsRight(slots', medium')
        /\ ReadingRight(<<>>, EmptyLane, slots') /\ ReadsCapped(slots')
        /\ BytesCapped(EmptyLane, EmptyLane)
    BY <1>1, FreshRight
  <2> QED
    BY <1>1, <2>1, <2>2 DEF LanesRight
<1>3. Typed'
  BY <1>1, PrefetcherAssumption DEF IInv, Typed, Open, NewPrefetcher
<1>4. CallRight'
  BY <1>1 DEF IInv, CallRight
<1> QED
  BY <1>2, <1>3, <1>4 DEF IInv

LEMMA SyncReadStep ==
  ASSUME IInv, SyncRead
  PROVE  IInv'
<1>1. Typed /\ LanesRight /\ CallRight
  BY DEF IInv
<1>2. /\ UNCHANGED <<medium, handle, pattern, first, standing, reading, slots, andThen, in_flight, serving>>
      /\ phase = "sync" /\ phase' = "idle" /\ request' = Disk!NoRequest
  BY DEF SyncRead, Returns, laneVars
<1>3. LanesRight'
  BY <1>1, <1>2, LanesKept
<1>4. Typed'
  BY <1>1, <1>2 DEF Typed, Phases, Disk!NoRequest
<1>5. CallRight'
  BY <1>1, <1>2 DEF CallRight
<1> QED
  BY <1>3, <1>4, <1>5 DEF IInv

\* The least index of a range that holds the request.
LEMMA LeastHolding ==
  ASSUME NEW lane, LaneRight(lane), NEW count, NEW r, NEW H, H = Holding(lane, count, r), H # {}
  PROVE  Least(H) \in DOMAIN lane.ranges /\ Holds(lane, Least(H), r)
<1>1. H \subseteq DOMAIN lane.ranges /\ \A i \in H : Holds(lane, i, r)
  BY DEF Holding, Holds
<1>2. PICK n \in Nat : DOMAIN lane.ranges = 1..n
  BY LaneTyped DEF LaneRight
<1>3. H \subseteq Nat
  BY <1>1, <1>2
<1>4. \E l \in H : \A m \in H : l <= m
  BY <1>3, LeastNatural
<1>5. Least(H) \in H
  BY <1>4 DEF Least
<1> QED
  BY <1>1, <1>5

LEMMA CallReadIntoStep ==
  ASSUME IInv, CallReadInto
  PROVE  IInv'
<1>1. Typed /\ LanesRight /\ CallRight
  BY DEF IInv
<1>2. UNCHANGED <<medium, handle, pattern, in_flight>> /\ phase = "idle" /\ andThen = "idle"
  BY <1>1 DEF CallReadInto, CallRight
<1>3. PICK r \in Requests : LET inFirst == Holding(first, cap.match_lookahead, r)
                                inLane == Holding(standing, Len(standing.ranges), r)
       IN  /\ request' = r
           /\ \/ /\ phase' = "sync"
                 /\ answer' = NoAnswer
                 /\ UNCHANGED <<laneVars, andThen, serving>>
              \/ /\ r.start >= 0 /\ medium # NoMedium /\ r.len > 0
                 /\ inFirst # {}
                 /\ DropFirst(1..(Least(inFirst) - 1))
                 /\ serving' = [lane |-> "first", index |-> 1]
                 /\ ThenStartReads("serve")
                 /\ answer' = NoAnswer
              \/ /\ r.start >= 0 /\ medium # NoMedium /\ r.len > 0
                 /\ inLane # {}
                 /\ serving' = [lane |-> "standing", index |-> Least(inLane)]
                 /\ ThenStartReads("serve")
                 /\ answer' = NoAnswer
                 /\ UNCHANGED laneVars
  BY DEF CallReadInto
<1>4. request' = r /\ answer' = NoAnswer /\ r \in [start : Int, len : Nat]
  BY <1>3, PrefetcherAssumption
<1>5. PICK H, G : /\ H = Holding(first, cap.match_lookahead, r)
                  /\ G = Holding(standing, Len(standing.ranges), r)
  OBVIOUS
<1>6. CASE phase' = "sync" /\ UNCHANGED <<laneVars, andThen, serving>>
  <2>1. LanesRight'
    BY <1>1, <1>2, <1>6, LanesKept DEF laneVars
  <2>2. Typed'
    BY <1>1, <1>2, <1>4, <1>6 DEF Typed, Phases
  <2>3. CallRight'
    BY <1>2, <1>4, <1>6 DEF CallRight
  <2> QED
    BY <2>1, <2>2, <2>3 DEF IInv
<1>7. CASE /\ r.start >= 0 /\ medium # NoMedium /\ r.len > 0
           /\ H # {} /\ DropFirst(1..(Least(H) - 1))
           /\ serving' = [lane |-> "first", index |-> 1] /\ phase' = "count" /\ andThen' = "serve"
  <2>1. LaneRight(first)
    BY <1>1 DEF LanesRight
  <2>2. PICK l : l = Least(H) /\ l \in DOMAIN first.ranges /\ Holds(first, l, r)
    BY <1>5, <1>7, <2>1, LeastHolding
  <2>3. first' = Without(first, 1..(l - 1))
    BY <1>7, <2>2 DEF DropFirst
  <2>4. LanesRight'
    <3>1. 1..(l - 1) \in SUBSET DOMAIN first.ranges
      BY <2>1, <2>2, LaneTyped DEF LaneRight
    <3> QED
      BY <1>1, <1>2, <1>7, <2>2, <3>1, DropFirstRight
  <2>5. 1 \in DOMAIN first'.ranges /\ first'.ranges[1] = first.ranges[l]
    BY <2>1, <2>2, <2>3, PassedOver
  <2>6. Holds(first', 1, r)
    BY <2>2, <2>5 DEF Holds
  <2>7. serving'.lane = "first" /\ serving'.index = 1 /\ Lane' = first'
    BY <1>7 DEF Lane
  <2>8. Typed'
    BY <1>1, <1>2, <1>4, <1>7 DEF Typed, Phases
  <2>9. CallRight'
    BY <1>2, <1>4, <1>7, <2>6, <2>7 DEF CallRight
  <2> QED
    BY <2>4, <2>8, <2>9 DEF IInv
<1>8. CASE /\ r.start >= 0 /\ medium # NoMedium /\ r.len > 0
           /\ G # {} /\ serving' = [lane |-> "standing", index |-> Least(G)]
           /\ phase' = "count" /\ andThen' = "serve" /\ UNCHANGED laneVars
  <2>1. LaneRight(standing)
    BY <1>1 DEF LanesRight
  <2>2. PICK l : l = Least(G) /\ l \in DOMAIN standing.ranges /\ Holds(standing, l, r)
    BY <1>5, <1>8, <2>1, LeastHolding
  <2>3. LanesRight'
    BY <1>1, <1>2, <1>8, LanesKept DEF laneVars
  <2>4. l \in Nat
    BY <2>1, <2>2, LaneTyped DEF LaneRight
  <2>5. serving'.lane = "standing" /\ serving'.index = l /\ Lane' = standing
    BY <1>8, <2>2 DEF Lane, laneVars
  <2>6. Typed'
    BY <1>1, <1>2, <1>4, <1>8, <2>2, <2>4 DEF Typed, Phases
  <2>7. CallRight'
    BY <1>2, <1>4, <1>8, <2>2, <2>5 DEF CallRight
  <2> QED
    BY <2>3, <2>6, <2>7 DEF IInv
<1> QED
  BY <1>3, <1>5, <1>6, <1>7, <1>8 DEF ThenStartReads

\* The range a read is served from, and its slot.
LEMMA ServedFrom ==
  ASSUME IInv, phase = "serve"
  PROVE  /\ medium # NoMedium /\ request.len > 0 /\ answer = NoAnswer
         /\ serving.lane = "first" => serving.index \in DOMAIN first.ranges
         /\ serving.lane # "first" => serving.index \in DOMAIN standing.ranges
         /\ Serving.slot # NoSlot =>
              /\ Serving.slot \in Slots
              /\ SlotRight(slots[Serving.slot], medium)
              /\ slots[Serving.slot].start <= request.start
<1>1. Typed /\ LanesRight /\ CallRight
  BY DEF IInv
<1>2. /\ medium # NoMedium /\ request.len > 0 /\ answer = NoAnswer
      /\ Holds(Lane, serving.index, request)
  BY <1>1 DEF CallRight
<1>3. PICK lane : lane = Lane /\ LaneRight(lane) /\ Fits(lane, slots)
  BY <1>1 DEF Lane, LanesRight, Shared
<1>4. PICK i : i = serving.index /\ i \in DOMAIN lane.ranges /\ lane.ranges[i].offset <= request.start
  BY <1>2, <1>3 DEF Holds
<1>5. Serving = lane.ranges[i]
  BY <1>3, <1>4 DEF Serving
<1>6. ASSUME Serving.slot # NoSlot
      PROVE  /\ Serving.slot \in Slots
             /\ SlotRight(slots[Serving.slot], medium)
             /\ slots[Serving.slot].start <= request.start
  <2>1. PICK s \in Slots : s = lane.ranges[i].slot
    BY <1>3, <1>4, <1>5, <1>6, LaneTyped DEF LaneRight
  <2>2. slots[s].start = AlignDown(lane.ranges[i].offset)
    BY <1>3, <1>4, <1>5, <1>6, <2>1 DEF Fits
  <2>3. lane.ranges[i].offset \in Nat
    BY <1>3, <1>4, LaneTyped DEF LaneRight
  <2>4. AlignDown(lane.ranges[i].offset) \in Nat /\ AlignDown(lane.ranges[i].offset) <= lane.ranges[i].offset
    BY <2>3, AlignedDown
  <2>5. request.start \in Int
    BY <1>1 DEF Typed
  <2>6. slots[s].start <= request.start
    BY <1>4, <2>2, <2>3, <2>4, <2>5
  <2>7. SlotRight(slots[s], medium)
    BY <1>1 DEF LanesRight, SlotsRight
  <2> QED
    BY <1>5, <2>1, <2>6, <2>7
<1> QED
  BY <1>2, <1>3, <1>4, <1>6 DEF Lane

\* Drop() of the range that a read was served from.
LEMMA ServedDropped ==
  ASSUME IInv, phase = "serve", medium' = medium,
         IF serving.lane = "first" THEN DropFirst({serving.index}) ELSE DropStanding({serving.index})
  PROVE  LanesRight'
<1>1. LanesRight
  BY DEF IInv
<1>2. CASE serving.lane = "first"
  <2>1. {serving.index} \in SUBSET DOMAIN first.ranges
    BY <1>2, ServedFrom
  <2>2. DropFirst({serving.index})
    BY <1>2
  <2> QED
    BY <1>1, <2>1, <2>2, DropFirstRight
<1>3. CASE serving.lane # "first"
  <2>1. {serving.index} \in SUBSET DOMAIN standing.ranges
    BY <1>3, ServedFrom
  <2>2. DropStanding({serving.index})
    BY <1>3
  <2> QED
    BY <1>1, <2>1, <2>2, DropStandingRight
<1> QED
  BY <1>2, <1>3

\* ServeFrom() gives the bytes of the store, or leaves the read to be done.
LEMMA ServeFromRight ==
  ASSUME IInv, ServeFrom
  PROVE  /\ LanesRight'
         /\ \/ andThen' = "sync" /\ UNCHANGED <<request, answer>>
            \/ /\ andThen' = "idle" /\ request' = Disk!NoRequest
               /\ Disk!Readable(medium, request)
               /\ answer' = Disk!Success(medium, request)
<1>1. Typed /\ LanesRight /\ CallRight
  BY DEF IInv
<1>2. phase = "serve" /\ medium' = medium
  BY DEF ServeFrom
<1>3. medium # NoMedium /\ request.len > 0
  BY <1>2, ServedFrom
<1> DEFINE drop == IF serving.lane = "first" THEN DropFirst({serving.index})
                   ELSE DropStanding({serving.index})
<1>4. drop => LanesRight'
  BY <1>2, ServedDropped
<1>5. PICK s : s = Serving.slot
  OBVIOUS
<1>6. CASE s = NoSlot /\ drop /\ ThenStartReads("sync") /\ UNCHANGED readVars
  BY <1>4, <1>6 DEF ThenStartReads, readVars
<1>7. CASE /\ s # NoSlot
           /\ \E got \in IF slots[s].pending THEN Got(Quiet(slots[s]).buf, slots[s].bytes)
                         ELSE {slots[s].got} :
                LET quiet == [Quiet(slots[s]) EXCEPT !.got = got]
                    served == Enough(quiet, got)
                IN  /\ \/ drop
                       \/ /\ slots' = [slots EXCEPT ![s] = quiet]
                          /\ UNCHANGED <<first, standing, reading>>
                    /\ \/ /\ served
                          /\ Returns([ok |-> TRUE, bytes |-> Copied(quiet)])
                          /\ ThenStartReads("idle")
                       \/ /\ ~served
                          /\ ThenStartReads("sync")
                          /\ UNCHANGED readVars
  <2>1. s \in Slots /\ SlotRight(slots[s], medium) /\ slots[s].start <= request.start
    BY <1>2, <1>5, <1>7, ServedFrom
  <2>2. PICK got \in IF slots[s].pending THEN Got(Quiet(slots[s]).buf, slots[s].bytes)
                     ELSE {slots[s].got} :
                LET quiet == [Quiet(slots[s]) EXCEPT !.got = got]
                    served == Enough(quiet, got)
                IN  /\ \/ drop
                       \/ /\ slots' = [slots EXCEPT ![s] = quiet]
                          /\ UNCHANGED <<first, standing, reading>>
                    /\ \/ /\ served
                          /\ Returns([ok |-> TRUE, bytes |-> Copied(quiet)])
                          /\ ThenStartReads("idle")
                       \/ /\ ~served
                          /\ ThenStartReads("sync")
                          /\ UNCHANGED readVars
    BY <1>7
  <2>3. PICK q : q = [Quiet(slots[s]) EXCEPT !.got = got]
    OBVIOUS
  <2>4. /\ SlotRight(q, medium) /\ q.in_use = slots[s].in_use /\ q.start = slots[s].start
        /\ q.os = {} /\ q.pending = FALSE /\ q.got = got
    <3>1. PICK slot : slot = slots[s]
      OBVIOUS
    <3>2. SlotRight(slot, medium) /\ Typed /\ medium # NoMedium
      BY <1>1, <1>3, <2>1, <3>1
    <3>3. Waited(q, slot, got)
      BY <2>3, <3>1, Zenon DEF Waited
    <3>4. SlotRight(q, medium) /\ Settled(q, slot, got)
      BY <3>2, <3>3, QuietRight
    <3> QED
      BY <3>1, <3>4 DEF Settled
  <2>5. /\ \/ drop
           \/ slots' = [slots EXCEPT ![s] = q] /\ UNCHANGED <<first, standing, reading>>
        /\ \/ /\ Enough(q, got)
              /\ Returns([ok |-> TRUE, bytes |-> Copied(q)])
              /\ ThenStartReads("idle")
           \/ ThenStartReads("sync") /\ UNCHANGED readVars
    BY <2>2, <2>3, Zenon
  <2> HIDE DEF drop
  <2>6. LanesRight'
    <3>1. CASE slots' = [slots EXCEPT ![s] = q] /\ UNCHANGED <<first, standing, reading>>
      <4>1. q.os \subseteq slots[s].os
        BY <2>4
      <4> QED
        BY <1>1, <1>2, <2>1, <2>4, <3>1, <4>1, SlotChanges
    <3> QED
      BY <1>4, <2>5, <3>1
  <2>7. CASE Enough(q, got) /\ Returns([ok |-> TRUE, bytes |-> Copied(q)]) /\ ThenStartReads("idle")
    <3>1. /\ Disk!Readable(medium, request)
          /\ [ok |-> TRUE, bytes |-> Copied(q)] = Disk!Success(medium, request)
      BY <1>1, <1>3, <2>1, <2>4, <2>7, CopiedRight
    <3>2. answer' = [ok |-> TRUE, bytes |-> Copied(q)] /\ request' = Disk!NoRequest /\ andThen' = "idle"
      BY <2>7 DEF Returns, ThenStartReads
    <3> QED
      BY <2>6, <3>1, <3>2, Zenon
  <2>8. CASE ThenStartReads("sync") /\ UNCHANGED readVars
    BY <2>6, <2>8 DEF ThenStartReads, readVars
  <2> QED
    BY <2>5, <2>7, <2>8
<1> QED
  BY <1>5, <1>6, <1>7 DEF ServeFrom

LEMMA ServeFromStep ==
  ASSUME IInv, ServeFrom
  PROVE  IInv'
<1>1. Typed /\ CallRight
  BY DEF IInv
<1>2. /\ UNCHANGED <<medium, handle, pattern, in_flight>> /\ phase = "serve"
      /\ serving' = [lane |-> "first", index |-> 1]
  BY DEF ServeFrom
<1>3. phase' = "count"
  BY DEF ServeFrom, ThenStartReads
<1>4. /\ LanesRight' /\ andThen' \in {"idle", "sync"} /\ request' \in {request, Disk!NoRequest}
      /\ andThen' = "sync" => answer' = answer
  BY ServeFromRight
<1>5. answer = NoAnswer
  BY <1>1, <1>2 DEF CallRight
<1>6. Typed'
  <2>1. request' \in [start : Int, len : Nat]
    BY <1>1, <1>4 DEF Typed, Disk!NoRequest
  <2> QED
    BY <1>1, <1>2, <1>3, <1>4, <2>1 DEF Typed, Phases
<1>7. CallRight'
  BY <1>2, <1>3, <1>4, <1>5 DEF CallRight
<1> QED
  BY <1>4, <1>6, <1>7 DEF IInv

LEMMA Inductive ==
  ASSUME IInv, [Next]_vars
  PROVE  IInv'
<1>1. CASE UNCHANGED vars
  <2>1. UNCHANGED <<medium, handle, pattern, first, standing, reading, slots, phase, andThen,
                    in_flight, serving, request, answer>>
    BY <1>1 DEF vars, laneVars, callVars, readVars
  <2>2. LanesRight'
    BY <2>1, LanesKept DEF IInv
  <2>3. Typed'
    BY <2>1 DEF IInv, Typed
  <2>4. CallRight'
    BY <2>1 DEF IInv, CallRight, Lane
  <2> QED
    BY <2>2, <2>3, <2>4 DEF IInv
<1>2. CASE CountStanding \/ FirstStarted
  BY <1>2, CountStandingRight
<1>3. CASE StartFirst
  BY <1>3, StartFirstStep
<1>4. CASE StartStanding
  BY <1>4, StartStandingStep
<1>5. CASE ReadsStarted
  BY <1>5, ReadsStartedStep
<1>6. CASE ServeFrom
  BY <1>6, ServeFromStep
<1>7. CASE SyncRead
  BY <1>7, SyncReadStep
<1>8. CASE \E s \in Slots : Completes(s)
  BY <1>8, CompletesStep
<1>9. CASE Announce
  BY <1>9, AnnounceStep
<1>10. CASE AnnounceStanding
  BY <1>10, AnnounceStandingStep
<1>11. CASE Cancel
  BY <1>11, CancelStep
<1>12. CASE CancelStanding
  BY <1>12, CancelStandingStep
<1>13. CASE SetPattern
  BY <1>13, SetPatternStep
<1>14. CASE CallReadInto
  BY <1>14, CallReadIntoStep
<1>15. CASE Open
  BY <1>15, OpenStep
<1> QED
  BY <1>1, <1>2, <1>3, <1>4, <1>5, <1>6, <1>7, <1>8, <1>9, <1>10, <1>11, <1>12, <1>13, <1>14,
     <1>15 DEF Next, CallStep

\* The inductive invariant holds of every behaviour of the Prefetcher.
THEOREM Invariance == Spec => []IInv
<1>1. Init => IInv
  BY Initially
<1>2. IInv /\ [Next]_vars => IInv'
  BY Inductive
<1> QED
  BY <1>1, <1>2, PTL DEF Spec
----------------------------------------------------------------------------
(* The properties. *)

\* The counts of the queues never wrap below 0, however ranges are announced,
\* started, used up and withdrawn.
THEOREM TypeCorrect == Spec => []TypeOK
<1>1. ASSUME NEW lane, LaneRight(lane) PROVE LaneOK(lane)
  BY <1>1, LaneTyped DEF LaneOK, LaneRight
<1>2. IInv => TypeOK
  <2> SUFFICES ASSUME IInv PROVE TypeOK
    OBVIOUS
  <2>1. LaneOK(first) /\ LaneOK(standing)
    BY <1>1 DEF IInv, LanesRight
  <2>2. reading \in Seq(Slots)
    BY DEF IInv, LanesRight, ReadingRight
  <2>3. \A s \in Slots : slots[s].in_use \in BOOLEAN /\ slots[s].pending \in BOOLEAN
    <3> TAKE s \in Slots
    <3>1. slots[s] \in SlotSet
      BY DEF IInv, LanesRight, SlotsRight, SlotRight
    <3> QED
      BY <3>1, Zenon DEF SlotSet
  <2>4. Typed
    BY DEF IInv
  <2> QED
    BY <2>1, <2>2, <2>3, <2>4 DEF TypeOK, Typed, Phases
<1> QED
  BY <1>2, Invariance, PTL

\* Started ranges are the first of their queue and the counts are theirs; each
\* has a slot of its own, which reads what the range asked for; no slot is in use
\* beside; and StandingInFlight() lists exactly the reads in flight of the lane.
THEOREM LanesStayInAgreement == Spec => []LanesAgree
<1>1. IInv => LanesAgree
  <2> SUFFICES ASSUME IInv PROVE LanesAgree
    OBVIOUS
  <2>1. LanesRight
    BY DEF IInv
  <2>2. LaneRight(first) /\ LaneRight(standing) /\ Shared(first, standing, slots)
    BY <2>1 DEF LanesRight
  <2>3. StartedIsPrefix
    BY <2>2, StartedIs DEF StartedIsPrefix, LaneRight
  <2>4. SlotsBelong
    <3>1. Held(first) \in SUBSET Slots /\ Held(standing) \in SUBSET Slots
      BY <2>2, HeldSlots
    <3>2. Held(first) \cap Held(standing) = {}
      BY <2>2, <3>1 DEF Shared
    <3>3. Cardinality(Held(first)) = first.started
      BY <2>2, HeldCounted
    <3>4. Cardinality(Held(standing)) = standing.started
      BY <2>2, HeldCounted
    <3>5. Held(first) \cup Held(standing) = {s \in Slots : slots[s].in_use}
      BY <2>2, <3>1 DEF Shared
    <3>6. \A lane \in {first, standing} : \A i \in Started(lane) :
            slots[lane.ranges[i].slot].start = AlignDown(lane.ranges[i].offset)
      BY <2>2 DEF Shared, Fits, Started
    <3>7. \A s \in Slots : slots[s].os # {} => slots[s].in_use /\ slots[s].pending
      BY <2>1 DEF LanesRight, SlotsRight, SlotRight
    <3> QED
      BY <3>2, <3>3, <3>4, <3>5, <3>6, <3>7 DEF SlotsBelong, Held
  <2>5. StandingCountAgrees
    BY <2>1, CountAgrees
  <2> QED
    BY <2>3, <2>4, <2>5 DEF LanesAgree
<1> QED
  BY <1>1, Invariance, PTL

\* Whatever the patterns and their caps, the reads in flight are no more than
\* some pattern allows, and the bytes read ahead no more than some pattern's and
\* one range.
THEOREM StaysWithinCaps == Spec => []WithinCaps
<1>1. IInv => WithinCaps
  <2> SUFFICES ASSUME IInv PROVE WithinCaps
    OBVIOUS
  <2>1. ReadsCapped(slots) /\ BytesCapped(first, standing)
    BY DEF IInv, LanesRight
  <2>2. Flying(slots) = {s \in Slots : ~ReadDone(s)}
    BY DEF Flying, ReadDone
  <2> QED
    BY <2>1, <2>2 DEF WithinCaps, ReadsCapped, BytesCapped, LaneCap
<1> QED
  BY <1>1, Invariance, PTL

\* Each step of the Prefetcher is a step of the reader it stands for, or none.
LEMMA StepImplementsDisk ==
  ASSUME IInv, [Next]_vars
  PROVE  [Disk!Next]_(Disk!vars)
<1>1. Typed /\ CallRight
  BY DEF IInv
<1>2. CASE UNCHANGED <<medium, request, answer>>
  BY <1>2 DEF Disk!vars
<1>3. CASE answer' = NoAnswer /\ UNCHANGED <<medium, request>>
  BY <1>3 DEF Disk!Next, Disk!Hint
<1>4. CASE SyncRead
  <2>1. answer = NoAnswer
    BY <1>1, <1>4 DEF SyncRead, CallRight
  <2> QED
    BY <1>4, <2>1 DEF SyncRead, Returns, Disk!Next, Disk!Answer
<1>5. CASE ServeFrom
  <2>1. answer = NoAnswer /\ medium' = medium
    BY <1>1, <1>5 DEF ServeFrom, CallRight
  <2>2. CASE UNCHANGED <<request, answer>>
    BY <1>2, <2>1, <2>2
  <2>3. CASE /\ request' = Disk!NoRequest /\ Disk!Readable(medium, request)
             /\ answer' = Disk!Success(medium, request)
    BY <2>1, <2>3 DEF Disk!Next, Disk!Answer
  <2> QED
    BY <1>5, <2>2, <2>3, ServeFromRight
<1>6. CASE CallReadInto
  <2>1. request' \in Requests /\ answer' = NoAnswer /\ medium' = medium
    BY <1>6 DEF CallReadInto
  <2>2. request' \in [start : Int, len : Nat]
    BY <2>1, PrefetcherAssumption
  <2> QED
    BY <2>1, <2>2 DEF Disk!Next, Disk!Ask
<1>7. CASE Open
  BY <1>7 DEF Open, Disk!Next, Disk!Open
<1>8. CASE \/ CountStanding \/ StartFirst \/ FirstStarted \/ StartStanding \/ ReadsStarted
           \/ (\E s \in Slots : Completes(s)) \/ UNCHANGED vars
  BY <1>2, <1>8 DEF CountStanding, StartFirst, FirstStarted, StartStanding, ReadsStarted,
     Completes, readVars, vars
<1>9. CASE Announce \/ AnnounceStanding \/ Cancel \/ CancelStanding \/ SetPattern
  BY <1>3, <1>9 DEF Announce, AnnounceStanding, Cancel, CancelStanding, SetPattern
<1> QED
  BY <1>4, <1>5, <1>6, <1>7, <1>8, <1>9 DEF Next, CallStep

\* The reader answers with the bytes of the open store, or fails where the store
\* cannot be read, whatever is announced, withdrawn, read ahead and completed.
THEOREM PrefetcherImplementsDisk == Spec => ImplementsDisk
<1>1. Init => Disk!Init
  BY DEF Init, Disk!Init
<1>2. IInv /\ [Next]_vars => [Disk!Next]_(Disk!vars)
  BY StepImplementsDisk
<1> QED
  BY <1>1, <1>2, Invariance, PTL DEF Spec, ImplementsDisk, Disk!Spec
=============================================================================
