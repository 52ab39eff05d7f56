------------------------- MODULE CachedReaderProofs -------------------------
(***************************************************************************)
(* What CachedReader promises, proved for every medium, block size,        *)
(* ceiling, set of requests and finite set of views: the types, what the   *)
(* views and the cache show, the count of the memory they hold, what is    *)
(* asked of the disk, and how a read ends.                                 *)
(*                                                                         *)
(* A cached block is determined by its index: it holds the bytes of the    *)
(* medium at its place, all of them readable. The proof carries this       *)
(* through runs, buffers and views, and keeps beside it an assignment of   *)
(* sizes to the buffers that are alive, whose sum is the tally.            *)
(***************************************************************************)
EXTENDS CachedReader, SelectionProofs
----------------------------------------------------------------------------
(* The invariant. *)

\* Where block i begins.
At(i) == i * BlockBytes

Block(i) == Content(At(i), At(i) + BlockBytes)

\* The bytes [first, last) can be read, if those of unread cannot.
Legible(first, last, unread) ==
  \A a \in first..(last - 1) : a \in 0..(DiskSize - 1) /\ a \notin unread

Sound(i, unread) == Legible(At(i), At(i) + BlockBytes, unread)

\* The cache b, with its order o: whole readable blocks, each with one place.
CacheRight(b, o, unread) ==
  /\ DOMAIN b \subseteq Nat
  /\ b = [i \in DOMAIN b |-> Block(i)]
  /\ \A i \in DOMAIN b : Sound(i, unread)
  /\ o \in Seq(DOMAIN b)
  /\ \A j, k \in DOMAIN o : o[j] = o[k] => j = k
  /\ \A i \in DOMAIN b : \E k \in DOMAIN o : o[k] = i

\* A view is empty, or shows bytes of the medium that its owner keeps.
Shows(w, cached) ==
  /\ w \in [owner : Owner, addr : Nat, bytes : Seq(Nat)]
  /\ w.owner.kind = "block" => w.owner = BlockOwner(w.owner.id) /\ w.owner.id \in cached
  /\ \E n \in Nat \ {0} : w.bytes = Content(w.addr, w.addr + n)

ViewsRight(vs, cached) ==
  /\ vs = [v \in Views |-> vs[v]]
  /\ \A v \in Views : vs[v] = EmptyView \/ Shows(vs[v], cached)

\* View w holds the buffer k.
Keeps(w, k) == w # EmptyView /\ w.owner.kind = "stitched" /\ w.owner.id = k

Alive(vs) == {k \in 1..Cardinality(Views) : \E v \in Views : Keeps(vs[v], k)}

\* size says how large each buffer is.
Sized(vs, size) ==
  /\ size \in [1..Cardinality(Views) -> Nat]
  /\ \A v \in Views : vs[v] # EmptyView /\ vs[v].owner.kind = "stitched" =>
       /\ vs[v].owner.id \in 1..Cardinality(Views)
       /\ vs[v].owner.size = size[vs[v].owner.id]

\* The buffers alive take amount bytes.
Tallied(vs, amount) ==
  \E size : Sized(vs, size) /\ amount = Total(size, Cardinality(Views), Alive(vs))

\* The buffer of the call in progress.
Pending == IF request = None THEN 0 ELSE BufferBytes(request)

\* The bytes the loader read ahead.
RunRight(r, unread) ==
  /\ r \in [first : Nat, count : 0..MaxRunBlocks, bytes : Seq(Nat)]
  /\ r.count > 0 =>
       /\ r.bytes = Content(At(r.first), At(r.first + r.count))
       /\ Legible(At(r.first), At(r.first + r.count), unread)

Asked(r) ==
  /\ r \in Requests
  /\ r.length > 0
  /\ r.addr >= 0
  /\ End(r) <= MaxAddress

\* Between two calls nothing is kept of a call.
AtRest ==
  /\ request = None
  /\ got = None
  /\ cur = 0
  /\ out = <<>>
  /\ run = NoRun
  /\ failed = FALSE
  /\ hinted = {}
  /\ dropped = {}
  /\ disk = <<>>

\* A call has copied the bytes up to cur, all of them readable.
InCall ==
  /\ Asked(request)
  /\ cur \in request.addr..End(request)
  /\ cur = End(request) <=> pc = "stitched"
  /\ ~CrossesBlock(request) => cur = request.addr
  /\ out = Content(request.addr, cur)
  /\ Legible(request.addr, cur, bad)
  /\ RunRight(run, bad)
  /\ failed \in BOOLEAN
  /\ pc = "copy" => got = Index /\ Index \in Cached
  /\ pc # "copy" => got = None

CallRight ==
  /\ pc \in {"idle", "get", "copy", "stitched", "uncached"}
  /\ pc = "idle" => AtRest
  /\ pc # "idle" => InCall

\* Block k lies in the announced range h.
Inside(k, h) == h.first <= At(k) /\ At(k) + BlockBytes <= h.last

\* The announced ranges are whole blocks of the request, with a gap between two.
HintsRight(hs, r) ==
  /\ \A h \in hs : \E i, j \in Nat :
       /\ i < j
       /\ BlockOf(r.addr) <= i
       /\ j <= BlockOf(End(r) - 1) + 1
       /\ h = Span(At(i), At(j))
  /\ \A h, g \in hs : \A k \in Nat : Inside(k, h) /\ Inside(k + 1, g) => h = g

\* A block of the request that is not announced is cached, or was.
Covered(hs, cached, gone, r) ==
  hs # {} => \A k \in BlockOf(r.addr)..BlockOf(End(r) - 1) :
    k \in cached \/ k \in gone \/ \E h \in hs : Inside(k, h)

DiskAnnounced(d, hs, gone) ==
  hs # {} => \A n \in DOMAIN d :
    (\E h \in hs : Within(d[n], h)) \/ \E i \in gone : Meets(d[n], i)

WasRead(d, k) == \E n \in DOMAIN d : Meets(d[n], k)
Few(r) == BlockEnd(End(r)) - r.addr <= MaxChecked * BlockBytes
Passed(k) == pc = "stitched" \/ k < Index

\* An announced block that is there, or was copied, was read from the disk.
AnnouncedRead ==
  Few(request) => \A h \in hinted : \A k \in Nat :
    Inside(k, h) /\ (k \in Cached \/ InRun(k) \/ Passed(k)) => WasRead(disk, k)

\* The disk was read once for each block passed, once for the block at hand and
\* once for a run that failed.
ReadsCounted ==
  Len(disk) <= (IF pc = "stitched" THEN LastIndex ELSE Index) - BlockOf(request.addr)
               + (IF failed THEN 1 ELSE 0)
               + (IF pc = "get" /\ ~InRun(Index) THEN 0 ELSE 1)

PlanRight ==
  /\ disk \in Seq([first : Int, last : Int])
  /\ request # None =>
       /\ HintsRight(hinted, request)
       /\ Covered(hinted, Cached, dropped, request)
       /\ DiskAnnounced(disk, hinted, dropped)
       /\ AnnouncedRead
       /\ ReadsCounted

\* The cache, the views and the memory they hold.
Kept ==
  /\ bad \in BadSets /\ ceiling \in Ceilings
  /\ CacheRight(blocks, order, bad)
  /\ ViewsRight(views, Cached)
  /\ stitched_bytes \in Nat
  /\ Tallied(views, stitched_bytes - Pending)

IInv == Kept /\ CallRight /\ PlanRight
----------------------------------------------------------------------------
(* Addresses and blocks. *)

\* Blocks follow each other.
LEMMA AtNext ==
  ASSUME NEW i \in Nat
  PROVE  At(i) \in Nat /\ At(i + 1) = At(i) + BlockBytes /\ At(0) = 0
<1>1. BlockBytes \in Nat
  BY CacheAssumption
<1> QED
  BY <1>1 DEF At

LEMMA AtSum ==
  ASSUME NEW i \in Nat, NEW j \in Nat
  PROVE  At(i + j) = At(i) + At(j)
<1>1. BlockBytes \in Nat
  BY CacheAssumption
<1> QED
  BY <1>1 DEF At

\* A block ends before a later one begins.
LEMMA AtGrows ==
  ASSUME NEW i \in Nat, NEW j \in Nat, i < j
  PROVE  At(i) + BlockBytes <= At(j)
<1>1. BlockBytes \in Nat
  BY CacheAssumption
<1> DEFINE d == j - i - 1
<1>2. d \in Nat /\ j = (i + 1) + d
  OBVIOUS
<1> HIDE DEF d
<1>3. At(j) = At(i + 1) + At(d)
  BY <1>2, AtSum
<1>4. At(i + 1) = At(i) + BlockBytes /\ At(d) \in Nat /\ At(i) \in Nat
  BY <1>2, AtNext
<1> QED
  BY <1>1, <1>3, <1>4

\* The block of an address.
LEMMA BlockOfRight ==
  ASSUME NEW a \in Nat
  PROVE  /\ BlockOf(a) \in Nat
         /\ At(BlockOf(a)) <= a
         /\ a < At(BlockOf(a)) + BlockBytes
         /\ a % BlockBytes = a - At(BlockOf(a))
<1>1. BlockBytes \in Nat /\ BlockBytes > 0
  BY CacheAssumption
<1>2. a \div BlockBytes \in Nat
  BY <1>1
<1>3. /\ a = BlockBytes * (a \div BlockBytes) + (a % BlockBytes)
      /\ a % BlockBytes \in 0..(BlockBytes - 1)
  BY <1>1
<1>4. BlockBytes * (a \div BlockBytes) = (a \div BlockBytes) * BlockBytes
      /\ (a \div BlockBytes) * BlockBytes \in Nat
  BY <1>1, <1>2
<1> QED
  BY <1>1, <1>2, <1>3, <1>4 DEF BlockOf, At

LEMMA BlockOfUnique ==
  ASSUME NEW a \in Nat, NEW i \in Nat, At(i) <= a, a < At(i) + BlockBytes
  PROVE  BlockOf(a) = i
<1> DEFINE b == BlockOf(a)
<1>1. b \in Nat /\ At(b) <= a /\ a < At(b) + BlockBytes
  BY BlockOfRight
<1>2. BlockBytes \in Nat /\ At(i) \in Nat /\ At(b) \in Nat
  BY CacheAssumption, <1>1, AtNext
<1> HIDE DEF b
<1>3. ~(b < i)
  BY <1>1, <1>2, AtGrows
<1>4. ~(i < b)
  BY <1>1, <1>2, AtGrows
<1>5. b = i
  BY <1>1, <1>3, <1>4
<1> QED
  BY <1>5 DEF b

\* A range ends in the block of its last byte.
LEMMA BlockEndRight ==
  ASSUME NEW e \in Nat, e > 0
  PROVE  BlockEnd(e) = At(BlockOf(e - 1) + 1) /\ BlockOf(e - 1) \in Nat /\ BlockEnd(e) >= e
<1> DEFINE b == BlockOf(e - 1)
           x == e + BlockBytes - 1
<1>1. BlockBytes \in Nat /\ BlockBytes > 0
  BY CacheAssumption
<1>2. e - 1 \in Nat /\ x \in Nat
  BY <1>1
<1>3. b \in Nat /\ At(b) <= e - 1 /\ e - 1 < At(b) + BlockBytes
  BY <1>2, BlockOfRight
<1> HIDE DEF b
<1>4. At(b) \in Nat /\ At(b + 1) = At(b) + BlockBytes
  BY <1>3, AtNext
<1>5. At(b + 1) <= x /\ x < At(b + 1) + BlockBytes /\ b + 1 \in Nat
  BY <1>1, <1>3, <1>4
<1>6. BlockOf(x) = b + 1
  <2> HIDE DEF x
  <2> QED
    BY <1>2, <1>5, BlockOfUnique
<1>7. x % BlockBytes = x - At(b + 1)
  <2> HIDE DEF x
  <2> QED
    BY <1>2, <1>6, BlockOfRight
<1>8. BlockEnd(e) = x - (x % BlockBytes)
  BY DEF BlockEnd
<1>9. BlockEnd(e) = At(b + 1)
  BY <1>2, <1>4, <1>1, <1>7, <1>8
<1> QED
  BY <1>3, <1>4, <1>9, <1>1 DEF b

----------------------------------------------------------------------------
(* Bytes of the medium. *)

LEMMA ContentTyped ==
  ASSUME NEW a \in Nat, NEW b \in Int, a <= b
  PROVE  /\ Content(a, b) \in Seq(Nat)
         /\ Len(Content(a, b)) = b - a
         /\ \A i \in 1..(b - a) : Content(a, b)[i] = a + i - 1
         /\ DOMAIN Content(a, b) = 1..(b - a)
<1>1. Content(a, b) \in [1..(b - a) -> Nat]
  BY DEF Content
<1>2. b - a \in Nat
  OBVIOUS
<1> QED
  BY <1>1, <1>2 DEF Content

LEMMA ContentOf ==
  ASSUME NEW a \in Nat, NEW n \in Nat
  PROVE  Content(a, a + n) \in Seq(Nat)
<1> DEFINE b == a + n
<1>1. b \in Int /\ a <= b
  OBVIOUS
<1> HIDE DEF b
<1>2. Content(a, b) \in Seq(Nat)
  BY <1>1, ContentTyped
<1> QED
  BY <1>2 DEF b

\* The elements of s after place x, up to place y.
Part(s, x, y) == SubSeq(s, x + 1, y)

\* A part of the bytes of a range.
LEMMA ContentPart ==
  ASSUME NEW a \in Nat, NEW b \in Nat, NEW x \in Nat, NEW y \in Nat, x <= y, y <= b - a
  PROVE  Part(Content(a, b), x, y) = Content(a + x, a + y)
<1> DEFINE s == Content(a, b)
           p == SubSeq(s, x + 1, y)
           q == Content(a + x, a + y)
<1>1. s \in Seq(Nat) /\ Len(s) = b - a /\ \A i \in 1..(b - a) : s[i] = a + i - 1
  BY ContentTyped
<1>2. q \in Seq(Nat) /\ Len(q) = y - x /\ \A i \in 1..(y - x) : q[i] = a + x + i - 1
  <2>1. a + x \in Nat /\ a + y \in Int /\ a + x <= a + y /\ (a + y) - (a + x) = y - x
    OBVIOUS
  <2> QED
    BY <2>1, ContentTyped
<1> HIDE DEF s, q
<1>3. p \in Seq(Nat) /\ Len(p) = y - x
  BY <1>1
<1>4. \A i \in 1..(y - x) : p[i] = s[x + i]
  BY <1>1
<1>5. \A i \in 1..(y - x) : p[i] = q[i]
  BY <1>1, <1>2, <1>4
<1> HIDE DEF p
<1>6. p = q
  BY <1>2, <1>3, <1>5
<1> QED
  BY <1>6 DEF p, q, s, Part

LEMMA ContentJoin ==
  ASSUME NEW a \in Nat, NEW b \in Nat, NEW c \in Nat, a <= b, b <= c
  PROVE  Content(a, b) \o Content(b, c) = Content(a, c)
<1> DEFINE s == Content(a, b)
           t == Content(b, c)
           w == Content(a, c)
<1>1. s \in Seq(Nat) /\ Len(s) = b - a /\ \A i \in 1..(b - a) : s[i] = a + i - 1
  BY ContentTyped
<1>2. t \in Seq(Nat) /\ Len(t) = c - b /\ \A i \in 1..(c - b) : t[i] = b + i - 1
  BY ContentTyped
<1>3. w \in Seq(Nat) /\ Len(w) = c - a /\ \A i \in 1..(c - a) : w[i] = a + i - 1
  BY ContentTyped
<1> HIDE DEF s, t, w
<1>4. Joined(s \o t, s, t, Nat)
  BY <1>1, <1>2, ConcatPlaces
<1>5. (s \o t) \in Seq(Nat) /\ Len(s \o t) = Len(w)
  BY <1>1, <1>2, <1>3, <1>4 DEF Joined
<1>6. \A i \in 1..Len(w) : (s \o t)[i] = w[i]
  <2> SUFFICES ASSUME NEW i \in 1..Len(w)
               PROVE  (s \o t)[i] = w[i]
    OBVIOUS
  <2>1. CASE i <= Len(s)
    BY <1>1, <1>3, <1>4, <2>1 DEF Joined
  <2>2. CASE i > Len(s)
    <3>1. i - Len(s) \in 1..Len(t) /\ i = Len(s) + (i - Len(s))
      BY <1>1, <1>2, <1>3, <2>2
    <3>2. (s \o t)[i] = t[i - Len(s)]
      BY <1>1, <1>2, <3>1
    <3> QED
      BY <1>1, <1>2, <1>3, <3>1, <3>2
  <2>3. i <= Len(s) \/ i > Len(s)
    BY <1>1, <1>3
  <2> QED
    BY <2>1, <2>2, <2>3
<1>7. \A j : j \in Seq(Nat) /\ Len(j) = Len(w) /\ (\A i \in 1..Len(w) : j[i] = w[i]) => j = w
  BY <1>3
<1>8. s \o t = w
  BY <1>5, <1>6, <1>7
<1> QED
  BY <1>8 DEF s, t, w

LEMMA ContentNone ==
  ASSUME NEW a \in Nat
  PROVE  Content(a, a) = <<>>
<1>1. Content(a, a) \in Seq(Nat) /\ Len(Content(a, a)) = 0
  BY ContentTyped
<1> QED
  BY <1>1

LEMMA LegibleIsReadable ==
  ASSUME NEW a, NEW b
  PROVE  Readable(a, b) <=> Legible(a, b, bad)
BY DEF Readable, Legible

\* What lies in a readable range is readable.
LEMMA LegiblePart ==
  ASSUME NEW a \in Int, NEW b \in Int, NEW c \in Int, NEW d \in Int, a <= c, d <= b,
         NEW u, Legible(a, b, u)
  PROVE  Legible(c, d, u)
BY DEF Legible

LEMMA LegibleJoin ==
  ASSUME NEW a \in Int, NEW b \in Int, NEW c \in Int, NEW u, Legible(a, b, u), Legible(b, c, u)
  PROVE  Legible(a, c, u)
BY DEF Legible

LEMMA LegibleNone ==
  ASSUME NEW a \in Int, NEW u
  PROVE  Legible(a, a, u)
BY DEF Legible
----------------------------------------------------------------------------
(* The order of the cache. *)

\* r has the elements of T that s has, each once.
Picked(r, s, T) ==
  /\ r \in Seq(T)
  /\ \A j, k \in DOMAIN r : r[j] = r[k] => j = k
  /\ \A k \in DOMAIN s : s[k] \in T => \E j \in DOMAIN r : r[j] = s[k]

\* What is selected from a sequence without repetition.
LEMMA SelectOnce ==
  ASSUME NEW S, NEW s \in Seq(S), NEW T \in SUBSET S, \A j, k \in DOMAIN s : s[j] = s[k] => j = k
  PROVE  Picked(Select(s, T), s, T)
<1> DEFINE r == Select(s, T)
<1>1. r \in Seq(S) /\ \E f : PlacedBy(f, r, s, T, Len(s))
  BY SelectPlaces
<1> HIDE DEF r
<1>2. PICK f : PlacedBy(f, r, s, T, Len(s))
  BY <1>1
<1>3. DOMAIN r = 1..Len(r) /\ DOMAIN s = 1..Len(s) /\ Len(r) \in Nat /\ Len(s) \in Nat
  BY <1>1
<1>4. f \in [1..Len(r) -> 1..Len(s)]
  BY <1>2 DEF PlacedBy
<1>5. \A i, j \in 1..Len(r) : i < j => f[i] < f[j]
  BY <1>2 DEF PlacedBy
<1>6. \A i \in 1..Len(r) : r[i] = s[f[i]] /\ s[f[i]] \in T
  BY <1>2 DEF PlacedBy
<1>7. \A p \in 1..Len(s) : s[p] \in T => \E i \in 1..Len(r) : f[i] = p
  BY <1>2 DEF PlacedBy
<1>8. \A i \in 1..Len(r) : r[i] \in T
  BY <1>1, <1>6
<1>9. r \in Seq(T)
  BY <1>1, <1>8
<1>10. ASSUME NEW i \in 1..Len(r), NEW j \in 1..Len(r), r[i] = r[j]
       PROVE  i = j
  <2>1. f[i] = f[j]
    <3>1. f[i] \in DOMAIN s /\ f[j] \in DOMAIN s
      BY <1>3, <1>4
    <3>2. s[f[i]] = s[f[j]]
      BY <1>6, <1>10
    <3> QED
      BY <3>1, <3>2
  <2>2. f[i] \in Int
    BY <1>3, <1>4
  <2> QED
    BY <1>3, <1>5, <2>1, <2>2
<1>11. \A k \in DOMAIN s : s[k] \in T => \E j \in DOMAIN r : r[j] = s[k]
  BY <1>3, <1>6, <1>7
<1> QED
  BY <1>3, <1>9, <1>10, <1>11 DEF r, Picked

\* Blocks that are dropped leave the others as they were.
LEMMA DropRight ==
  ASSUME CacheRight(blocks, order, bad), NEW gone
  PROVE  /\ DOMAIN Restrict(blocks, Cached \ gone) = Cached \ gone
         /\ CacheRight(Restrict(blocks, Cached \ gone), Select(order, Cached \ gone), bad)
<1> DEFINE left == Cached \ gone
           b == Restrict(blocks, left)
           o == Select(order, left)
<1>1. /\ Cached \subseteq Nat
      /\ blocks = [i \in Cached |-> Block(i)]
      /\ \A i \in Cached : Sound(i, bad)
      /\ order \in Seq(Cached)
      /\ \A j, k \in DOMAIN order : order[j] = order[k] => j = k
      /\ \A i \in Cached : \E k \in DOMAIN order : order[k] = i
  BY DEF CacheRight, Cached
<1>2. left \in SUBSET Cached
  OBVIOUS
<1>3. /\ o \in Seq(left)
      /\ \A j, k \in DOMAIN o : o[j] = o[k] => j = k
      /\ \A k \in DOMAIN order : order[k] \in left => \E j \in DOMAIN o : o[j] = order[k]
  <2>1. Picked(o, order, left)
    BY <1>1, <1>2, SelectOnce
  <2> QED
    BY <2>1 DEF Picked
<1>4. DOMAIN b = left /\ b = [i \in left |-> blocks[i]]
  BY DEF Restrict
<1>5. b = [i \in left |-> Block(i)]
  BY <1>1, <1>2, <1>4
<1> HIDE DEF b, o, left
<1>6. \A i \in left : \E j \in DOMAIN o : o[j] = i
  BY <1>1, <1>2, <1>3
<1>7. CacheRight(b, o, bad)
  BY <1>1, <1>2, <1>3, <1>4, <1>5, <1>6 DEF CacheRight
<1> QED
  BY <1>4, <1>7 DEF b, o, left

LEMMA TouchedRight ==
  ASSUME CacheRight(blocks, order, bad), NEW i \in Cached
  PROVE  CacheRight(blocks, Touched(i), bad)
<1> DEFINE left == Cached \ {i}
           o == Select(order, left)
           a == Append(o, i)
<1>1. /\ order \in Seq(Cached)
      /\ \A j, k \in DOMAIN order : order[j] = order[k] => j = k
      /\ \A c \in Cached : \E k \in DOMAIN order : order[k] = c
  BY DEF CacheRight, Cached
<1>2. left \in SUBSET Cached
  OBVIOUS
<1>3. /\ o \in Seq(left)
      /\ \A j, k \in DOMAIN o : o[j] = o[k] => j = k
      /\ \A k \in DOMAIN order : order[k] \in left => \E j \in DOMAIN o : o[j] = order[k]
  <2>1. Picked(o, order, left)
    BY <1>1, <1>2, SelectOnce
  <2> QED
    BY <2>1 DEF Picked
<1>4. \A c \in left : \E j \in DOMAIN o : o[j] = c
  BY <1>1, <1>2, <1>3
<1>5. \A j \in DOMAIN o : o[j] # i
  BY <1>3
<1> HIDE DEF o
<1>6. o \in Seq(Cached)
  BY <1>2, <1>3
<1>7. /\ a \in Seq(Cached)
      /\ DOMAIN a = DOMAIN o \cup {Len(o) + 1}
      /\ \A k \in DOMAIN o : k \in Nat /\ k < Len(o) + 1 /\ a[k] = o[k]
      /\ a[Len(o) + 1] = i
      /\ Len(o) \in Nat /\ Len(o) + 1 \notin DOMAIN o
  BY <1>6, AppendPlaces
<1> HIDE DEF a
<1>8. \A j, k \in DOMAIN a : a[j] = a[k] => j = k
  BY <1>3, <1>5, <1>7
<1>9. \A c \in Cached : \E k \in DOMAIN a : a[k] = c
  BY <1>4, <1>7
<1>10. CacheRight(blocks, a, bad)
  BY <1>7, <1>8, <1>9 DEF CacheRight, Cached
<1> QED
  BY <1>10 DEF a, o, Touched

\* A readable block that is added whole.
LEMMA InsertRight ==
  ASSUME CacheRight(blocks, order, bad), NEW i \in Nat, i \notin Cached,
         Sound(i, bad), NEW b,
         b = [j \in Cached \cup {i} |-> IF j = i THEN Block(i) ELSE blocks[j]]
  PROVE  DOMAIN b = Cached \cup {i} /\ CacheRight(b, Append(order, i), bad)
<1> DEFINE a == Append(order, i)
           D == Cached \cup {i}
<1>1. /\ Cached \subseteq Nat
      /\ blocks = [c \in Cached |-> Block(c)]
      /\ \A c \in Cached : Sound(c, bad)
      /\ order \in Seq(Cached)
      /\ \A j, k \in DOMAIN order : order[j] = order[k] => j = k
      /\ \A c \in Cached : \E k \in DOMAIN order : order[k] = c
  BY DEF CacheRight, Cached
<1>2. order \in Seq(D) /\ i \in D /\ \A j \in DOMAIN order : order[j] # i
  BY <1>1
<1>3. /\ a \in Seq(D)
      /\ DOMAIN a = DOMAIN order \cup {Len(order) + 1}
      /\ \A k \in DOMAIN order : k \in Nat /\ k < Len(order) + 1 /\ a[k] = order[k]
      /\ a[Len(order) + 1] = i
      /\ Len(order) \in Nat /\ Len(order) + 1 \notin DOMAIN order
  BY <1>2, AppendPlaces
<1> HIDE DEF a
<1>4. \A j, k \in DOMAIN a : a[j] = a[k] => j = k
  BY <1>1, <1>2, <1>3
<1>5. \A c \in D : \E k \in DOMAIN a : a[k] = c
  BY <1>1, <1>3
<1>6. DOMAIN b = D
  OBVIOUS
<1>7. b = [c \in D |-> Block(c)]
  BY <1>1
<1>8. \A c \in D : Sound(c, bad)
  BY <1>1
<1> HIDE DEF D
<1>9. D \subseteq Nat
  BY <1>1 DEF D
<1>10. CacheRight(b, a, bad)
  BY <1>3, <1>4, <1>5, <1>6, <1>7, <1>8, <1>9 DEF CacheRight
<1> QED
  BY <1>6, <1>10 DEF a, D
----------------------------------------------------------------------------
(* Trim() *)

LEMMA MinTwo ==
  ASSUME NEW a \in Int, NEW b \in Int
  PROVE  Min({a, b}) = IF a <= b THEN a ELSE b
<1> DEFINE m == IF a <= b THEN a ELSE b
<1>1. m \in {a, b} /\ \A y \in {a, b} : m <= y
  OBVIOUS
<1>2. \A x \in {a, b} : (\A y \in {a, b} : x <= y) => x = m
  OBVIOUS
<1>3. Min({a, b}) = CHOOSE x \in {a, b} : \A y \in {a, b} : x <= y
  BY DEF Min
<1> HIDE DEF m
<1>4. Min({a, b}) = m
  BY <1>1, <1>2, <1>3
<1> QED
  BY <1>4 DEF m

LEMMA MinCount ==
  ASSUME NEW a \in Nat, NEW b \in Nat
  PROVE  Min({a, b}) \in 0..b /\ (a <= b => Min({a, b}) = a) /\ (a > b => Min({a, b}) = b)
<1>1. Min({a, b}) = IF a <= b THEN a ELSE b
  BY MinTwo
<1> QED
  BY <1>1

LEMMA CachedFinite ==
  ASSUME CacheRight(blocks, order, bad)
  PROVE  IsFiniteSet(Cached) /\ Cardinality(Cached) \in Nat
<1>1. order \in Seq(Cached) /\ \A i \in Cached : \E k \in DOMAIN order : order[k] = i
  BY DEF CacheRight, Cached
<1> DEFINE all == {order[k] : k \in DOMAIN order}
<1>2. IsFiniteSet(all) /\ Cardinality(all) \in 0..Len(order)
  BY <1>1, ElementsCounted
<1>3. all = Cached
  BY <1>1
<1> HIDE DEF all
<1> QED
  BY <1>2, <1>3, FS_CardinalityType

\* The first m elements of a sequence without repetition.
LEMMA FirstCounted ==
  ASSUME NEW S, NEW s \in Seq(S), \A j, k \in DOMAIN s : s[j] = s[k] => j = k, NEW m \in 0..Len(s),
         NEW fst, fst = {s[k] : k \in 1..m}
  PROVE  fst \subseteq S /\ IsFiniteSet(fst) /\ Cardinality(fst) = m
<1> DEFINE f == [k \in 1..m |-> s[k]]
<1>1. Len(s) \in Nat /\ DOMAIN s = 1..Len(s) /\ \A k \in 1..m : k \in DOMAIN s
  OBVIOUS
<1>2. fst \subseteq S
  BY <1>1
<1>3. f \in [1..m -> fst] /\ (\A x, y \in 1..m : f[x] = f[y] => x = y) /\ \A y \in fst : \E x \in 1..m : f[x] = y
  BY <1>1
<1>4. IsFiniteSet(1..m) /\ Cardinality(1..m) = m
  BY <1>1, FS_Interval
<1> HIDE DEF f
<1>5. IsFiniteSet(fst) /\ Cardinality(fst) = m
  BY <1>3, <1>4, SameCount
<1> QED
  BY <1>2, <1>5

\* Blocks in use stay, and the others go until the total is under the ceiling.
TrimRight(gone, vs, held, tally) ==
  /\ gone \subseteq {i \in Cached : ~InUse(i, vs, held)}
  /\ \/ BlockBytes * Cardinality(Cached \ gone) + tally <= ceiling
     \/ \A i \in Cached \ gone : InUse(i, vs, held)

LEMMA TrimmedRight ==
  ASSUME CacheRight(blocks, order, bad), ceiling \in Nat, NEW vs, NEW held, NEW tally \in Nat
  PROVE  TrimRight(Trimmed(vs, held, tally), vs, held, tally)
<1> DEFINE idle == {i \in Cached : ~InUse(i, vs, held)}
           unused == Unused(vs, held)
           C == Cardinality(Cached)
           over == HeldBytes(tally) - ceiling
           count == (over + BlockBytes - 1) \div BlockBytes
           m == Min({count, Len(unused)})
           some == {unused[k] : k \in 1..m}
           gone == Trimmed(vs, held, tally)
<1>1. IsFiniteSet(Cached) /\ C \in Nat /\ BlockBytes \in Nat /\ BlockBytes > 0
  BY CachedFinite, CacheAssumption
<1>2. over = BlockBytes * C + tally - ceiling /\ over \in Int
  <2>1. BlockBytes * C \in Nat
    BY <1>1
  <2> QED
    BY <2>1 DEF HeldBytes
<1>3. gone = IF over <= 0 THEN {} ELSE some
  BY DEF Trimmed
<1>4. Picked(unused, order, idle)
  <2>1. /\ order \in Seq(Cached)
        /\ \A j, k \in DOMAIN order : order[j] = order[k] => j = k
    BY DEF CacheRight, Cached
  <2>2. idle \in SUBSET Cached
    OBVIOUS
  <2>3. unused = Select(order, idle)
    BY DEF Unused
  <2> HIDE DEF idle, unused
  <2> QED
    BY <2>1, <2>2, <2>3, SelectOnce
<1>5. \A i \in Cached : \E k \in DOMAIN order : order[k] = i
  BY DEF CacheRight, Cached
<1>6. /\ unused \in Seq(idle)
      /\ \A j, k \in DOMAIN unused : unused[j] = unused[k] => j = k
      /\ \A i \in idle : \E k \in DOMAIN unused : unused[k] = i
  BY <1>4, <1>5 DEF Picked
<1>7. CASE over <= 0
  <2>1. gone = {} /\ Cached \ gone = Cached
    BY <1>3, <1>7
  <2> HIDE DEF gone, over
  <2>2. BlockBytes * C + tally <= ceiling
    <3>1. BlockBytes * C \in Nat
      BY <1>1
    <3> QED
      BY <1>2, <1>7, <3>1
  <2>3. BlockBytes * Cardinality(Cached \ gone) + tally <= ceiling
    BY <2>1, <2>2
  <2>4. TrimRight(gone, vs, held, tally)
    BY <2>1, <2>3 DEF TrimRight
  <2> QED
    BY <2>4 DEF gone
<1>8. CASE over > 0
  <2>1. gone = some
    BY <1>2, <1>3, <1>8
  <2>2. over \in Nat /\ over + BlockBytes - 1 \in Nat
    BY <1>1, <1>2, <1>8
  <2>3. count \in Nat /\ over <= At(count)
    <3> DEFINE x == over + BlockBytes - 1
    <3>1. count = BlockOf(x)
      BY DEF BlockOf
    <3> HIDE DEF count, over
    <3>2. x \in Nat
      BY <2>2
    <3>3. BlockOf(x) \in Nat /\ x < At(BlockOf(x)) + BlockBytes /\ At(BlockOf(x)) \in Nat
      <4> HIDE DEF x
      <4> QED
        BY <3>2, BlockOfRight, AtNext
    <3> QED
      BY <1>1, <2>2, <3>1, <3>3
  <2>4. Len(unused) \in Nat /\ DOMAIN unused = 1..Len(unused)
    <3> HIDE DEF unused
    <3> QED
      BY <1>6
  <2>5. count <= Len(unused) => m = count
    <3> HIDE DEF count, unused
    <3> QED
      BY <2>3, <2>4, MinCount
  <2>6. m \in 0..Len(unused) /\ (count > Len(unused) => m = Len(unused))
    <3> HIDE DEF count, unused
    <3> QED
      BY <2>3, <2>4, MinCount
  <2> HIDE DEF count, unused, over, m
  <2>7. some \subseteq idle /\ IsFiniteSet(some) /\ Cardinality(some) = m
    <3>1. some = {unused[k] : k \in 1..m}
      OBVIOUS
    <3> HIDE DEF idle, some
    <3>2. /\ unused \in Seq(idle)
          /\ \A j, k \in DOMAIN unused : unused[j] = unused[k] => j = k
          /\ m \in 0..Len(unused)
      BY <1>6, <2>6
    <3> QED
      BY <3>1, <3>2, FirstCounted
  <2>8. CASE count <= Len(unused)
    <3>1. Cardinality(Cached \ some) = C - m /\ m <= C
      <4>1. some \subseteq Cached
        BY <2>7
      <4> HIDE DEF some
      <4>2. Cardinality(Cached \ some) = C - Cardinality(Cached \cap some) /\ Cached \cap some = some
        BY <1>1, <4>1, FS_Difference
      <4>3. Cardinality(some) <= C
        BY <1>1, <4>1, FS_Subset
      <4> QED
        BY <2>7, <4>2, <4>3
    <3>2. m = count
      BY <2>5, <2>8
    <3> DEFINE d == C - m
    <3>3. d \in Nat /\ C = d + m /\ m \in Nat
      BY <1>1, <2>3, <3>1, <3>2
    <3> HIDE DEF d, C
    <3>4. At(C) = At(d) + At(m) /\ At(d) \in Nat /\ At(m) \in Nat
      BY <3>3, AtSum, AtNext
    <3>5. BlockBytes * C = At(C) /\ BlockBytes * d = At(d)
      BY <1>1, <3>3 DEF At
    <3>6. BlockBytes * d + tally <= ceiling
      BY <1>2, <2>3, <3>2, <3>4, <3>5
    <3>7. BlockBytes * Cardinality(Cached \ gone) + tally <= ceiling
      BY <2>1, <3>1, <3>6 DEF d
    <3> HIDE DEF gone
    <3>8. TrimRight(gone, vs, held, tally)
      BY <2>1, <2>7, <3>7 DEF TrimRight
    <3> QED
      BY <3>8 DEF gone
  <2>9. CASE count > Len(unused)
    <3>1. m = Len(unused)
      BY <2>6, <2>9
    <3>2. some = idle
      BY <1>6, <2>4, <2>7, <3>1
    <3> HIDE DEF gone
    <3>3. TrimRight(gone, vs, held, tally)
      BY <2>1, <3>2 DEF TrimRight
    <3> QED
      BY <3>3 DEF gone
  <2>10. count <= Len(unused) \/ count > Len(unused)
    BY <2>3, <2>4
  <2> QED
    BY <2>8, <2>9, <2>10
<1> QED
  BY <1>2, <1>7, <1>8
----------------------------------------------------------------------------
(* Buffers and their count. *)

LEMMA MinRight ==
  ASSUME NEW T \in SUBSET Nat, T # {}
  PROVE  Min(T) \in T
<1>1. \E x \in T : \A y \in T : x <= y
  BY LeastNatural
<1> QED
  BY <1>1 DEF Min

LEMMA MaxRight ==
  ASSUME NEW n \in Nat, NEW T \in SUBSET (0..n), T # {}
  PROVE  Max(T) \in T /\ \A y \in T : y <= Max(T)
<1> DEFINE U == {n - t : t \in T}
<1>1. U \subseteq Nat /\ U # {}
  <2>1. PICK t \in T : TRUE
    OBVIOUS
  <2>2. \A x \in T : n - x \in Nat
    OBVIOUS
  <2>3. n - t \in U
    BY <2>1
  <2> QED
    BY <2>2, <2>3
<1> HIDE DEF U
<1>2. PICK u \in U : \A w \in U : u <= w
  BY <1>1, LeastNatural
<1>3. PICK x \in T : u = n - x
  BY DEF U
<1>4. ASSUME NEW y \in T
      PROVE  x >= y
  <2>1. n - y \in U
    BY DEF U
  <2> QED
    BY <1>2, <1>3, <2>1
<1>5. \E z \in T : \A y \in T : z >= y
  BY <1>4
<1>6. Max(T) = CHOOSE z \in T : \A y \in T : z >= y
  BY DEF Max
<1>7. Max(T) \in T /\ \A y \in T : Max(T) >= y
  BY <1>5, <1>6
<1> QED
  BY <1>7

\* Sums over the same places of the same numbers.
LEMMA TotalAlike ==
  ASSUME NEW n \in Nat, NEW f, NEW g, NEW T, NEW U, \A i \in 1..n : f[i] \in Nat,
         \A i \in 1..n : (i \in T <=> i \in U) /\ (i \in T => f[i] = g[i])
  PROVE  Total(g, n, U) = Total(f, n, T)
<1> DEFINE h == [i \in 1..n |-> i]
<1>1. Drawn(g, U, n, h, f, T, n)
  BY DEF Drawn
<1> HIDE DEF h
<1> QED
  BY <1>1, TotalDrawn

LEMMA TotalOne ==
  ASSUME NEW n \in Nat, NEW k \in 1..n, NEW f, \A i \in 1..n : f[i] \in Nat
  PROVE  Total(f, n, {k}) = f[k]
<1> DEFINE Right(j) == Total(f, j, {k}) = IF j < k THEN 0 ELSE f[k]
           Wrong == {j \in 0..n : ~Right(j)}
<1>1. ASSUME Wrong # {}
      PROVE  FALSE
  <2>1. Wrong \subseteq Nat
    OBVIOUS
  <2> HIDE DEF Wrong
  <2>2. PICK j \in Wrong : \A i \in Wrong : j <= i
    BY <1>1, <2>1, LeastNatural
  <2>3. j \in 0..n /\ ~Right(j)
    BY <2>2 DEF Wrong
  <2>4. j # 0
    <3>1. Right(0)
      BY TotalNone
    <3> QED
      BY <2>3, <3>1
  <2>5. Right(j - 1)
    <3>1. j - 1 \in 0..n /\ ~(j <= j - 1)
      BY <2>3, <2>4
    <3> HIDE DEF Right
    <3> QED
      BY <2>2, <3>1 DEF Wrong
  <2>6. Total(f, j, {k}) = Total(f, j - 1, {k}) + (IF j \in {k} THEN f[j] ELSE 0)
    BY <2>3, <2>4, TotalNext
  <2>7. f[k] \in Nat
    OBVIOUS
  <2> QED
    BY <2>3, <2>4, <2>5, <2>6, <2>7
<1>2. Right(n)
  <2> HIDE DEF Right
  <2> QED
    BY <1>1
<1> QED
  BY <1>2

LEMMA ViewsCounted == Cardinality(Views) \in Nat
BY CacheAssumption, FS_CardinalityType

\* A view with bytes is not empty.
LEMMA ShowsSomething ==
  ASSUME NEW w, NEW cached, Shows(w, cached)
  PROVE  w # EmptyView /\ w.owner # None /\ w.owner \in Owner
<1>1. w.owner \in Owner
  BY DEF Shows
<1>2. None \notin Owner
  BY CacheAssumption
<1> QED
  BY <1>1, <1>2 DEF EmptyView

\* A buffer that no view holds has an identity left, while a view is empty.
LEMMA IdentityLeft ==
  ASSUME NEW v \in Views, views[v] = EmptyView
  PROVE  (1..Cardinality(Views)) \ Alive(views) # {}
<1> SUFFICES ASSUME (1..Cardinality(Views)) \ Alive(views) = {}
             PROVE  FALSE
  OBVIOUS
<1> DEFINE N == Cardinality(Views)
           others == Views \ {v}
           holder == [k \in 1..N |-> CHOOSE w \in Views : Keeps(views[w], k)]
<1>1. N \in Nat /\ IsFiniteSet(Views)
  BY ViewsCounted, CacheAssumption
<1>2. IsFiniteSet(others) /\ Cardinality(others) = N - 1
  BY <1>1, FS_RemoveElement
<1>3. IsFiniteSet(1..N) /\ Cardinality(1..N) = N
  BY <1>1, FS_Interval
<1>4. \A k \in 1..N : \E w \in Views : Keeps(views[w], k)
  BY DEF Alive
<1>5. \A k \in 1..N : holder[k] \in Views /\ Keeps(views[holder[k]], k)
  BY <1>4
<1> HIDE DEF holder
<1>6. \A k \in 1..N : holder[k] \in others
  BY <1>5 DEF Keeps
<1>7. holder \in [1..N -> others]
  BY <1>6 DEF holder
<1> HIDE DEF N, others
<1>8. PICK x \in 1..N, y \in 1..N : x # y /\ holder[x] = holder[y]
  BY <1>1, <1>2, <1>3, <1>7, FS_PigeonHole
<1> QED
  BY <1>5, <1>8 DEF Keeps

\* The identities of the buffers the views hold.
LEMMA IdsAlive ==
  ASSUME ViewsRight(views, Cached), NEW amount, Tallied(views, amount)
  PROVE  BufferIds = Alive(views)
<1>1. PICK size : Sized(views, size)
  BY DEF Tallied
<1>2. \A v \in Views : views[v] = EmptyView \/ (views[v] # EmptyView /\ views[v].owner # None)
  BY ShowsSomething DEF ViewsRight
<1>3. EmptyView.owner = None
  BY DEF EmptyView
<1>4. ASSUME NEW k \in BufferIds
      PROVE  k \in Alive(views)
  <2>1. PICK v \in Views : views[v].owner # None /\ views[v].owner.kind = "stitched" /\ views[v].owner.id = k
    BY DEF BufferIds, Buffers, Owners
  <2>2. views[v] # EmptyView
    BY <1>3, <2>1
  <2> QED
    BY <1>1, <2>1, <2>2 DEF Alive, Keeps, Sized
<1>5. ASSUME NEW k \in Alive(views)
      PROVE  k \in BufferIds
  <2>1. PICK v \in Views : Keeps(views[v], k)
    BY DEF Alive
  <2>2. views[v].owner # None /\ views[v].owner.kind = "stitched" /\ views[v].owner.id = k
    BY <1>2, <2>1 DEF Keeps
  <2>3. views[v].owner \in Buffers
    BY <2>2 DEF Buffers, Owners
  <2> QED
    BY <2>2, <2>3 DEF BufferIds
<1> QED
  BY <1>4, <1>5

LEMMA NewIsNew ==
  ASSUME ViewsRight(views, Cached), NEW amount, Tallied(views, amount),
         NEW v \in Views, views[v] = EmptyView, NEW size \in Nat
  PROVE  /\ NewStitched(size) \in Owner
         /\ NewStitched(size).kind = "stitched"
         /\ NewStitched(size).size = size
         /\ NewStitched(size).id \in (1..Cardinality(Views)) \ Alive(views)
<1> DEFINE left == (1..Cardinality(Views)) \ Alive(views)
<1>1. left \subseteq Nat /\ left # {}
  BY IdentityLeft, ViewsCounted
<1>2. left = (1..Cardinality(Views)) \ BufferIds
  BY IdsAlive
<1> HIDE DEF left
<1>3. Min(left) \in left /\ Min(left) \in Nat
  BY <1>1, MinRight
<1>4. NewStitched(size) = [kind |-> "stitched", id |-> Min(left), size |-> size]
  BY <1>2 DEF NewStitched
<1> QED
  BY <1>3, <1>4 DEF Owner, left

\* vs is views with w in place of v's.
Replaced(vs, v, w) == \A u \in Views : vs[u] = IF u = v THEN w ELSE views[u]

\* A view that holds no buffer of its own is given, or one more view of a buffer.
LEMMA SameBuffers ==
  ASSUME NEW amount, Tallied(views, amount), NEW v \in Views, views[v] = EmptyView, NEW w,
         \/ w.owner.kind = "block"
         \/ \E u \in Views : views[u] = w,
         NEW vs, Replaced(vs, v, w)
  PROVE  Tallied(vs, amount)
<1>1. PICK size : Sized(views, size) /\ amount = Total(size, Cardinality(Views), Alive(views))
  BY DEF Tallied
<1>2. Sized(vs, size)
  <2>1. size \in [1..Cardinality(Views) -> Nat]
    BY <1>1 DEF Sized
  <2>2. ASSUME NEW u \in Views, vs[u] # EmptyView, vs[u].owner.kind = "stitched"
        PROVE  vs[u].owner.id \in 1..Cardinality(Views) /\ vs[u].owner.size = size[vs[u].owner.id]
    <3>1. \E x \in Views : views[x] = vs[u]
      BY <2>2 DEF Replaced
    <3> QED
      BY <1>1, <2>2, <3>1 DEF Sized
  <2> QED
    BY <2>1, <2>2 DEF Sized
<1>3. ASSUME NEW k
      PROVE  (\E u \in Views : Keeps(vs[u], k)) <=> (\E u \in Views : Keeps(views[u], k))
  <2>1. ASSUME NEW u \in Views, Keeps(vs[u], k)
        PROVE  \E x \in Views : Keeps(views[x], k)
    <3>1. \E x \in Views : views[x] = vs[u]
      BY <2>1 DEF Replaced, Keeps
    <3> QED
      BY <2>1, <3>1
  <2>2. ASSUME NEW u \in Views, Keeps(views[u], k)
        PROVE  Keeps(vs[u], k)
    <3>1. u # v
      BY <2>2 DEF Keeps
    <3> QED
      BY <2>2, <3>1 DEF Replaced
  <2> QED
    BY <2>1, <2>2
<1>4. Alive(vs) = Alive(views)
  BY <1>3 DEF Alive
<1> QED
  BY <1>1, <1>2, <1>4 DEF Tallied

\* A view of a new buffer is given.
LEMMA OneBufferMore ==
  ASSUME NEW amount, Tallied(views, amount), NEW v \in Views, views[v] = EmptyView, NEW w,
         w # EmptyView, w.owner.kind = "stitched",
         w.owner.id \in (1..Cardinality(Views)) \ Alive(views), w.owner.size \in Nat,
         NEW vs, Replaced(vs, v, w)
  PROVE  Tallied(vs, amount + w.owner.size)
<1> DEFINE N == Cardinality(Views)
           n == w.owner.id
           old == Alive(views)
<1>1. PICK size : Sized(views, size) /\ amount = Total(size, N, old)
  BY DEF Tallied
<1> DEFINE grown == [size EXCEPT ![n] = w.owner.size]
<1>2. N \in Nat /\ n \in 1..N /\ n \notin old /\ old \subseteq 1..N
  BY ViewsCounted DEF Alive
<1>3. size \in [1..N -> Nat] /\ grown \in [1..N -> Nat] /\ grown[n] = w.owner.size
      /\ \A i \in 1..N : i # n => grown[i] = size[i]
  BY <1>1, <1>2 DEF Sized
<1>4. \A u \in Views, k \in 1..N : Keeps(views[u], k) => k \in old
  BY DEF Alive
<1>5. Sized(vs, grown)
  <2>1. ASSUME NEW u \in Views, vs[u] # EmptyView, vs[u].owner.kind = "stitched"
        PROVE  vs[u].owner.id \in 1..N /\ vs[u].owner.size = grown[vs[u].owner.id]
    <3>1. CASE u = v
      BY <1>2, <1>3, <3>1 DEF Replaced
    <3>2. CASE u # v
      <4>1. vs[u] = views[u]
        BY <3>2 DEF Replaced
      <4>2. views[u].owner.id \in 1..N /\ views[u].owner.size = size[views[u].owner.id]
        BY <1>1, <2>1, <4>1 DEF Sized
      <4>3. Keeps(views[u], views[u].owner.id)
        BY <2>1, <4>1 DEF Keeps
      <4>4. views[u].owner.id # n
        BY <1>2, <1>4, <4>2, <4>3
      <4> QED
        BY <1>3, <4>1, <4>2, <4>4
    <3> QED
      BY <3>1, <3>2
  <2> HIDE DEF grown
  <2> QED
    BY <1>3, <2>1 DEF Sized
<1>6. ASSUME NEW k \in 1..N
      PROVE  (\E u \in Views : Keeps(vs[u], k)) <=> (k = n \/ \E u \in Views : Keeps(views[u], k))
  <2>1. ASSUME NEW u \in Views, Keeps(vs[u], k)
        PROVE  k = n \/ \E x \in Views : Keeps(views[x], k)
    BY <2>1 DEF Replaced, Keeps
  <2>2. ASSUME NEW u \in Views, Keeps(views[u], k)
        PROVE  Keeps(vs[u], k)
    <3>1. u # v
      BY <2>2 DEF Keeps
    <3> QED
      BY <2>2, <3>1 DEF Replaced
  <2>3. Keeps(vs[v], n)
    BY DEF Keeps, Replaced
  <2> QED
    BY <2>1, <2>2, <2>3
<1>7. Alive(vs) = old \cup {n}
  BY <1>2, <1>6 DEF Alive
<1> HIDE DEF grown, old, N
<1>8. Total(grown, N, old \cup {n}) = Total(grown, N, old) + Total(grown, N, {n})
  <2>1. old \cap {n} = {} /\ \A i \in 1..N : grown[i] \in Nat
    BY <1>2, <1>3
  <2> QED
    BY <1>2, <2>1, TotalSplits
<1>9. Total(grown, N, {n}) = w.owner.size
  <2>1. \A i \in 1..N : grown[i] \in Nat
    BY <1>3
  <2> QED
    BY <1>2, <1>3, <2>1, TotalOne
<1>10. Total(grown, N, old) = Total(size, N, old)
  <2>1. \A i \in 1..N : size[i] \in Nat
    BY <1>3
  <2>2. \A i \in 1..N : (i \in old <=> i \in old) /\ (i \in old => size[i] = grown[i])
    BY <1>2, <1>3
  <2> QED
    BY <1>2, <2>1, <2>2, TotalAlike
<1>11. amount + w.owner.size = Total(grown, N, Alive(vs))
  BY <1>1, <1>7, <1>8, <1>9, <1>10
<1> QED
  BY <1>5, <1>11 DEF Tallied, N

\* What goes with the view v: the buffer, when no other view holds it.
LEMMA OneViewLess ==
  ASSUME NEW amount, Tallied(views, amount), ViewsRight(views, Cached), NEW v \in Views, views[v] # EmptyView,
         NEW vs, Replaced(vs, v, EmptyView), NEW freed,
         freed = IF \E w \in Views : vs[w].owner = views[v].owner THEN 0 ELSE views[v].owner.size
  PROVE  freed \in Nat /\ amount \in Nat /\ freed <= amount /\ Tallied(vs, amount - freed)
<1> DEFINE N == Cardinality(Views)
           n == views[v].owner.id
           old == Alive(views)
<1>1. PICK size : Sized(views, size) /\ amount = Total(size, N, old)
  BY DEF Tallied
<1>2. N \in Nat /\ old \subseteq 1..N
  BY ViewsCounted DEF Alive
<1>3. size \in [1..N -> Nat] /\ \A i \in 1..N : size[i] \in Nat
  BY <1>1 DEF Sized
<1>4. \A u \in Views : views[u] = EmptyView \/ (views[u].owner \in Owner /\ views[u].owner # None)
  BY ShowsSomething DEF ViewsRight
<1>5. views[v].owner \in Owner /\ views[v].owner # None
  BY <1>4
<1>6. EmptyView.owner = None
  BY DEF EmptyView
<1>7. Sized(vs, size)
  BY <1>1 DEF Sized, Replaced
<1>8. amount \in Nat
  BY <1>1, <1>2, <1>3, TotalTyped
<1>9. \A u \in Views, k \in 1..N : Keeps(vs[u], k) => Keeps(views[u], k)
  BY DEF Replaced, Keeps
<1>10. CASE views[v].owner.kind = "stitched"
  <2>1. n \in 1..N /\ views[v].owner.size = size[n] /\ Keeps(views[v], n) /\ n \in old
    BY <1>1, <1>10 DEF Sized, Keeps, Alive
  <2>2. \A u \in Views : Keeps(vs[u], n) => vs[u].owner = views[v].owner
    <3> SUFFICES ASSUME NEW u \in Views, Keeps(vs[u], n)
                 PROVE  vs[u].owner = views[v].owner
      OBVIOUS
    <3>1. vs[u] = views[u] /\ views[u] # EmptyView /\ views[u].owner.kind = "stitched" /\ views[u].owner.id = n
      BY DEF Replaced, Keeps
    <3>2. views[u].owner.size = size[n] /\ views[u].owner \in Owner
      BY <1>1, <1>4, <3>1 DEF Sized
    <3> QED
      BY <1>5, <1>10, <2>1, <3>1, <3>2 DEF Owner
  <2>3. \A u \in Views : vs[u].owner = views[v].owner => Keeps(vs[u], n)
    BY <1>5, <1>6, <1>10 DEF Keeps
  <2>4. ASSUME NEW k \in 1..N, k # n
        PROVE  (\E u \in Views : Keeps(vs[u], k)) <=> (\E u \in Views : Keeps(views[u], k))
    <3>1. ASSUME NEW u \in Views, Keeps(views[u], k)
          PROVE  Keeps(vs[u], k)
      <4>1. u # v
        BY <2>4, <3>1 DEF Keeps
      <4> QED
        BY <3>1, <4>1 DEF Replaced
    <3> QED
      BY <1>9, <3>1
  <2>5. CASE \E u \in Views : vs[u].owner = views[v].owner
    <3>1. freed = 0
      BY <2>5
    <3>2. n \in Alive(vs)
      BY <2>1, <2>3, <2>5 DEF Alive
    <3>3. Alive(vs) = old
      BY <2>1, <2>4, <3>2 DEF Alive
    <3>4. amount - freed = amount
      BY <1>8, <3>1
    <3>5. Tallied(vs, amount - freed)
      BY <1>1, <1>7, <3>3, <3>4 DEF Tallied
    <3> QED
      BY <1>8, <3>1, <3>5
  <2>6. CASE ~\E u \in Views : vs[u].owner = views[v].owner
    <3>1. freed = size[n]
      BY <2>1, <2>6
    <3>2. n \notin Alive(vs)
      BY <2>2, <2>6 DEF Alive
    <3>3. Alive(vs) = old \ {n}
      BY <2>1, <2>4, <3>2 DEF Alive
    <3> DEFINE rest == old \ {n}
    <3>4. Total(size, N, old) = Total(size, N, rest) + Total(size, N, {n})
      <4>1. rest \cup {n} = old /\ rest \cap {n} = {}
        BY <2>1
      <4> HIDE DEF rest, old, N
      <4> QED
        BY <1>2, <1>3, <4>1, TotalSplits
    <3>5. Total(size, N, {n}) = size[n]
      <4> HIDE DEF N, n
      <4> QED
        BY <1>2, <1>3, <2>1, TotalOne
    <3>6. Total(size, N, rest) \in Nat /\ size[n] \in Nat
      <4> HIDE DEF N, n, rest
      <4> QED
        BY <1>2, <1>3, <2>1, TotalTyped
    <3>7. freed \in Nat /\ freed <= amount /\ amount - freed = Total(size, N, rest)
      <4> HIDE DEF N, n, rest, old
      <4> QED
        BY <1>1, <3>1, <3>4, <3>5, <3>6
    <3>8. Tallied(vs, amount - freed)
      <4> HIDE DEF n, old
      <4> QED
        BY <1>7, <3>3, <3>7 DEF Tallied
    <3> QED
      BY <1>8, <3>7, <3>8
  <2> QED
    BY <2>5, <2>6
<1>11. CASE views[v].owner.kind # "stitched"
  <2>1. freed = 0
    <3>1. views[v].owner.kind = "block"
      BY <1>5, <1>11 DEF Owner
    <3>2. Shows(views[v], Cached)
      BY DEF ViewsRight
    <3>3. views[v].owner = BlockOwner(views[v].owner.id)
      BY <3>1, <3>2 DEF Shows
    <3>4. views[v].owner.size = 0
      BY <3>3 DEF BlockOwner
    <3> QED
      BY <3>4
  <2>2. ASSUME NEW u \in Views, NEW k \in 1..N
        PROVE  Keeps(vs[u], k) <=> Keeps(views[u], k)
    BY <1>11 DEF Keeps, Replaced
  <2>3. Alive(vs) = old
    BY <2>2 DEF Alive
  <2>4. Tallied(vs, amount)
    BY <1>1, <1>7, <2>3 DEF Tallied
  <2>5. amount - freed = amount
    BY <1>8, <2>1
  <2> QED
    BY <1>8, <2>1, <2>4, <2>5
<1> QED
  BY <1>10, <1>11
----------------------------------------------------------------------------
(* Views. *)

\* A view of the cache still shows its block when others come.
LEMMA ViewsKept ==
  ASSUME NEW vs, NEW cached, ViewsRight(vs, cached), NEW more,
         \A v \in Views : vs[v] # EmptyView /\ vs[v].owner.kind = "block" => vs[v].owner.id \in more
  PROVE  ViewsRight(vs, more)
<1> SUFFICES ASSUME NEW v \in Views, vs[v] # EmptyView
             PROVE  Shows(vs[v], more)
  BY DEF ViewsRight
<1>1. Shows(vs[v], cached)
  BY DEF ViewsRight
<1> QED
  BY <1>1 DEF Shows

LEMMA ViewsGrow ==
  ASSUME NEW vs, NEW cached, ViewsRight(vs, cached), NEW more, cached \subseteq more
  PROVE  ViewsRight(vs, more)
<1>1. \A v \in Views : vs[v] # EmptyView /\ vs[v].owner.kind = "block" => vs[v].owner.id \in more
  BY DEF ViewsRight, Shows
<1> QED
  BY <1>1, ViewsKept

\* What no view holds may go.
LEMMA ViewsTrimmed ==
  ASSUME NEW vs, NEW cached, ViewsRight(vs, cached), NEW gone, NEW held,
         \A i \in gone : ~InUse(i, vs, held)
  PROVE  ViewsRight(vs, cached \ gone)
<1>1. ASSUME NEW v \in Views, vs[v] # EmptyView, vs[v].owner.kind = "block"
      PROVE  vs[v].owner.id \in cached \ gone
  <2>1. vs[v].owner = BlockOwner(vs[v].owner.id) /\ vs[v].owner.id \in cached
    BY <1>1 DEF ViewsRight, Shows
  <2> QED
    BY <2>1 DEF InUse
<1> QED
  BY <1>1, ViewsKept

LEMMA GivenRight ==
  ASSUME NEW cached, ViewsRight(views, cached), NEW v \in Views, NEW w,
         w = EmptyView \/ Shows(w, cached), NEW vs, vs = [views EXCEPT ![v] = w]
  PROVE  ViewsRight(vs, cached) /\ Replaced(vs, v, w)
<1>1. views = [u \in Views |-> views[u]] /\ \A u \in Views : views[u] = EmptyView \/ Shows(views[u], cached)
  BY DEF ViewsRight
<1>2. DOMAIN views = Views
  BY <1>1
<1>3. vs = [u \in Views |-> IF u = v THEN w ELSE views[u]]
  BY <1>2
<1>4. \A u \in Views : vs[u] = IF u = v THEN w ELSE views[u]
  BY <1>3
<1>5. vs = [u \in Views |-> vs[u]]
  BY <1>3
<1> QED
  BY <1>1, <1>4, <1>5 DEF ViewsRight, Replaced

----------------------------------------------------------------------------
(* Where a call is. *)

LEMMA BlockOfGrows ==
  ASSUME NEW a \in Nat, NEW b \in Nat, a <= b
  PROVE  BlockOf(a) <= BlockOf(b)
<1>1. BlockOf(a) \in Nat /\ At(BlockOf(a)) <= a /\ At(BlockOf(a)) \in Nat
  BY BlockOfRight, AtNext
<1>2. BlockOf(b) \in Nat /\ b < At(BlockOf(b)) + BlockBytes /\ At(BlockOf(b)) \in Nat
  BY BlockOfRight, AtNext
<1>3. BlockBytes \in Nat
  BY CacheAssumption
<1>4. ~(BlockOf(b) < BlockOf(a))
  BY <1>1, <1>2, <1>3, AtGrows
<1> QED
  BY <1>1, <1>2, <1>4

LEMMA AskedRight ==
  ASSUME NEW r, Asked(r)
  PROVE  /\ r.addr \in Nat /\ r.length \in Nat \ {0} /\ r # None
         /\ End(r) = r.addr + r.length
         /\ End(r) - 1 \in Nat
         /\ BlockOf(r.addr) \in Nat /\ BlockOf(End(r) - 1) \in Nat
         /\ BlockOf(r.addr) <= BlockOf(End(r) - 1)
         /\ BufferBytes(r) \in Nat
<1>1. r \in [addr : Int, length : Nat] /\ r # None
  BY CacheAssumption DEF Asked
<1>2. r.addr \in Nat /\ r.length \in Nat \ {0} /\ End(r) = r.addr + r.length
  BY <1>1 DEF Asked, End
<1>3. End(r) - 1 \in Nat /\ r.addr <= End(r) - 1
  BY <1>2
<1> DEFINE e == End(r) - 1
<1>4. e \in Nat /\ r.addr <= e
  BY <1>3
<1> HIDE DEF e
<1>5. BlockOf(r.addr) \in Nat /\ BlockOf(e) \in Nat /\ BlockOf(r.addr) <= BlockOf(e)
  BY <1>2, <1>4, BlockOfRight, BlockOfGrows
<1>6. BufferBytes(r) \in Nat
  BY <1>2 DEF BufferBytes
<1> QED
  BY <1>1, <1>2, <1>3, <1>5, <1>6 DEF e

\* Where a call that has bytes to copy is.
LEMMA CallPlace ==
  ASSUME InCall, pc # "stitched"
  PROVE  /\ cur \in Nat /\ cur < End(request) /\ request.addr <= cur
         /\ Index \in Nat /\ At(Index) \in Nat
         /\ At(Index) <= cur /\ cur < At(Index) + BlockBytes
         /\ cur % BlockBytes = cur - At(Index)
         /\ BlockOf(request.addr) <= Index /\ Index <= LastIndex
         /\ LastIndex \in Nat
         /\ BlockBytes \in Nat
<1>1. request.addr \in Nat /\ End(request) \in Nat /\ End(request) - 1 \in Nat
      /\ BlockOf(End(request) - 1) \in Nat
  <2>1. Asked(request)
    BY DEF InCall
  <2> QED
    BY <2>1, AskedRight
<1>2. cur \in request.addr..End(request) /\ cur # End(request)
  BY DEF InCall
<1>3. cur \in Nat /\ cur < End(request) /\ request.addr <= cur /\ cur <= End(request) - 1
  BY <1>1, <1>2
<1>4. /\ BlockOf(cur) \in Nat /\ At(BlockOf(cur)) \in Nat
      /\ At(BlockOf(cur)) <= cur /\ cur < At(BlockOf(cur)) + BlockBytes
      /\ cur % BlockBytes = cur - At(BlockOf(cur))
  BY <1>3, BlockOfRight, AtNext
<1>5. BlockOf(request.addr) <= BlockOf(cur)
  BY <1>1, <1>3, BlockOfGrows
<1>6. BlockOf(cur) <= BlockOf(End(request) - 1)
  BY <1>1, <1>3, BlockOfGrows
<1> QED
  BY <1>1, <1>3, <1>4, <1>5, <1>6, CacheAssumption DEF Index, LastIndex

\* A part of a block.
LEMMA BlockPart ==
  ASSUME NEW i \in Nat, NEW x \in Nat, NEW y \in Nat, At(i) <= x, x <= y, y <= At(i) + BlockBytes
  PROVE  /\ SubSeq(Block(i), (x - At(i)) + 1, y - At(i)) = Content(x, y)
         /\ Sound(i, bad) => Legible(x, y, bad)
<1> DEFINE a == At(i)
           b == At(i) + BlockBytes
           p == x - a
           q == y - a
<1>1. a \in Nat /\ BlockBytes \in Nat
  BY AtNext, CacheAssumption
<1>2. b \in Nat /\ p \in Nat /\ q \in Nat /\ p <= q /\ q <= b - a /\ a + p = x /\ a + q = y /\ x <= y /\ a <= x /\ y <= b
  BY <1>1
<1>3. Part(Content(a, b), p, q) = Content(a + p, a + q)
  <2> HIDE DEF a, b, p, q
  <2> QED
    BY <1>1, <1>2, ContentPart
<1>4. Legible(a, b, bad) => Legible(x, y, bad)
  <2> HIDE DEF a, b
  <2> QED
    BY <1>1, <1>2, LegiblePart
<1> QED
  BY <1>2, <1>3, <1>4 DEF Block, Sound, Part

\* A block of the run that was read ahead.
LEMMA RunPart ==
  ASSUME RunRight(run, bad), NEW k \in Nat, InRun(k)
  PROVE  /\ SubSeq(run.bytes, RunPlace(k) * BlockBytes + 1, (RunPlace(k) + 1) * BlockBytes) = Block(k)
         /\ Sound(k, bad)
<1> DEFINE f == run.first
           n == run.count
           p == k - f
<1>1. f \in Nat /\ n \in Nat /\ f <= k /\ k < f + n /\ n > 0 /\ BlockBytes \in Nat
  BY CacheAssumption DEF RunRight, InRun
<1>2. run.bytes = Content(At(f), At(f + n)) /\ Legible(At(f), At(f + n), bad)
  BY <1>1 DEF RunRight
<1>3. p \in Nat /\ p + 1 \in Nat /\ k = f + p /\ k + 1 = f + (p + 1) /\ p < n /\ f + n \in Nat
  BY <1>1
<1> HIDE DEF f, n, p
<1>4. At(k) = At(f) + At(p) /\ At(k + 1) = At(f) + At(p + 1) /\ At(f + n) = At(f) + At(n)
  BY <1>1, <1>3, AtSum
<1>5. At(f) \in Nat /\ At(p) \in Nat /\ At(p + 1) \in Nat /\ At(f + n) \in Nat /\ At(n) \in Nat
      /\ At(p + 1) = At(p) + BlockBytes /\ At(k + 1) = At(k) + BlockBytes /\ At(k) \in Nat
  BY <1>1, <1>3, AtNext
<1>6. At(p + 1) <= At(n)
  BY <1>1, <1>3, <1>5, AtGrows
<1>7. Part(run.bytes, At(p), At(p + 1)) = Content(At(f) + At(p), At(f) + At(p + 1))
  <2>1. At(p) <= At(p + 1) /\ At(p + 1) <= At(f + n) - At(f)
    BY <1>1, <1>4, <1>5, <1>6
  <2> QED
    BY <1>2, <1>5, <2>1, ContentPart
<1>8. Content(At(f) + At(p), At(f) + At(p + 1)) = Block(k)
  BY <1>4, <1>5 DEF Block
<1>9. Sound(k, bad)
  <2>1. At(f) <= At(k) /\ At(k) + BlockBytes <= At(f + n)
    BY <1>1, <1>4, <1>5, <1>6
  <2> QED
    BY <1>1, <1>2, <1>5, <2>1, LegiblePart DEF Sound
<1> QED
  BY <1>7, <1>8, <1>9 DEF At, RunPlace, Part, p, f

\* The blocks of a run are in the request and missing.
LEMMA RunLengthRight ==
  ASSUME NEW i \in Nat
  PROVE  /\ RunLength(i) \in 1..MaxRunBlocks
         /\ \A k \in 1..(RunLength(i) - 1) : i + k <= LastIndex /\ i + k \notin Cached
<1> DEFINE T == {n \in 1..MaxRunBlocks : \A k \in 1..(n - 1) : i + k <= LastIndex /\ i + k \notin Cached}
<1>1. MaxRunBlocks \in Nat /\ T \subseteq 0..MaxRunBlocks /\ 1 \in T
  BY CacheAssumption
<1>2. RunLength(i) = Max(T)
  BY DEF RunLength
<1> HIDE DEF T
<1>3. Max(T) \in T
  BY <1>1, MaxRight
<1> QED
  BY <1>2, <1>3 DEF T
----------------------------------------------------------------------------
(* Each step keeps the cache, the views and the call right. *)

LEMMA KeptTypes ==
  ASSUME Kept
  PROVE  /\ ceiling \in Nat /\ stitched_bytes \in Nat
         /\ CacheRight(blocks, order, bad) /\ ViewsRight(views, Cached)
         /\ Tallied(views, stitched_bytes - Pending)
         /\ Cached \subseteq Nat
BY CacheAssumption DEF Kept, CacheRight, Cached

LEMMA KeptStays ==
  ASSUME Kept, UNCHANGED <<bad, ceiling, cache, stitched_bytes, views, request>>
  PROVE  Kept'
BY DEF Kept, Cached, cache, Pending

LEMMA InsertKept ==
  ASSUME Kept, NEW i \in Nat, i \notin Cached, Sound(i, bad), Insert(i, Block(i)),
         UNCHANGED <<bad, ceiling, stitched_bytes, views, request>>
  PROVE  Kept' /\ Cached' = Cached \cup {i}
<1>1. CacheRight(blocks, order, bad) /\ ViewsRight(views, Cached)
  BY KeptTypes
<1>2. /\ blocks' = [j \in Cached \cup {i} |-> IF j = i THEN Block(i) ELSE blocks[j]]
      /\ order' = Append(order, i)
  BY DEF Insert
<1>3. DOMAIN blocks' = Cached \cup {i} /\ CacheRight(blocks', Append(order, i), bad)
  BY <1>1, <1>2, InsertRight
<1>4. CacheRight(blocks', order', bad') /\ Cached' = Cached \cup {i}
  BY <1>2, <1>3 DEF Cached
<1>5. ViewsRight(views, Cached \cup {i})
  BY <1>1, ViewsGrow
<1> QED
  BY <1>4, <1>5 DEF Kept, Pending

\* Blocks that nobody holds are dropped.
LEMMA DropKept ==
  ASSUME CacheRight(blocks, order, bad), NEW gone, Drop(gone), NEW vs, ViewsRight(vs, Cached), NEW held,
         \A i \in gone : ~InUse(i, vs, held), bad' = bad
  PROVE  CacheRight(blocks', order', bad') /\ Cached' = Cached \ gone /\ ViewsRight(vs, Cached')
<1>1. blocks' = Restrict(blocks, Cached \ gone) /\ order' = Select(order, Cached \ gone)
  BY DEF Drop
<1>2. /\ DOMAIN Restrict(blocks, Cached \ gone) = Cached \ gone
      /\ CacheRight(Restrict(blocks, Cached \ gone), Select(order, Cached \ gone), bad)
  BY DropRight
<1>3. CacheRight(blocks', order', bad') /\ Cached' = Cached \ gone
  BY <1>1, <1>2 DEF Cached
<1>4. ViewsRight(vs, Cached \ gone)
  BY ViewsTrimmed
<1> QED
  BY <1>3, <1>4

LEMMA Initially == Init => Kept /\ CallRight
<1> SUFFICES ASSUME Init
             PROVE  Kept /\ CallRight
  OBVIOUS
<1>1. Cached = {}
  BY DEF Init, Cached
<1>2. CacheRight(blocks, order, bad)
  <2>1. blocks = [i \in {} |-> <<>>] /\ order = <<>>
    BY DEF Init
  <2>2. DOMAIN blocks = {} /\ blocks = [i \in {} |-> Block(i)]
    BY <2>1
  <2>3. order \in Seq({}) /\ DOMAIN order = {}
    BY <2>1
  <2> QED
    BY <2>2, <2>3 DEF CacheRight
<1>3. ViewsRight(views, Cached)
  BY DEF Init, ViewsRight
<1>4. Tallied(views, 0)
  <2> DEFINE N == Cardinality(Views)
             size == [k \in 1..N |-> 0]
  <2>1. Sized(views, size)
    BY DEF Sized, Init
  <2>2. Alive(views) = {}
    BY DEF Alive, Keeps, Init
  <2>3. N \in Nat /\ \A i \in 1..N : size[i] \in Nat
    BY ViewsCounted
  <2> HIDE DEF size, N
  <2>4. Total(size, N, {}) = Total(size, N, {}) + Total(size, N, {})
    BY <2>3, TotalSplits
  <2>5. Total(size, N, {}) \in Nat
    BY <2>3, TotalTyped
  <2>6. Total(size, N, {}) = 0
    <3>1. \A t \in Nat : t = t + t => t = 0
      OBVIOUS
    <3> QED
      BY <2>4, <2>5, <3>1
  <2> QED
    BY <2>1, <2>2, <2>6 DEF Tallied, N
<1>5. stitched_bytes - Pending = 0 /\ stitched_bytes \in Nat
  BY DEF Init, Pending
<1>6. Kept
  BY <1>2, <1>3, <1>4, <1>5 DEF Kept, Init
<1>7. CallRight
  BY DEF CallRight, AtRest, Init
<1> QED
  BY <1>6, <1>7

\* The call goes on in the same place.
LEMMA InCallNow ==
  ASSUME CallRight, pc # "idle"
  PROVE  InCall /\ Asked(request) /\ request # None
<1>1. InCall /\ Asked(request)
  BY DEF CallRight, InCall
<1> QED
  BY <1>1, AskedRight

LEMMA ReadRunStep ==
  ASSUME Kept, CallRight, ReadRun
  PROVE  Kept' /\ CallRight'
<1>1. InCall /\ pc = "get"
  BY InCallNow DEF ReadRun
<1>2. Kept'
  BY KeptStays DEF ReadRun
<1> DEFINE n == RunLength(Index)
           last == BlockStart + n * BlockBytes
<1>3. Index \in Nat
  BY <1>1, CallPlace
<1>4. n \in 1..MaxRunBlocks /\ MaxRunBlocks \in Nat
  BY <1>3, RunLengthRight, CacheAssumption
<1>5. BlockStart = At(Index) /\ last = At(Index + n) /\ At(Index) \in Nat /\ At(Index + n) \in Nat
      /\ At(Index) <= At(Index + n)
  <2>1. n \in Nat
    BY <1>4
  <2> HIDE DEF n
  <2>2. At(Index + n) = At(Index) + At(n) /\ At(Index) \in Nat /\ At(n) \in Nat
    BY <1>3, <2>1, AtSum, AtNext
  <2> QED
    BY <1>3, <2>1, <2>2 DEF BlockStart, At
<1>6. RunRight(run', bad')
  <2>1. CASE Readable(BlockStart, last)
    <3>1. run' = [first |-> Index, count |-> n, bytes |-> Content(BlockStart, last)] /\ bad' = bad
      BY <2>1 DEF ReadRun
    <3> HIDE DEF n, last
    <3>2. Legible(At(Index), At(Index + n), bad)
      BY <1>5, <2>1, LegibleIsReadable
    <3>3. Content(BlockStart, last) \in Seq(Nat)
      BY <1>5, ContentTyped
    <3>4. run'.first = Index /\ run'.count = n /\ run'.bytes = Content(At(Index), At(Index + n))
      BY <1>5, <3>1
    <3>5. run' \in [first : Nat, count : 0..MaxRunBlocks, bytes : Seq(Nat)]
      BY <1>3, <1>4, <3>1, <3>3
    <3> QED
      BY <3>1, <3>2, <3>4, <3>5 DEF RunRight
  <2>2. CASE ~Readable(BlockStart, last)
    BY <1>1, <2>2 DEF ReadRun, InCall
  <2> QED
    BY <2>1, <2>2
<1>7. failed' \in BOOLEAN
  BY <1>1 DEF ReadRun, InCall
<1>8. InCall'
  BY <1>1, <1>6, <1>7 DEF ReadRun, InCall
<1> QED
  BY <1>1, <1>2, <1>8 DEF CallRight, ReadRun

LEMMA GetHitStep ==
  ASSUME Kept, CallRight, GetHit
  PROVE  Kept' /\ CallRight'
<1>1. InCall /\ pc = "get"
  BY InCallNow DEF GetHit
<1>2. CacheRight(blocks, order', bad)
  BY KeptTypes, TouchedRight DEF GetHit
<1>3. Kept'
  BY <1>2 DEF Kept, GetHit, Cached, Pending
<1>4. InCall'
  BY <1>1 DEF GetHit, InCall, Index, Cached, loader
<1> QED
  BY <1>3, <1>4 DEF CallRight, GetHit

LEMMA GetFromRunStep ==
  ASSUME Kept, CallRight, GetFromRun
  PROVE  Kept' /\ CallRight'
<1>1. InCall /\ pc = "get"
  BY InCallNow DEF GetFromRun
<1>2. Index \in Nat
  BY <1>1, CallPlace
<1>3. RunRight(run, bad)
  BY <1>1 DEF InCall
<1>4. /\ SubSeq(run.bytes, RunPlace(Index) * BlockBytes + 1, (RunPlace(Index) + 1) * BlockBytes) = Block(Index)
      /\ Sound(Index, bad)
  BY <1>2, <1>3, RunPart DEF GetFromRun
<1>5. Insert(Index, Block(Index)) /\ Index \notin Cached
  BY <1>4 DEF GetFromRun
<1>6. Kept' /\ Cached' = Cached \cup {Index}
  BY <1>2, <1>4, <1>5, InsertKept DEF GetFromRun
<1>7. RunRight(run', bad')
  <2>1. bad' = bad /\ (run' = run \/ run' = [run EXCEPT !.count = 0])
    BY DEF GetFromRun
  <2>2. run \in [first : Nat, count : 0..MaxRunBlocks, bytes : Seq(Nat)] /\ MaxRunBlocks \in Nat
    BY <1>3, CacheAssumption DEF RunRight
  <2>3. CASE run' = [run EXCEPT !.count = 0]
    <3>1. run' \in [first : Nat, count : 0..MaxRunBlocks, bytes : Seq(Nat)] /\ run'.count = 0
      BY <2>2, <2>3
    <3> QED
      BY <3>1 DEF RunRight
  <2> QED
    BY <1>3, <2>1, <2>3
<1>8. InCall'
  <2>1. got' = Index' /\ Index' \in Cached'
    BY <1>6 DEF GetFromRun, Index
  <2> QED
    BY <1>1, <1>7, <2>1 DEF GetFromRun, InCall
<1> QED
  BY <1>6, <1>8 DEF CallRight, GetFromRun

LEMMA GetAloneStep ==
  ASSUME Kept, CallRight, GetAlone
  PROVE  Kept' /\ CallRight'
<1>1. InCall /\ pc = "get"
  BY InCallNow DEF GetAlone
<1>2. Index \in Nat
  BY <1>1, CallPlace
<1>3. BlockStart = At(Index)
  BY DEF BlockStart, At
<1>4. CASE Readable(BlockStart, BlockStart + BlockBytes)
  <2>1. Sound(Index, bad)
    BY <1>3, <1>4, LegibleIsReadable DEF Sound
  <2>2. Insert(Index, Block(Index)) /\ Index \notin Cached
    BY <1>3, <1>4 DEF GetAlone, Block
  <2>3. Kept' /\ Cached' = Cached \cup {Index}
    BY <1>2, <2>1, <2>2, InsertKept DEF GetAlone
  <2>4. got' = Index' /\ Index' \in Cached' /\ pc' = "copy"
    BY <1>4, <2>3 DEF GetAlone, Index
  <2>5. InCall'
    BY <1>1, <2>4 DEF GetAlone, InCall
  <2> QED
    BY <2>3, <2>4, <2>5 DEF CallRight
<1>5. CASE ~Readable(BlockStart, BlockStart + BlockBytes)
  <2>1. pc' = "uncached" /\ UNCHANGED <<cache, got>>
    BY <1>5 DEF GetAlone
  <2>2. Kept'
    BY <2>1, KeptStays DEF GetAlone
  <2>3. InCall'
    BY <1>1, <2>1 DEF GetAlone, InCall
  <2> QED
    BY <2>1, <2>2, <2>3 DEF CallRight
<1> QED
  BY <1>4, <1>5

LEMMA TalliedTyped ==
  ASSUME NEW vs, NEW amount, Tallied(vs, amount)
  PROVE  amount \in Nat
<1>1. PICK size : Sized(vs, size) /\ amount = Total(size, Cardinality(Views), Alive(vs))
  BY DEF Tallied
<1>2. \A i \in 1..Cardinality(Views) : size[i] \in Nat
  BY <1>1 DEF Sized
<1> QED
  BY <1>1, <1>2, ViewsCounted, TotalTyped

LEMMA OverRight ==
  ASSUME Over
  PROVE  CallRight' /\ pc' = "idle" /\ request' = None
BY DEF Over, CallRight, AtRest

\* The cache was trimmed for the views there are and for no fewer bytes.
LEMMA TrimEnds ==
  ASSUME Kept, NEW vs, views' = vs, ViewsRight(vs, Cached), NEW held,
         held = None \/ \E v \in Views : vs[v].owner = BlockOwner(held),
         NEW tally \in Nat, Drop(Trimmed(vs, held, tally)),
         stitched_bytes' \in Nat, stitched_bytes' <= tally, UNCHANGED <<bad, ceiling>>
  PROVE  UnderCeiling'
<1> DEFINE gone == Trimmed(vs, held, tally)
<1>1. CacheRight(blocks, order, bad) /\ ceiling \in Nat /\ Cached \subseteq Nat
  BY KeptTypes
<1>2. TrimRight(gone, vs, held, tally)
  BY <1>1, TrimmedRight
<1> HIDE DEF gone
<1>3. \A i \in gone : ~InUse(i, vs, held)
  BY <1>2 DEF TrimRight
<1>4. CacheRight(blocks', order', bad') /\ Cached' = Cached \ gone
  BY <1>1, <1>3, DropKept DEF gone
<1>5. CASE BlockBytes * Cardinality(Cached \ gone) + tally <= ceiling
  <2> DEFINE c == Cardinality(Cached \ gone)
             b == BlockBytes * c
  <2>1. c \in Nat
    BY <1>1, CachedFinite, FS_Subset, FS_CardinalityType
  <2> HIDE DEF c
  <2>2. b \in Nat
    BY <2>1, CacheAssumption
  <2> HIDE DEF b
  <2>3. b + stitched_bytes' <= ceiling
    BY <1>1, <1>5, <2>2 DEF b, c
  <2> QED
    BY <1>4, <2>3 DEF UnderCeiling, b, c
<1>6. CASE \A i \in Cached \ gone : InUse(i, vs, held)
  <2>1. ASSUME NEW i \in Cached \ gone
        PROVE  \E v \in Views : vs[v].owner = BlockOwner(i)
    <3>1. InUse(i, vs, held) /\ i \in Nat
      BY <1>1, <1>6
    <3>2. i # None
      BY <3>1, CacheAssumption
    <3> QED
      BY <3>1, <3>2 DEF InUse
  <2>2. \A i \in Cached' : BlockOwner(i) \in Owners'
    BY <1>4, <2>1 DEF Owners
  <2> QED
    BY <2>2 DEF UnderCeiling
<1> QED
  BY <1>2, <1>5, <1>6 DEF TrimRight

\* A view w in the place of an empty one.
LEMMA AnswerShows ==
  ASSUME Kept, NEW v \in Views, Free(v), NEW w, Shows(w, Cached), NEW vs, vs = [views EXCEPT ![v] = w]
  PROVE  vs # views /\ ViewsRight(vs, Cached) /\ vs[v] = w
<1>1. ViewsRight(views, Cached)
  BY KeptTypes
<1>2. ViewsRight(vs, Cached) /\ Replaced(vs, v, w)
  BY <1>1, GivenRight
<1>3. vs[v] = w /\ w # EmptyView
  BY <1>2, ShowsSomething DEF Replaced
<1> QED
  BY <1>2, <1>3 DEF Free

\* A call returns the view w in place of the empty view v.
LEMMA AnswerKept ==
  ASSUME Kept, NEW v \in Views, Free(v), NEW w, Shows(w, Cached), NEW vs, vs = [views EXCEPT ![v] = w],
         views' = vs, NEW held, held = None \/ w.owner = BlockOwner(held),
         NEW tally \in Nat, Drop(Trimmed(vs, held, tally)), stitched_bytes' \in Nat, stitched_bytes' <= tally,
         request' = None, Tallied(vs, stitched_bytes'), UNCHANGED <<bad, ceiling>>
  PROVE  Kept' /\ views' # views /\ UnderCeiling'
<1>1. CacheRight(blocks, order, bad) /\ ViewsRight(views, Cached) /\ ceiling \in Nat
  BY KeptTypes
<1>2. ViewsRight(vs, Cached)
  BY <1>1, GivenRight
<1> DEFINE gone == Trimmed(vs, held, tally)
<1>3. \A i \in gone : ~InUse(i, vs, held)
  <2>1. TrimRight(gone, vs, held, tally)
    BY <1>1, TrimmedRight
  <2> QED
    BY <2>1 DEF TrimRight
<1> HIDE DEF gone
<1>4. CacheRight(blocks', order', bad') /\ ViewsRight(vs, Cached')
  BY <1>1, <1>2, <1>3, DropKept DEF gone
<1>5. stitched_bytes' - Pending' = stitched_bytes'
  <2>1. Pending' = 0
    BY DEF Pending
  <2>2. \A n \in Nat : n - 0 = n
    OBVIOUS
  <2> QED
    BY <2>1, <2>2
<1>6. Kept'
  BY <1>4, <1>5 DEF Kept
<1>7. vs # views /\ vs[v] = w
  BY AnswerShows
<1>8. UnderCeiling'
  BY <1>2, <1>7, TrimEnds
<1> QED
  BY <1>6, <1>7, <1>8

LEMMA CallReadStep ==
  ASSUME Kept, CallRight, NEW r \in Requests, CallRead(r)
  PROVE  Kept' /\ CallRight'
<1>1. AtRest /\ pc = "idle" /\ pc' = "get" /\ request' = r /\ cur' = r.addr
  BY DEF CallRead, CallRight
<1>2. Asked(r)
  <2>1. r \in [addr : Int, length : Nat] /\ MaxAddress \in Nat
    BY CacheAssumption
  <2>2. r.length # 0 /\ ~(r.addr < 0) /\ ~(r.addr > MaxAddress - r.length)
    BY DEF CallRead, Refused
  <2>3. r.length > 0 /\ r.addr >= 0 /\ r.addr + r.length <= MaxAddress
    BY <2>1, <2>2
  <2> QED
    BY <2>3 DEF Asked, End
<1>3. /\ r.addr \in Nat /\ r.length \in Nat \ {0} /\ r # None
      /\ End(r) = r.addr + r.length /\ BufferBytes(r) \in Nat
  BY <1>2, AskedRight
<1>4. Kept'
  <2>1. /\ Tallied(views, stitched_bytes - Pending) /\ stitched_bytes \in Nat
        /\ CacheRight(blocks, order, bad) /\ ViewsRight(views, Cached)
    BY KeptTypes
  <2>2. Pending = 0 /\ Pending' = BufferBytes(r) /\ stitched_bytes' = stitched_bytes + BufferBytes(r)
    BY <1>1, <1>3 DEF Pending, AtRest, CallRead
  <2>3. stitched_bytes' - Pending' = stitched_bytes - Pending /\ stitched_bytes' \in Nat
    BY <1>3, <2>1, <2>2
  <2>4. UNCHANGED <<bad, ceiling, cache, views>>
    BY DEF CallRead
  <2>5. Tallied(views', stitched_bytes' - Pending')
    BY <2>1, <2>3, <2>4
  <2> QED
    BY <2>1, <2>3, <2>4, <2>5 DEF Kept, cache, Cached
<1>5. InCall'
  <2>1. Content(r.addr, r.addr) = <<>> /\ Legible(r.addr, r.addr, bad)
    BY <1>3, ContentNone, LegibleNone
  <2>2. RunRight(NoRun, bad)
    <3>1. MaxRunBlocks \in Nat
      BY CacheAssumption
    <3>2. NoRun \in [first : Nat, count : 0..MaxRunBlocks, bytes : Seq(Nat)] /\ NoRun.count = 0
      BY <3>1 DEF NoRun
    <3> QED
      BY <3>2 DEF RunRight
  <2>3. r.addr \in r.addr..End(r) /\ r.addr # End(r)
    BY <1>3
  <2>4. out' = <<>> /\ run' = NoRun /\ failed' = FALSE /\ got' = None /\ bad' = bad
    BY <1>1 DEF CallRead, AtRest
  <2> QED
    BY <1>1, <1>2, <2>1, <2>2, <2>3, <2>4 DEF InCall
<1> QED
  BY <1>1, <1>4, <1>5 DEF CallRight

\* What the call holds in the middle of a copy.
LEMMA CopyPlace ==
  ASSUME Kept, CallRight, pc = "copy"
  PROVE  /\ InCall /\ got = Index /\ Index \in Cached /\ blocks[got] = Block(Index) /\ Sound(Index, bad)
<1>1. InCall /\ got = Index /\ Index \in Cached
  BY InCallNow DEF InCall
<1>2. CacheRight(blocks, order, bad)
  BY KeptTypes
<1>3. blocks = [i \in Cached |-> Block(i)] /\ \A i \in Cached : Sound(i, bad)
  BY <1>2 DEF CacheRight, Cached
<1> QED
  BY <1>1, <1>3

\* The part of the block that is copied.
LEMMA CopiedPart ==
  ASSUME Kept, CallRight, pc = "copy", NEW n \in Nat, cur + n <= At(Index) + BlockBytes
  PROVE  /\ SubSeq(blocks[got], (cur % BlockBytes) + 1, (cur % BlockBytes) + n) = Content(cur, cur + n)
         /\ Legible(cur, cur + n, bad)
<1>1. InCall /\ blocks[got] = Block(Index) /\ Sound(Index, bad)
  BY CopyPlace
<1>2. /\ cur \in Nat /\ Index \in Nat /\ At(Index) \in Nat /\ At(Index) <= cur
      /\ cur % BlockBytes = cur - At(Index)
  BY <1>1, CallPlace
<1>3. /\ SubSeq(Block(Index), (cur - At(Index)) + 1, (cur + n) - At(Index)) = Content(cur, cur + n)
      /\ Sound(Index, bad) => Legible(cur, cur + n, bad)
  <2> DEFINE y == cur + n
  <2>1. y \in Nat /\ cur <= y /\ y <= At(Index) + BlockBytes
    BY <1>2
  <2> HIDE DEF y
  <2>2. /\ SubSeq(Block(Index), (cur - At(Index)) + 1, y - At(Index)) = Content(cur, y)
        /\ Sound(Index, bad) => Legible(cur, y, bad)
    BY <1>2, <2>1, BlockPart
  <2> QED
    BY <2>2 DEF y
<1>4. (cur % BlockBytes) + 1 = (cur - At(Index)) + 1 /\ (cur % BlockBytes) + n = (cur + n) - At(Index)
  BY <1>2
<1> QED
  BY <1>1, <1>3, <1>4

\* A read in one block is answered whole.
LEMMA OneBlock ==
  ASSUME Kept, CallRight, pc = "copy", ~CrossesBlock(request)
  PROVE  /\ cur = request.addr /\ cur + request.length = End(request)
         /\ cur + request.length <= At(Index) + BlockBytes
<1>1. InCall
  BY CopyPlace
<1>2. cur = request.addr /\ Asked(request)
  BY <1>1 DEF InCall
<1>3. request.addr \in Nat /\ request.length \in Nat \ {0} /\ End(request) = request.addr + request.length
      /\ End(request) - 1 \in Nat
  BY <1>2, AskedRight
<1>4. BlockOf(End(request) - 1) = Index
  BY <1>2 DEF CrossesBlock, Index
<1> DEFINE e == End(request) - 1
<1>5. e \in Nat /\ BlockOf(e) = Index
  BY <1>3, <1>4
<1> HIDE DEF e
<1>6. e < At(Index) + BlockBytes
  BY <1>5, BlockOfRight
<1>7. Index \in Nat /\ At(Index) \in Nat /\ BlockBytes \in Nat
  BY <1>1, CallPlace
<1> QED
  BY <1>2, <1>3, <1>6, <1>7 DEF e

LEMMA ReturnBlockStep ==
  ASSUME Kept, CallRight, ReturnBlock
  PROVE  /\ Kept' /\ CallRight'
         /\ AnswersExactly /\ UnderCeiling'
<1>1. pc = "copy" /\ ~CrossesBlock(request) /\ Over /\ UNCHANGED <<bad, ceiling, stitched_bytes>>
  BY DEF ReturnBlock
<1>2. InCall /\ got = Index /\ Index \in Cached
  BY <1>1, CopyPlace
<1>3. Asked(request)
  BY <1>2 DEF InCall
<1>4. request.addr \in Nat /\ request.length \in Nat \ {0} /\ request # None
  BY <1>3, AskedRight
<1>5. cur = request.addr /\ cur + request.length <= At(Index) + BlockBytes
  BY <1>1, OneBlock
<1> DEFINE offset == cur % BlockBytes
           shown == SubSeq(blocks[got], offset + 1, offset + request.length)
           w == [owner |-> BlockOwner(got), addr |-> request.addr, bytes |-> shown]
<1>6. shown = Content(request.addr, request.addr + request.length)
  BY <1>1, <1>4, <1>5, CopiedPart
<1>7. PICK v \in Views : /\ Free(v)
                         /\ views' = [views EXCEPT ![v] = w]
                         /\ Drop(Trimmed([views EXCEPT ![v] = w], got, stitched_bytes))
  BY DEF ReturnBlock, Given
<1> HIDE DEF shown
<1>8. Shows(w, Cached)
  <2>1. shown \in Seq(Nat)
    BY <1>4, <1>6, ContentOf
  <2>2. Index \in Nat
    BY <1>1, <1>2, CallPlace
  <2>3. BlockOwner(got) \in Owner /\ BlockOwner(got).id = got /\ got \in Cached
    BY <1>2, <2>2 DEF BlockOwner, Owner
  <2>4. w \in [owner : Owner, addr : Nat, bytes : Seq(Nat)]
    BY <1>4, <2>1, <2>3
  <2>5. w.owner = BlockOwner(w.owner.id) /\ w.owner.id \in Cached
    BY <2>3
  <2>6. w.bytes = Content(w.addr, w.addr + request.length)
    BY <1>6
  <2> QED
    BY <1>4, <2>4, <2>5, <2>6 DEF Shows
<1>9. w.owner.kind = "block"
  BY DEF BlockOwner
<1> DEFINE vs == [views EXCEPT ![v] = w]
<1> HIDE DEF w
<1>10. Replaced(vs, v, w)
  BY <1>8, KeptTypes, GivenRight
<1>11. Tallied(vs, stitched_bytes')
  <2>1. Tallied(views, stitched_bytes - Pending) /\ stitched_bytes \in Nat
    BY KeptTypes
  <2>2. stitched_bytes - Pending = stitched_bytes
    BY <1>1, <1>4, <2>1 DEF Pending, BufferBytes
  <2>3. Tallied(views, stitched_bytes) /\ views[v] = EmptyView
    BY <1>7, <2>1, <2>2 DEF Free
  <2> HIDE DEF vs
  <2> QED
    BY <1>1, <1>9, <1>10, <2>3, SameBuffers
<1>12. request' = None /\ CallRight'
  BY <1>1, OverRight
<1>13. views' = vs /\ Drop(Trimmed(vs, got, stitched_bytes)) /\ stitched_bytes \in Nat /\ stitched_bytes' \in Nat
  BY <1>1, <1>7, KeptTypes
<1>14. vs = [views EXCEPT ![v] = w]
  OBVIOUS
<1> HIDE DEF vs
<1>15. w.owner = BlockOwner(got) /\ stitched_bytes' <= stitched_bytes
  BY <1>1, <1>13 DEF w
<1>16. Kept' /\ views' # views /\ UnderCeiling'
  BY <1>1, <1>7, <1>8, <1>11, <1>12, <1>13, <1>14, <1>15, AnswerKept
<1>17. Readable(request.addr, End(request))
  <2>1. Legible(cur, cur + request.length, bad)
    BY <1>1, <1>4, <1>5, CopiedPart
  <2>2. cur + request.length = End(request)
    BY <1>1, OneBlock
  <2> QED
    BY <1>5, <2>1, <2>2, LegibleIsReadable
<1> QED
  BY <1>12, <1>16, <1>17 DEF AnswersExactly

\* One turn of the loop ends at the end of the block or of the request.
LEMMA CopyAmount ==
  ASSUME InCall, pc = "copy", NEW chunk, chunk = Min({BlockBytes - (cur % BlockBytes), End(request) - cur})
  PROVE  /\ chunk \in Nat \ {0}
         /\ cur + chunk <= At(Index) + BlockBytes
         /\ cur + chunk <= End(request)
         /\ cur + chunk # End(request) => cur + chunk = At(Index) + BlockBytes
         /\ cur + chunk = End(request) => Index = LastIndex
<1>1. /\ cur \in Nat /\ cur < End(request) /\ Index \in Nat /\ At(Index) \in Nat
      /\ At(Index) <= cur /\ cur < At(Index) + BlockBytes /\ cur % BlockBytes = cur - At(Index)
      /\ LastIndex \in Nat /\ BlockBytes \in Nat
  BY CallPlace
<1>2. End(request) \in Nat /\ End(request) - 1 \in Nat
  <2>1. Asked(request)
    BY DEF InCall
  <2> QED
    BY <2>1, AskedRight
<1> DEFINE off == cur % BlockBytes
           a == BlockBytes - off
           b == End(request) - cur
           x == At(Index) + BlockBytes
<1>3. off = cur - At(Index) /\ x \in Nat /\ cur < x
  BY <1>1
<1>4. chunk = IF a <= b THEN a ELSE b
  <2>1. chunk = Min({a, b})
    OBVIOUS
  <2> HIDE DEF off
  <2>2. a \in Int /\ b \in Int
    BY <1>1, <1>2, <1>3
  <2> HIDE DEF a, b
  <2> QED
    BY <2>1, <2>2, MinTwo
<1>5. /\ chunk \in Nat \ {0}
      /\ cur + chunk <= At(Index) + BlockBytes
      /\ cur + chunk <= End(request)
      /\ cur + chunk # End(request) => cur + chunk = At(Index) + BlockBytes
  <2> HIDE DEF off
  <2>1. a = x - cur
    BY <1>1, <1>3
  <2> HIDE DEF a, x
  <2>2. /\ chunk \in Nat \ {0}
        /\ cur + chunk <= x
        /\ cur + chunk <= End(request)
        /\ cur + chunk # End(request) => cur + chunk = x
    BY <1>1, <1>2, <1>3, <1>4, <2>1
  <2> QED
    BY <2>2 DEF x
<1>6. ASSUME cur + chunk = End(request)
      PROVE  Index = LastIndex
  <2> DEFINE e == End(request) - 1
  <2>1. e \in Nat /\ At(Index) <= e /\ e < At(Index) + BlockBytes
    BY <1>1, <1>2, <1>5, <1>6
  <2> HIDE DEF e
  <2>2. BlockOf(e) = Index
    BY <1>1, <2>1, BlockOfUnique
  <2> QED
    BY <2>2 DEF e, LastIndex
<1> QED
  BY <1>5, <1>6

LEMMA CopyBlockStep ==
  ASSUME Kept, CallRight, CopyBlock
  PROVE  Kept' /\ CallRight'
<1> DEFINE offset == cur % BlockBytes
           chunk == Min({BlockBytes - offset, End(request) - cur})
           gone == Trimmed(views, got, stitched_bytes)
<1>1. /\ pc = "copy" /\ CrossesBlock(request)
      /\ out' = out \o SubSeq(blocks[got], offset + 1, offset + chunk)
      /\ cur' = cur + chunk
      /\ Drop(gone)
      /\ got' = None
      /\ pc' = IF cur + chunk = End(request) THEN "stitched" ELSE "get"
      /\ UNCHANGED <<bad, ceiling, stitched_bytes, views, request, run, failed>>
  BY DEF CopyBlock, loader
<1>2. InCall
  BY <1>1, CopyPlace
<1>3. /\ chunk \in Nat \ {0} /\ cur + chunk <= At(Index) + BlockBytes /\ cur + chunk <= End(request)
  BY <1>1, <1>2, CopyAmount
<1> HIDE DEF chunk
<1>4. Kept'
  <2>1. /\ CacheRight(blocks, order, bad) /\ ViewsRight(views, Cached) /\ ceiling \in Nat /\ stitched_bytes \in Nat
    BY KeptTypes
  <2>2. \A i \in gone : ~InUse(i, views, got)
    <3>1. TrimRight(gone, views, got, stitched_bytes)
      BY <2>1, TrimmedRight
    <3> QED
      BY <3>1 DEF TrimRight
  <2> HIDE DEF gone
  <2>3. CacheRight(blocks', order', bad') /\ ViewsRight(views, Cached')
    BY <1>1, <2>1, <2>2, DropKept
  <2> QED
    BY <1>1, <2>3 DEF Kept, Pending
<1>5. out' = Content(request.addr, cur + chunk) /\ Legible(request.addr, cur + chunk, bad)
  <2>1. /\ SubSeq(blocks[got], offset + 1, offset + chunk) = Content(cur, cur + chunk)
        /\ Legible(cur, cur + chunk, bad)
    BY <1>1, <1>3, CopiedPart
  <2>2. out = Content(request.addr, cur) /\ Legible(request.addr, cur, bad) /\ Asked(request)
    BY <1>2 DEF InCall
  <2>3. request.addr \in Nat /\ cur \in Nat /\ request.addr <= cur
    BY <1>1, <1>2, <2>2, AskedRight, CallPlace
  <2> DEFINE e == cur + chunk
  <2>4. e \in Nat /\ cur <= e
    BY <1>3, <2>3
  <2>5. out' = Content(request.addr, cur) \o Content(cur, e)
    BY <1>1, <2>1, <2>2
  <2>6. Legible(cur, e, bad)
    BY <2>1
  <2> HIDE DEF e
  <2>7. out' = Content(request.addr, e)
    BY <2>3, <2>4, <2>5, ContentJoin
  <2>8. Legible(request.addr, e, bad)
    BY <2>2, <2>3, <2>4, <2>6, LegibleJoin
  <2> QED
    BY <2>7, <2>8 DEF e
<1>6. cur' \in request.addr..End(request)
  <2>1. Asked(request)
    BY <1>2 DEF InCall
  <2>2. request.addr \in Nat /\ End(request) \in Nat
    BY <2>1, AskedRight
  <2>3. cur \in Nat /\ request.addr <= cur
    BY <1>1, <1>2, CallPlace
  <2> QED
    BY <1>1, <1>3, <2>2, <2>3
<1>7. InCall'
  <2>1. cur' = End(request) <=> pc' = "stitched"
    BY <1>1
  <2>2. pc' \in {"get", "stitched"}
    BY <1>1
  <2> QED
    BY <1>1, <1>2, <1>5, <1>6, <2>1, <2>2 DEF InCall
<1> QED
  BY <1>1, <1>4, <1>7 DEF CallRight

\* The bytes of the request in a buffer of their own.
LEMMA NewBuffer ==
  ASSUME Kept, Asked(request), NEW v \in Views, Free(v), NEW w,
         w = [owner |-> NewStitched(request.length), addr |-> request.addr,
              bytes |-> Content(request.addr, End(request))],
         NEW vs, vs = [views EXCEPT ![v] = w]
  PROVE  Shows(w, Cached) /\ Tallied(vs, (stitched_bytes - Pending) + request.length)
<1>1. request.addr \in Nat /\ request.length \in Nat \ {0} /\ End(request) = request.addr + request.length
  BY AskedRight
<1>2. ViewsRight(views, Cached) /\ Tallied(views, stitched_bytes - Pending) /\ views[v] = EmptyView
  BY KeptTypes DEF Free
<1> DEFINE o == NewStitched(request.length)
<1>3. o \in Owner /\ o.kind = "stitched" /\ o.size = request.length
      /\ o.id \in (1..Cardinality(Views)) \ Alive(views)
  BY <1>1, <1>2, NewIsNew
<1> HIDE DEF o
<1>4. w.owner = o /\ w.addr = request.addr /\ w.bytes = Content(request.addr, request.addr + request.length)
  BY <1>1 DEF o
<1>5. w \in [owner : Owner, addr : Nat, bytes : Seq(Nat)]
  <2>1. Content(request.addr, End(request)) \in Seq(Nat)
    BY <1>1, ContentOf
  <2> QED
    BY <1>1, <1>3, <2>1 DEF o
<1>6. Shows(w, Cached)
  BY <1>1, <1>3, <1>4, <1>5 DEF Shows
<1>7. w # EmptyView
  BY <1>6, ShowsSomething
<1>8. Replaced(vs, v, w)
  BY <1>2, <1>6, GivenRight
<1>9. /\ w.owner.kind = "stitched" /\ w.owner.size = request.length /\ w.owner.size \in Nat
      /\ w.owner.id \in (1..Cardinality(Views)) \ Alive(views)
  BY <1>1, <1>3, <1>4
<1>10. Tallied(vs, (stitched_bytes - Pending) + w.owner.size)
  BY <1>2, <1>7, <1>8, <1>9, OneBufferMore
<1> QED
  BY <1>6, <1>9, <1>10

LEMMA ReturnStitchedStep ==
  ASSUME Kept, CallRight, ReturnStitched
  PROVE  /\ Kept' /\ CallRight'
         /\ AnswersExactly /\ UnderCeiling'
<1>1. pc = "stitched" /\ Over /\ UNCHANGED <<bad, ceiling, stitched_bytes>>
  BY DEF ReturnStitched
<1>2. InCall /\ Asked(request) /\ request # None
  BY <1>1, InCallNow
<1>3. request.addr \in Nat /\ request.length \in Nat \ {0} /\ End(request) = request.addr + request.length
  BY <1>2, AskedRight
<1>4. out = Content(request.addr, End(request)) /\ cur = End(request) /\ CrossesBlock(request)
  <2>1. cur = End(request) /\ out = Content(request.addr, cur)
    BY <1>1, <1>2 DEF InCall
  <2>2. cur # request.addr
    BY <1>3, <2>1
  <2>3. CrossesBlock(request)
    BY <1>2, <2>2 DEF InCall
  <2> QED
    BY <2>1, <2>3
<1> DEFINE w == [owner |-> NewStitched(request.length), addr |-> request.addr,
                 bytes |-> Content(request.addr, End(request))]
<1>5. PICK v \in Views : /\ Free(v)
                         /\ views' = [views EXCEPT ![v] = w]
                         /\ Drop(Trimmed([views EXCEPT ![v] = w], None, stitched_bytes))
  BY <1>4 DEF ReturnStitched, Given
<1> DEFINE vs == [views EXCEPT ![v] = w]
<1>6. Shows(w, Cached) /\ Tallied(vs, (stitched_bytes - Pending) + request.length)
  <2> HIDE DEF w
  <2>1. vs = [views EXCEPT ![v] = w]
    OBVIOUS
  <2>2. w = [owner |-> NewStitched(request.length), addr |-> request.addr,
             bytes |-> Content(request.addr, End(request))]
    BY DEF w
  <2> HIDE DEF vs
  <2> QED
    BY <1>2, <1>5, <2>1, <2>2, NewBuffer
<1>7. stitched_bytes \in Nat /\ (stitched_bytes - Pending) + request.length = stitched_bytes
  <2>1. stitched_bytes \in Nat
    BY KeptTypes
  <2>2. Pending = request.length
    BY <1>2, <1>4 DEF Pending, BufferBytes
  <2> QED
    BY <1>3, <2>1, <2>2
<1> HIDE DEF w
<1>8. Tallied(vs, stitched_bytes') /\ stitched_bytes' \in Nat /\ request' = None /\ CallRight'
  BY <1>1, <1>6, <1>7, OverRight
<1>9. vs = [views EXCEPT ![v] = w] /\ views' = vs /\ Drop(Trimmed(vs, None, stitched_bytes))
  BY <1>5
<1> HIDE DEF vs
<1>10. stitched_bytes' <= stitched_bytes
  BY <1>1, <1>7
<1>11. Kept' /\ views' # views /\ UnderCeiling'
  BY <1>1, <1>5, <1>6, <1>7, <1>8, <1>9, <1>10, AnswerKept
<1>12. Readable(request.addr, End(request))
  BY <1>2, <1>4, LegibleIsReadable DEF InCall
<1> QED
  BY <1>8, <1>11, <1>12 DEF AnswersExactly

LEMMA ReadUncachedStep ==
  ASSUME Kept, CallRight, ReadUncached
  PROVE  /\ Kept' /\ CallRight'
         /\ AnswersExactly /\ (views' # views => UnderCeiling')
<1> DEFINE tally == stitched_bytes + request.length
<1>1. pc = "uncached" /\ Over /\ UNCHANGED <<bad, ceiling>>
  BY DEF ReadUncached
<1>2. InCall /\ Asked(request) /\ request # None
  BY <1>1, InCallNow
<1>3. /\ request.addr \in Nat /\ request.length \in Nat \ {0} /\ End(request) = request.addr + request.length
      /\ BufferBytes(request) \in Nat
  BY <1>2, AskedRight
<1>4. stitched_bytes \in Nat /\ Tallied(views, stitched_bytes - Pending)
  BY KeptTypes
<1>5. stitched_bytes - Pending \in Nat /\ Pending = BufferBytes(request)
  BY <1>2, <1>4, TalliedTyped DEF Pending
<1>6. tally \in Nat /\ tally >= BufferBytes(request) + request.length
  BY <1>3, <1>4, <1>5
<1>7. request' = None /\ CallRight'
  BY <1>1, OverRight
<1>8. CASE Readable(request.addr, UncachedEnd)
  <2> DEFINE w == [owner |-> NewStitched(request.length), addr |-> request.addr,
                   bytes |-> Content(request.addr, End(request))]
  <2>1. /\ stitched_bytes' = Uncounted(BufferBytes(request), tally)
        /\ \E v \in Views : /\ Free(v)
                            /\ views' = [views EXCEPT ![v] = w]
                            /\ Drop(Trimmed([views EXCEPT ![v] = w], None, tally))
    BY <1>8 DEF ReadUncached, Given
  <2>2. PICK v \in Views : /\ Free(v)
                           /\ views' = [views EXCEPT ![v] = w]
                           /\ Drop(Trimmed([views EXCEPT ![v] = w], None, tally))
    BY <2>1
  <2> DEFINE vs == [views EXCEPT ![v] = w]
  <2>3. Shows(w, Cached) /\ Tallied(vs, (stitched_bytes - Pending) + request.length)
    <3> HIDE DEF w
    <3>1. vs = [views EXCEPT ![v] = w]
      OBVIOUS
    <3>2. w = [owner |-> NewStitched(request.length), addr |-> request.addr,
               bytes |-> Content(request.addr, End(request))]
      BY DEF w
    <3> HIDE DEF vs
    <3> QED
      BY <1>2, <2>2, <3>1, <3>2, NewBuffer
  <2> HIDE DEF w
  <2>4. stitched_bytes' = (stitched_bytes - Pending) + request.length /\ stitched_bytes' \in Nat
    BY <1>3, <1>4, <1>5, <1>6, <2>1 DEF Uncounted
  <2>5. vs = [views EXCEPT ![v] = w] /\ views' = vs /\ Drop(Trimmed(vs, None, tally))
    BY <2>2
  <2>6. Tallied(vs, stitched_bytes') /\ stitched_bytes' <= tally
    <3>1. Pending \in Nat
      BY <1>3, <1>5
    <3> QED
      BY <1>3, <1>4, <2>3, <2>4, <3>1
  <2> HIDE DEF vs, tally
  <2>7. Kept' /\ views' # views /\ UnderCeiling'
    BY <1>1, <1>6, <1>7, <2>2, <2>3, <2>4, <2>5, <2>6, AnswerKept
  <2>8. Readable(request.addr, End(request))
    BY <1>8 DEF UncachedEnd
  <2> QED
    BY <1>7, <2>7, <2>8 DEF AnswersExactly
<1>9. CASE ~Readable(request.addr, UncachedEnd)
  <2>1. stitched_bytes' = Uncounted(BufferBytes(request) + request.length, tally) /\ UNCHANGED <<cache, views>>
    BY <1>9 DEF ReadUncached
  <2>2. stitched_bytes' = stitched_bytes - Pending /\ stitched_bytes' \in Nat
    BY <1>3, <1>4, <1>5, <1>6, <2>1 DEF Uncounted
  <2>3. Pending' = 0
    BY <1>7 DEF Pending
  <2>4. stitched_bytes' - Pending' = stitched_bytes - Pending
    BY <2>2, <2>3
  <2>5. Kept'
    BY <1>1, <2>1, <2>2, <2>4 DEF Kept, cache, Cached
  <2>6. views' = views /\ ~Readable(request.addr, End(request))
    BY <1>9, <2>1 DEF UncachedEnd
  <2> QED
    BY <1>7, <2>5, <2>6 DEF AnswersExactly
<1> QED
  BY <1>8, <1>9

\* Between two calls.
LEMMA IdleCall ==
  ASSUME CallRight, pc = "idle", UNCHANGED call
  PROVE  CallRight' /\ request = None /\ request' = None
BY DEF CallRight, AtRest, call, history

LEMMA IdleTally ==
  ASSUME Kept, request = None
  PROVE  Tallied(views, stitched_bytes) /\ stitched_bytes \in Nat
<1>1. Tallied(views, stitched_bytes - Pending) /\ stitched_bytes \in Nat
  BY KeptTypes
<1>2. Pending = 0
  BY DEF Pending
<1>3. \A n \in Nat : n - 0 = n
  OBVIOUS
<1> QED
  BY <1>1, <1>2, <1>3

LEMMA IdleKept ==
  ASSUME bad' \in BadSets, ceiling' \in Ceilings, CacheRight(blocks', order', bad'), ViewsRight(views', Cached'),
         stitched_bytes' \in Nat, Tallied(views', stitched_bytes'), request' = None
  PROVE  Kept'
<1>1. Pending' = 0
  BY DEF Pending
<1>2. \A n \in Nat : n - 0 = n
  OBVIOUS
<1>3. Tallied(views', stitched_bytes' - Pending')
  BY <1>1, <1>2
<1> QED
  BY <1>3 DEF Kept

LEMMA CopyViewStep ==
  ASSUME Kept, CallRight, NEW v \in Views, NEW w \in Views, CopyView(v, w)
  PROVE  Kept' /\ CallRight'
<1>1. /\ pc = "idle" /\ views[v] # EmptyView /\ views[w] = EmptyView
      /\ views' = [views EXCEPT ![w] = views[v]]
      /\ UNCHANGED <<bad, ceiling, cache, stitched_bytes, call>>
  BY DEF CopyView, Free
<1>2. CallRight' /\ request = None /\ request' = None
  BY <1>1, IdleCall
<1>3. Tallied(views, stitched_bytes) /\ stitched_bytes \in Nat
  BY <1>2, IdleTally
<1>4. CacheRight(blocks, order, bad) /\ ViewsRight(views, Cached)
  BY KeptTypes
<1>5. Shows(views[v], Cached)
  BY <1>1, <1>4 DEF ViewsRight
<1>6. ViewsRight(views', Cached) /\ Replaced(views', w, views[v])
  BY <1>1, <1>4, <1>5, GivenRight
<1>7. Tallied(views', stitched_bytes)
  BY <1>1, <1>3, <1>6, SameBuffers
<1>8. Kept'
  BY <1>1, <1>2, <1>3, <1>4, <1>6, <1>7, IdleKept DEF cache, Cached, Kept
<1> QED
  BY <1>2, <1>8

LEMMA DropViewStep ==
  ASSUME Kept, CallRight, NEW v \in Views, DropView(v)
  PROVE  Kept' /\ CallRight' /\ UnderCeiling'
<1> DEFINE vs == [views EXCEPT ![v] = EmptyView]
           shared == \E w \in Views : vs[w].owner = views[v].owner
           freed == IF shared THEN 0 ELSE views[v].owner.size
           tally == IF shared THEN stitched_bytes ELSE Uncounted(views[v].owner.size, stitched_bytes)
           gone == Trimmed(vs, None, tally)
<1>1. /\ pc = "idle" /\ views[v] # EmptyView
      /\ views' = vs /\ stitched_bytes' = tally /\ Drop(gone)
      /\ UNCHANGED <<bad, ceiling, call>>
  BY DEF DropView, Free
<1>2. CallRight' /\ request = None /\ request' = None
  BY <1>1, IdleCall
<1>3. Tallied(views, stitched_bytes) /\ stitched_bytes \in Nat
  BY <1>2, IdleTally
<1>4. CacheRight(blocks, order, bad) /\ ViewsRight(views, Cached) /\ ceiling \in Nat
  BY KeptTypes
<1>5. ViewsRight(vs, Cached) /\ Replaced(vs, v, EmptyView)
  BY <1>4, GivenRight
<1> HIDE DEF vs
<1>6. freed \in Nat /\ freed <= stitched_bytes /\ Tallied(vs, stitched_bytes - freed)
  BY <1>1, <1>3, <1>4, <1>5, OneViewLess
<1>7. tally = stitched_bytes - freed /\ tally \in Nat
  <2>1. CASE shared
    BY <1>3, <2>1
  <2>2. CASE ~shared
    <3>1. freed = views[v].owner.size /\ tally = Uncounted(freed, stitched_bytes)
      BY <2>2
    <3> HIDE DEF freed, tally
    <3> QED
      BY <1>3, <1>6, <3>1 DEF Uncounted
  <2> QED
    BY <2>1, <2>2
<1> HIDE DEF freed, tally
<1>8. \A i \in gone : ~InUse(i, vs, None)
  <2>1. TrimRight(gone, vs, None, tally)
    BY <1>4, <1>7, TrimmedRight
  <2> QED
    BY <2>1 DEF TrimRight
<1> HIDE DEF gone
<1>9. CacheRight(blocks', order', bad') /\ ViewsRight(vs, Cached')
  BY <1>1, <1>4, <1>5, <1>8, DropKept
<1>10. Tallied(views', stitched_bytes')
  BY <1>1, <1>6, <1>7
<1>11. Kept'
  BY <1>1, <1>2, <1>7, <1>9, <1>10, IdleKept DEF Kept
<1>12. UnderCeiling'
  <2>1. Drop(Trimmed(vs, None, tally)) /\ stitched_bytes' <= tally
    BY <1>1, <1>7 DEF gone
  <2> QED
    BY <1>1, <1>5, <1>7, <2>1, TrimEnds
<1> QED
  BY <1>2, <1>11, <1>12

LEMMA MinifyStep ==
  ASSUME Kept, CallRight, Minify
  PROVE  Kept' /\ CallRight'
<1> DEFINE gone == {i \in Cached : ~InUse(i, views, None)}
<1>1. /\ pc = "idle" /\ Drop(gone)
      /\ UNCHANGED <<bad, ceiling, stitched_bytes, views, call>>
  BY DEF Minify
<1>2. CallRight' /\ request = None /\ request' = None
  BY <1>1, IdleCall
<1>3. Tallied(views, stitched_bytes) /\ stitched_bytes \in Nat
  BY <1>2, IdleTally
<1>4. CacheRight(blocks, order, bad) /\ ViewsRight(views, Cached)
  BY KeptTypes
<1>5. \A i \in gone : ~InUse(i, views, None)
  OBVIOUS
<1> HIDE DEF gone
<1>6. CacheRight(blocks', order', bad') /\ ViewsRight(views, Cached')
  BY <1>1, <1>4, <1>5, DropKept
<1>7. Kept'
  BY <1>1, <1>2, <1>3, <1>6, IdleKept DEF Kept
<1> QED
  BY <1>2, <1>7

LEMMA NothingStep ==
  ASSUME Kept, CallRight, UNCHANGED vars
  PROVE  Kept' /\ CallRight'
<1>1. Kept'
  BY KeptStays DEF vars, call
<1>2. CallRight'
  BY DEF vars, call, history, cache, CallRight, AtRest, InCall, Index, Cached
<1> QED
  BY <1>1, <1>2

LEMMA StepKeeps ==
  ASSUME Kept, CallRight, [Next]_vars
  PROVE  Kept' /\ CallRight'
<1>1. CASE ReadStep
  BY <1>1, ReadRunStep, GetHitStep, GetFromRunStep, GetAloneStep, ReturnBlockStep, CopyBlockStep,
     ReturnStitchedStep, ReadUncachedStep DEF ReadStep
<1>2. CASE \E r \in Requests : CallRead(r)
  BY <1>2, CallReadStep
<1>3. CASE \E v, w \in Views : CopyView(v, w)
  BY <1>3, CopyViewStep
<1>4. CASE \E v \in Views : DropView(v)
  BY <1>4, DropViewStep
<1>5. CASE Minify
  BY <1>5, MinifyStep
<1>6. CASE UNCHANGED vars
  BY <1>6, NothingStep
<1> QED
  BY <1>1, <1>2, <1>3, <1>4, <1>5, <1>6 DEF Next
----------------------------------------------------------------------------
(* What is announced. *)

\* Block i is in the range of blocks and not in the cache.
Missing(i, from, to) == i \in from..(to - 1) /\ i \notin Cached

\* The blocks from i up to j are missing, and neither of those beside them is.
Longest(i, j, from, to) ==
  /\ i < j
  /\ \A k \in i..(j - 1) : Missing(k, from, to)
  /\ ~Missing(i - 1, from, to)
  /\ ~Missing(j, from, to)

LEMMA BlockOfAt ==
  ASSUME NEW i \in Nat
  PROVE  BlockOf(At(i)) = i
<1>1. At(i) \in Nat /\ BlockBytes \in Nat /\ BlockBytes > 0
  BY AtNext, CacheAssumption
<1>2. At(i) <= At(i) /\ At(i) < At(i) + BlockBytes
  BY <1>1
<1> QED
  BY <1>1, <1>2, BlockOfUnique

LEMMA UncachedRight ==
  ASSUME NEW from \in Nat, NEW to \in Nat, NEW h
  PROVE  h \in UncachedRuns(At(from), At(to)) <=>
           \E i, j \in from..to : h = Span(At(i), At(j)) /\ Longest(i, j, from, to)
<1>1. BlockOf(At(from)) = from /\ BlockOf(At(to)) = to
  BY BlockOfAt
<1>2. h \in UncachedRuns(At(from), At(to)) <=>
        /\ h \in {Span(i * BlockBytes, j * BlockBytes) : i, j \in from..to}
        /\ Longest(BlockOf(h.first), BlockOf(h.last), from, to)
  BY <1>1 DEF UncachedRuns, Longest, Missing
<1>3. h \in {Span(i * BlockBytes, j * BlockBytes) : i, j \in from..to} <=>
        \E i, j \in from..to : h = Span(At(i), At(j))
  BY DEF At
<1>4. ASSUME NEW i \in from..to, NEW j \in from..to, h = Span(At(i), At(j))
      PROVE  BlockOf(h.first) = i /\ BlockOf(h.last) = j
  <2>1. h.first = At(i) /\ h.last = At(j) /\ i \in Nat /\ j \in Nat
    BY <1>4 DEF Span
  <2> QED
    BY <2>1, BlockOfAt
<1> QED
  BY <1>2, <1>3, <1>4

\* A missing block lies in a longest run of them.
LEMMA LongestExists ==
  ASSUME NEW from \in Nat, NEW to \in Nat, NEW k, Missing(k, from, to)
  PROVE  \E i, j \in from..to : Longest(i, j, from, to) /\ i <= k /\ k < j
<1>1. k \in Nat /\ from <= k /\ k < to
  BY DEF Missing
<1> DEFINE Before == {i \in from..k : \A m \in i..k : Missing(m, from, to)}
           After == {j \in (k + 1)..to : ~Missing(j, from, to)}
<1>2. k \in Before /\ Before \subseteq Nat
  BY <1>1
<1>3. to \in After /\ After \subseteq Nat
  BY <1>1 DEF Missing
<1>4. PICK i \in Before : \A x \in Before : i <= x
  <2> HIDE DEF Before
  <2> QED
    BY <1>2, LeastNatural
<1>5. PICK j \in After : \A x \in After : j <= x
  <2> HIDE DEF After
  <2> QED
    BY <1>3, LeastNatural
<1>6. i \in from..k /\ (\A m \in i..k : Missing(m, from, to)) /\ j \in (k + 1)..to /\ ~Missing(j, from, to)
  OBVIOUS
<1>7. ~Missing(i - 1, from, to)
  <2> SUFFICES ASSUME Missing(i - 1, from, to)
               PROVE  FALSE
    OBVIOUS
  <2>1. i - 1 \in from..k
    BY <1>1, <1>6 DEF Missing
  <2>2. \A m \in (i - 1)..k : m = i - 1 \/ m \in i..k
    BY <1>1, <1>6
  <2>3. i - 1 \in Before
    BY <1>6, <2>1, <2>2
  <2> QED
    BY <1>1, <1>4, <1>6, <2>3
<1>8. \A m \in i..(j - 1) : Missing(m, from, to)
  <2> SUFFICES ASSUME NEW m \in i..(j - 1), ~Missing(m, from, to)
               PROVE  FALSE
    OBVIOUS
  <2>1. m \in (k + 1)..to
    BY <1>1, <1>6
  <2>2. m \in After
    BY <2>1
  <2> QED
    BY <1>1, <1>5, <1>6, <2>2
<1>9. i \in from..to /\ j \in from..to /\ i < j /\ i <= k /\ k < j
  BY <1>1, <1>6
<1>10. Longest(i, j, from, to)
  BY <1>6, <1>7, <1>8, <1>9 DEF Longest
<1> QED
  BY <1>9, <1>10

\* Two longest runs that touch are one.
LEMMA LongestApart ==
  ASSUME NEW from \in Nat, NEW to \in Nat,
         NEW i \in Nat, NEW j \in Nat, NEW a \in Nat, NEW b \in Nat,
         Longest(i, j, from, to), Longest(a, b, from, to),
         NEW k \in Nat, i <= k, k < j, a <= k + 1, k + 1 < b
  PROVE  i = a /\ j = b
<1>1. \A m \in i..(j - 1) : Missing(m, from, to)
  BY DEF Longest
<1>2. \A m \in a..(b - 1) : Missing(m, from, to)
  BY DEF Longest
<1>3. ~Missing(i - 1, from, to) /\ ~Missing(j, from, to) /\ ~Missing(a - 1, from, to) /\ ~Missing(b, from, to)
  BY DEF Longest
<1>4. k + 1 # j
  <2>1. k + 1 \in a..(b - 1)
    OBVIOUS
  <2> QED
    BY <1>2, <1>3, <2>1
<1>5. ~(i < a)
  <2> SUFFICES ASSUME i < a
               PROVE  FALSE
    OBVIOUS
  <2>1. a - 1 \in i..(j - 1)
    BY <1>4
  <2> QED
    BY <1>1, <1>3, <2>1
<1>6. ~(a < i)
  <2> SUFFICES ASSUME a < i
               PROVE  FALSE
    OBVIOUS
  <2>1. i - 1 \in a..(b - 1)
    OBVIOUS
  <2> QED
    BY <1>2, <1>3, <2>1
<1>7. ~(j < b)
  <2> SUFFICES ASSUME j < b
               PROVE  FALSE
    OBVIOUS
  <2>1. j \in a..(b - 1)
    BY <1>4
  <2> QED
    BY <1>2, <1>3, <2>1
<1>8. ~(b < j)
  <2> SUFFICES ASSUME b < j
               PROVE  FALSE
    OBVIOUS
  <2>1. b \in i..(j - 1)
    OBVIOUS
  <2> QED
    BY <1>1, <1>3, <2>1
<1> QED
  BY <1>5, <1>6, <1>7, <1>8

\* Which blocks lie in a range of whole blocks.
LEMMA InsideSpan ==
  ASSUME NEW i \in Nat, NEW j \in Nat, NEW k \in Nat
  PROVE  Inside(k, Span(At(i), At(j))) <=> i <= k /\ k < j
<1>1. At(i) \in Nat /\ At(j) \in Nat /\ At(k) \in Nat /\ BlockBytes \in Nat /\ BlockBytes > 0
  BY AtNext, CacheAssumption
<1>2. i < k => At(i) + BlockBytes <= At(k)
  BY AtGrows
<1>3. k < i => At(k) + BlockBytes <= At(i)
  BY AtGrows
<1>4. k < j => At(k) + BlockBytes <= At(j)
  BY AtGrows
<1>5. j < k => At(j) + BlockBytes <= At(k)
  BY AtGrows
<1>6. Inside(k, Span(At(i), At(j))) <=> At(i) <= At(k) /\ At(k) + BlockBytes <= At(j)
  BY DEF Inside, Span
<1>7. i <= k <=> At(i) <= At(k)
  <2>1. CASE i < k
    BY <1>1, <1>2, <2>1
  <2>2. CASE k < i
    BY <1>1, <1>3, <2>2
  <2>3. CASE i = k
    BY <1>1, <2>3
  <2> QED
    BY <2>1, <2>2, <2>3
<1>8. k < j <=> At(k) + BlockBytes <= At(j)
  <2>1. CASE j < k
    BY <1>1, <1>5, <2>1
  <2>2. CASE k < j
    BY <1>4, <2>2
  <2>3. CASE j = k
    BY <1>1, <2>3
  <2> QED
    BY <2>1, <2>2, <2>3
<1> QED
  BY <1>6, <1>7, <1>8

\* What is announced before a request is read.
Announced(hs, r) ==
  /\ HintsRight(hs, r)
  /\ Covered(hs, Cached, {}, r)
  /\ Few(r) => \A h \in hs : \A k \in Nat : Inside(k, h) => k \notin Cached

LEMMA UncachedAnnounced ==
  ASSUME NEW r, Asked(r)
  PROVE  Announced(UncachedRuns(At(BlockOf(r.addr)), At(BlockOf(End(r) - 1) + 1)), r)
<1> DEFINE from == BlockOf(r.addr)
           last == BlockOf(End(r) - 1)
           to == last + 1
           hs == UncachedRuns(At(from), At(to))
<1>1. from \in Nat /\ last \in Nat /\ from <= last /\ to \in Nat
  BY AskedRight
<1> HIDE DEF from, last
<1>2. \A h : h \in hs <=> \E i, j \in from..to : h = Span(At(i), At(j)) /\ Longest(i, j, from, to)
  <2> HIDE DEF to
  <2> QED
    BY <1>1, UncachedRight
<1> HIDE DEF hs
<1>3. ASSUME NEW h \in hs
      PROVE  \E i, j \in Nat : i < j /\ from <= i /\ j <= last + 1 /\ h = Span(At(i), At(j))
                               /\ Longest(i, j, from, to)
  <2>1. PICK i \in from..to, j \in from..to : h = Span(At(i), At(j)) /\ Longest(i, j, from, to)
    BY <1>2
  <2>2. i \in Nat /\ j \in Nat /\ from <= i /\ j <= last + 1
    BY <1>1, <2>1
  <2>3. i < j
    BY <2>1 DEF Longest
  <2> QED
    BY <2>1, <2>2, <2>3
<1>4. ASSUME NEW h \in hs, NEW g \in hs, NEW k \in Nat, Inside(k, h), Inside(k + 1, g)
      PROVE  h = g
  <2>1. PICK i \in Nat, j \in Nat : h = Span(At(i), At(j)) /\ Longest(i, j, from, to)
    BY <1>3
  <2>2. PICK a \in Nat, b \in Nat : g = Span(At(a), At(b)) /\ Longest(a, b, from, to)
    BY <1>3
  <2>3. i <= k /\ k < j
    BY <1>4, <2>1, InsideSpan
  <2>4. a <= k + 1 /\ k + 1 < b
    <3>1. k + 1 \in Nat
      OBVIOUS
    <3> QED
      BY <1>4, <2>2, <3>1, InsideSpan
  <2>5. i = a /\ j = b
    <3> HIDE DEF to
    <3> QED
      BY <1>1, <2>1, <2>2, <2>3, <2>4, LongestApart
  <2> QED
    BY <2>1, <2>2, <2>5
<1>5. HintsRight(hs, r)
  BY <1>3, <1>4 DEF HintsRight, from, last
<1>6. ASSUME NEW k \in from..last, k \notin Cached
      PROVE  \E h \in hs : Inside(k, h)
  <2>1. Missing(k, from, to)
    BY <1>1, <1>6 DEF Missing
  <2>2. PICK i \in from..to, j \in from..to : Longest(i, j, from, to) /\ i <= k /\ k < j
    <3> HIDE DEF to
    <3> QED
      BY <1>1, <2>1, LongestExists
  <2>3. Span(At(i), At(j)) \in hs
    BY <1>2, <2>2
  <2>4. Inside(k, Span(At(i), At(j)))
    <3>1. i \in Nat /\ j \in Nat /\ k \in Nat
      BY <1>1
    <3> QED
      BY <2>2, <3>1, InsideSpan
  <2> QED
    BY <2>3, <2>4
<1>7. Covered(hs, Cached, {}, r)
  BY <1>6 DEF Covered, from, last
<1>8. ASSUME NEW h \in hs, NEW k \in Nat, Inside(k, h)
      PROVE  k \notin Cached
  <2>1. PICK i \in Nat, j \in Nat : h = Span(At(i), At(j)) /\ Longest(i, j, from, to)
    BY <1>3
  <2>2. i <= k /\ k < j
    BY <1>8, <2>1, InsideSpan
  <2>3. Missing(k, from, to)
    BY <2>1, <2>2 DEF Longest
  <2> QED
    BY <2>3 DEF Missing
<1>9. Announced(hs, r)
  BY <1>5, <1>7, <1>8 DEF Announced
<1> QED
  BY <1>9 DEF hs, to, from, last

LEMMA AnnounceRight ==
  ASSUME NEW r, Asked(r)
  PROVE  Announced(AnnounceRuns(r), r)
<1> DEFINE from == BlockOf(r.addr)
           last == BlockOf(End(r) - 1)
           to == last + 1
           first == r.addr - (r.addr % BlockBytes)
           end == BlockEnd(End(r))
           max_end == MaxAddress - BlockBytes
<1>1. /\ from \in Nat /\ last \in Nat /\ from <= last /\ to \in Nat
      /\ r.addr \in Nat /\ End(r) \in Nat /\ End(r) > 0
  <2>1. /\ r.addr \in Nat /\ r.length \in Nat \ {0} /\ End(r) = r.addr + r.length
        /\ from \in Nat /\ last \in Nat /\ from <= last
    BY AskedRight
  <2> HIDE DEF from, last
  <2> QED
    BY <2>1
<1>2. first = At(from) /\ r.addr < At(from) + BlockBytes /\ At(from) <= r.addr
  <2>1. /\ At(from) <= r.addr /\ r.addr < At(from) + BlockBytes
        /\ r.addr % BlockBytes = r.addr - At(from) /\ At(from) \in Nat
    BY <1>1, BlockOfRight, AtNext
  <2> DEFINE off == r.addr % BlockBytes
  <2>2. off = r.addr - At(from)
    BY <2>1
  <2> HIDE DEF off, from
  <2>3. r.addr - off = At(from)
    BY <1>1, <2>1, <2>2
  <2> QED
    BY <2>1, <2>3 DEF off
<1>3. end = At(to)
  BY <1>1, BlockEndRight
<1>4. AnnounceRuns(r) =
        IF r.length = 0 \/ r.addr > max_end \/ r.length > max_end - r.addr THEN {}
        ELSE IF (end - first) \div BlockBytes > MaxChecked THEN {Span(first, end)}
        ELSE UncachedRuns(first, end)
  BY DEF AnnounceRuns
<1>5. Announced({}, r)
  BY DEF Announced, HintsRight, Covered
<1>6. Announced(UncachedRuns(first, end), r)
  BY <1>2, <1>3, UncachedAnnounced
<1>7. ASSUME (end - first) \div BlockBytes > MaxChecked
      PROVE  Announced({Span(first, end)}, r)
  <2> DEFINE h == Span(At(from), At(to))
  <2>1. Span(first, end) = h
    BY <1>2, <1>3
  <2> HIDE DEF from, last, first, end
  <2>2. \A k \in Nat : Inside(k, h) <=> from <= k /\ k < to
    <3> HIDE DEF to
    <3> QED
      BY <1>1, InsideSpan
  <2>3. from < to /\ to <= last + 1
    BY <1>1
  <2>4. HintsRight({h}, r)
    <3>1. \E i, j \in Nat : i < j /\ from <= i /\ j <= last + 1 /\ h = Span(At(i), At(j))
      BY <1>1, <2>3
    <3> HIDE DEF h
    <3> QED
      BY <3>1 DEF HintsRight, from, last
  <2>5. Covered({h}, Cached, {}, r)
    <3>1. \A k \in from..last : Inside(k, h)
      <4> HIDE DEF h
      <4> QED
        BY <1>1, <2>2
    <3> HIDE DEF h
    <3> QED
      BY <3>1 DEF Covered, from, last
  <2>6. ~Few(r)
    <3> DEFINE d == to - from
    <3>1. d \in Nat /\ to = from + d
      BY <1>1
    <3> HIDE DEF d, to
    <3>2. At(to) = At(from) + At(d) /\ At(from) \in Nat /\ At(d) \in Nat
      BY <1>1, <3>1, AtSum, AtNext
    <3>3. BlockOf(At(d)) = d
      BY <3>1, BlockOfAt
    <3>4. end - first = At(d)
      BY <1>2, <1>3, <3>2
    <3>5. d > MaxChecked
      BY <1>7, <3>3, <3>4 DEF BlockOf
    <3>6. MaxChecked \in Nat /\ BlockBytes \in Nat /\ At(MaxChecked) \in Nat
      BY CacheAssumption, AtNext
    <3>7. At(MaxChecked) + BlockBytes <= At(d)
      BY <3>1, <3>5, <3>6, AtGrows
    <3>8. end - r.addr > At(MaxChecked)
      BY <1>1, <1>2, <1>3, <3>2, <3>6, <3>7
    <3> QED
      BY <1>1, <1>3, <3>2, <3>6, <3>8 DEF Few, At, end
  <2>7. Announced({h}, r)
    <3> HIDE DEF h
    <3> QED
      BY <2>4, <2>5, <2>6 DEF Announced
  <2> QED
    BY <2>1, <2>7
<1> HIDE DEF first, end, max_end
<1> QED
  BY <1>4, <1>5, <1>6, <1>7

----------------------------------------------------------------------------
(* What is read. *)

\* Blocks that follow each other and are all announced are in one range.
LEMMA SameHint ==
  ASSUME NEW hs, NEW r, HintsRight(hs, r), NEW i \in Nat, NEW n \in Nat, n > 0,
         \A k \in 0..(n - 1) : \E h \in hs : Inside(i + k, h)
  PROVE  \E h \in hs : \A k \in 0..(n - 1) : Inside(i + k, h)
<1>1. PICK h \in hs : Inside(i + 0, h)
  OBVIOUS
<1> DEFINE Wrong == {k \in 0..(n - 1) : ~Inside(i + k, h)}
<1>2. ASSUME Wrong # {}
      PROVE  FALSE
  <2>1. Wrong \subseteq Nat
    OBVIOUS
  <2> HIDE DEF Wrong
  <2>2. PICK k \in Wrong : \A m \in Wrong : k <= m
    BY <1>2, <2>1, LeastNatural
  <2>3. k \in 0..(n - 1) /\ ~Inside(i + k, h)
    BY <2>2 DEF Wrong
  <2>4. k # 0
    BY <1>1, <2>3
  <2>5. Inside(i + (k - 1), h)
    <3>1. k - 1 \in 0..(n - 1) /\ ~(k <= k - 1)
      BY <2>3, <2>4
    <3> QED
      BY <2>2, <3>1 DEF Wrong
  <2>6. PICK g \in hs : Inside(i + k, g)
    BY <2>3
  <2> DEFINE m == i + (k - 1)
  <2>7. m \in Nat /\ m + 1 = i + k
    BY <2>3, <2>4
  <2>8. Inside(m, h) /\ Inside(m + 1, g)
    BY <2>5, <2>6, <2>7
  <2> HIDE DEF m
  <2>9. h = g
    BY <2>7, <2>8 DEF HintsRight
  <2> QED
    BY <2>3, <2>6, <2>9
<1> QED
  BY <1>2

\* A read of whole blocks touches each of them.
LEMMA SpanMeets ==
  ASSUME NEW i \in Nat, NEW n \in Nat, NEW k \in Nat, i <= k, k < i + n
  PROVE  Meets(Span(At(i), At(i + n)), k)
<1> DEFINE j == i + n
<1>1. j \in Nat /\ k < j
  OBVIOUS
<1> HIDE DEF j
<1>2. At(i) <= At(k) /\ At(k) + BlockBytes <= At(j)
  <2>1. Inside(k, Span(At(i), At(j)))
    BY <1>1, InsideSpan
  <2> QED
    BY <2>1 DEF Inside, Span
<1>3. /\ At(k + 1) = At(k) + BlockBytes /\ At(k) \in Nat /\ At(i) \in Nat /\ At(j) \in Nat
      /\ BlockBytes \in Nat /\ BlockBytes > 0
  BY <1>1, AtNext, CacheAssumption
<1>4. At(i) < At(k + 1) /\ At(k) < At(j)
  BY <1>2, <1>3
<1> QED
  BY <1>4 DEF Meets, Span, At, j

Reads == [first : Int, last : Int]

\* One more read of the disk.
LEMMA ReadMore ==
  ASSUME NEW d \in Seq(Reads), NEW s \in Reads
  PROVE  /\ Append(d, s) \in Seq(Reads)
         /\ Len(Append(d, s)) = Len(d) + 1 /\ Len(d) \in Nat
         /\ \A k : WasRead(d, k) \/ Meets(s, k) => WasRead(Append(d, s), k)
         /\ \A hs, gone :
              DiskAnnounced(d, hs, gone)
                /\ (hs # {} => (\E h \in hs : Within(s, h)) \/ \E i \in gone : Meets(s, i)) =>
              DiskAnnounced(Append(d, s), hs, gone)
<1> DEFINE e == Append(d, s)
<1>1. e \in Seq(Reads) /\ Len(e) = Len(d) + 1 /\ Len(d) \in Nat
  OBVIOUS
<1>2. DOMAIN d = 1..Len(d) /\ DOMAIN e = 1..(Len(d) + 1)
  BY <1>1
<1>3. (\A n \in DOMAIN d : e[n] = d[n]) /\ e[Len(d) + 1] = s
  BY <1>2
<1> HIDE DEF e
<1>4. DOMAIN d \subseteq DOMAIN e /\ Len(d) + 1 \in DOMAIN e
      /\ \A n \in DOMAIN e : n \in DOMAIN d \/ n = Len(d) + 1
  BY <1>1, <1>2
<1>5. \A k : WasRead(d, k) \/ Meets(s, k) => WasRead(e, k)
  BY <1>3, <1>4 DEF WasRead
<1>6. ASSUME NEW hs, NEW gone, DiskAnnounced(d, hs, gone),
             hs # {} => (\E h \in hs : Within(s, h)) \/ \E i \in gone : Meets(s, i)
      PROVE  DiskAnnounced(e, hs, gone)
  <2> SUFFICES ASSUME hs # {}, NEW n \in DOMAIN e
               PROVE  (\E h \in hs : Within(e[n], h)) \/ \E i \in gone : Meets(e[n], i)
    BY DEF DiskAnnounced
  <2>1. CASE n \in DOMAIN d
    <3>1. (\E h \in hs : Within(d[n], h)) \/ \E i \in gone : Meets(d[n], i)
      BY <1>6, <2>1 DEF DiskAnnounced
    <3> QED
      BY <1>3, <2>1, <3>1
  <2>2. CASE n = Len(d) + 1
    BY <1>3, <1>6, <2>2
  <2> QED
    BY <1>4, <2>1, <2>2
<1> QED
  BY <1>1, <1>5, <1>6 DEF e

\* A read of missing blocks of the request was announced, or one of the blocks
\* was dropped meanwhile.
LEMMA ReadWasAnnounced ==
  ASSUME NEW r, NEW hs, NEW cached, NEW gone, HintsRight(hs, r), Covered(hs, cached, gone, r), hs # {},
         NEW i \in Nat, NEW n \in Nat, n > 0,
         \A k \in 0..(n - 1) : i + k \in BlockOf(r.addr)..BlockOf(End(r) - 1) /\ i + k \notin cached
  PROVE  LET s == Span(At(i), At(i + n))
         IN  (\E h \in hs : Within(s, h)) \/ \E k \in gone : Meets(s, k)
<1> DEFINE s == Span(At(i), At(i + n))
<1>1. \A k \in 0..(n - 1) : i + k \in gone \/ \E h \in hs : Inside(i + k, h)
  BY DEF Covered
<1>2. CASE \E k \in 0..(n - 1) : i + k \in gone
  <2>1. PICK k \in 0..(n - 1) : i + k \in gone
    BY <1>2
  <2>2. i + k \in Nat /\ i <= i + k /\ i + k < i + n
    OBVIOUS
  <2>3. Meets(s, i + k)
    BY <2>2, SpanMeets
  <2> QED
    BY <2>1, <2>3
<1>3. CASE \A k \in 0..(n - 1) : i + k \notin gone
  <2>1. PICK h \in hs : \A k \in 0..(n - 1) : Inside(i + k, h)
    BY <1>1, <1>3, SameHint
  <2>2. Inside(i + 0, h) /\ Inside(i + (n - 1), h)
    BY <2>1
  <2> DEFINE m == i + (n - 1)
             e == i + n
  <2>3. m \in Nat /\ m + 1 = e /\ Inside(m, h) /\ i + 0 = i
    BY <2>2
  <2> HIDE DEF m, e
  <2>4. At(e) = At(m) + BlockBytes
    BY <2>3, AtNext
  <2>5. h.first <= At(i) /\ At(e) <= h.last
    BY <2>2, <2>3, <2>4 DEF Inside
  <2>6. Within(s, h)
    BY <2>5 DEF Within, Span, e
  <2> QED
    BY <2>6
<1> QED
  BY <1>2, <1>3

----------------------------------------------------------------------------
(* Each step keeps what is asked of the disk right. *)

Behind(k) == k \in Cached \/ InRun(k) \/ Passed(k)

\* The call goes on: what is newly behind it was read.
LEMMA PlanGoesOn ==
  ASSUME PlanRight, request # None, request' = request, hinted' = hinted,
         disk' \in Seq(Reads), \A k : WasRead(disk, k) => WasRead(disk', k),
         dropped \subseteq dropped', Cached \subseteq Cached' \cup dropped',
         DiskAnnounced(disk', hinted, dropped'),
         \A h \in hinted : \A k \in Nat : Inside(k, h) /\ Behind(k)' => Behind(k) \/ WasRead(disk', k),
         ReadsCounted'
  PROVE  PlanRight'
<1>1. /\ HintsRight(hinted, request) /\ Covered(hinted, Cached, dropped, request)
      /\ AnnouncedRead
  BY DEF PlanRight
<1>2. Covered(hinted, Cached', dropped', request)
  BY <1>1 DEF Covered
<1>3. AnnouncedRead'
  <2> SUFFICES ASSUME Few(request), NEW h \in hinted, NEW k \in Nat, Inside(k, h), Behind(k)'
               PROVE  WasRead(disk', k)
    BY DEF AnnouncedRead, Behind
  <2>1. CASE Behind(k)
    BY <1>1, <2>1 DEF AnnouncedRead, Behind
  <2> QED
    BY <2>1
<1> QED
  BY <1>1, <1>2, <1>3 DEF PlanRight, Reads

\* Between two calls nothing was read.
LEMMA PlanOver ==
  ASSUME request' = None, disk' = <<>>
  PROVE  PlanRight'
<1>1. <<>> \in Seq([first : Int, last : Int])
  OBVIOUS
<1> QED
  BY <1>1 DEF PlanRight

LEMMA CallReadPlan ==
  ASSUME Kept, CallRight, NEW r \in Requests, CallRead(r), CallRight'
  PROVE  PlanRight'
<1>1. /\ pc = "idle" /\ pc' = "get" /\ request' = r /\ cur' = r.addr /\ hinted' = AnnounceRuns(r)
      /\ UNCHANGED <<blocks, run, failed, dropped, disk>>
  BY DEF CallRead, cache
<1>2. dropped = {} /\ disk = <<>> /\ run = NoRun /\ failed = FALSE
  BY <1>1 DEF CallRight, AtRest
<1>3. Asked(r)
  BY <1>1 DEF CallRight, InCall
<1>4. r.addr \in Nat /\ BlockOf(r.addr) \in Nat
  BY <1>3, AskedRight
<1>5. Announced(hinted', r)
  BY <1>1, <1>3, AnnounceRight
<1>6. HintsRight(hinted', r) /\ Covered(hinted', Cached', dropped', r)
  BY <1>1, <1>2, <1>5 DEF Announced, Cached
<1>7. disk' \in Seq([first : Int, last : Int]) /\ DOMAIN disk' = {} /\ Len(disk') = 0
  BY <1>1, <1>2
<1>8. DiskAnnounced(disk', hinted', dropped')
  BY <1>7 DEF DiskAnnounced
<1>9. AnnouncedRead'
  <2> SUFFICES ASSUME Few(r), NEW h \in hinted', NEW k \in Nat, Inside(k, h), k \in Cached \/ InRun(k)' \/ Passed(k)'
               PROVE  FALSE
    BY <1>1 DEF AnnouncedRead, Cached
  <2>1. k \notin Cached
    BY <1>5 DEF Announced
  <2>2. ~InRun(k)'
    <3>1. run'.first = 0 /\ run'.count = 0
      BY <1>1, <1>2 DEF NoRun
    <3> QED
      BY <3>1 DEF InRun
  <2>3. k < BlockOf(r.addr)
    BY <1>1, <2>1, <2>2 DEF Passed, Index
  <2>4. PICK i \in Nat, j \in Nat : i < j /\ BlockOf(r.addr) <= i /\ h = Span(At(i), At(j))
    BY <1>6 DEF HintsRight
  <2>5. i <= k
    BY <2>4, InsideSpan
  <2> QED
    BY <1>4, <2>3, <2>4, <2>5
<1>10. ReadsCounted'
  <2>1. Index' = BlockOf(r.addr) /\ BlockOf(request'.addr) = BlockOf(r.addr) /\ pc' = "get"
    BY <1>1 DEF Index
  <2>2. ReadsCounted' <=> Len(disk') <= BlockOf(r.addr) - BlockOf(r.addr) + (IF failed' THEN 1 ELSE 0)
                                      + (IF InRun(Index)' THEN 1 ELSE 0)
    BY <2>1 DEF ReadsCounted
  <2> QED
    BY <1>4, <1>7, <2>2
<1> QED
  BY <1>1, <1>6, <1>7, <1>8, <1>9, <1>10 DEF PlanRight

\* What a call in progress knows.
LEMMA PlanNow ==
  ASSUME PlanRight, CallRight, pc # "idle"
  PROVE  /\ InCall /\ request # None
         /\ disk \in Seq(Reads) /\ Len(disk) \in Nat
         /\ HintsRight(hinted, request) /\ Covered(hinted, Cached, dropped, request)
         /\ DiskAnnounced(disk, hinted, dropped) /\ AnnouncedRead /\ ReadsCounted
<1>1. InCall /\ request # None
  BY InCallNow
<1>2. disk \in Seq(Reads)
  BY DEF PlanRight, Reads
<1> QED
  BY <1>1, <1>2 DEF PlanRight

\* The blocks from Index on are read in one go.
LEMMA ReadPlan ==
  ASSUME Kept, CallRight, PlanRight, pc = "get", Index \notin Cached, NEW n \in Nat, n > 0,
         \A k \in 1..(n - 1) : Index + k <= LastIndex /\ Index + k \notin Cached,
         disk' = Append(disk, Span(At(Index), At(Index + n)))
  PROVE  /\ disk' \in Seq(Reads) /\ Len(disk') = Len(disk) + 1
         /\ \A k : WasRead(disk, k) => WasRead(disk', k)
         /\ DiskAnnounced(disk', hinted, dropped)
         /\ \A k \in Nat : Index <= k /\ k < Index + n => WasRead(disk', k)
<1>1. /\ InCall /\ disk \in Seq(Reads) /\ HintsRight(hinted, request)
      /\ Covered(hinted, Cached, dropped, request) /\ DiskAnnounced(disk, hinted, dropped)
  BY PlanNow
<1>2. Index \in Nat /\ LastIndex \in Nat /\ BlockOf(request.addr) <= Index /\ Index <= LastIndex
      /\ BlockOf(request.addr) \in Nat
  <2>1. Asked(request)
    BY <1>1 DEF InCall
  <2> QED
    BY <1>1, <2>1, CallPlace, AskedRight
<1> DEFINE s == Span(At(Index), At(Index + n))
           i == Index
<1>3. s \in Reads
  <2>1. At(Index) \in Nat /\ At(Index + n) \in Nat
    BY <1>2, AtNext
  <2> QED
    BY <2>1 DEF Span, Reads
<1>4. \A k \in 0..(n - 1) : i + k \in BlockOf(request.addr)..BlockOf(End(request) - 1) /\ i + k \notin Cached
  <2> SUFFICES ASSUME NEW k \in 0..(n - 1)
               PROVE  i + k \in BlockOf(request.addr)..LastIndex /\ i + k \notin Cached
    BY DEF LastIndex
  <2>1. CASE k = 0
    <3>1. i + k = Index
      BY <1>2, <2>1
    <3> QED
      BY <1>2, <3>1
  <2>2. CASE k \in 1..(n - 1)
    <3>1. Index + k <= LastIndex /\ Index + k \notin Cached
      BY <2>2
    <3>2. Index + k \in BlockOf(request.addr)..LastIndex
      BY <1>2, <3>1
    <3> QED
      BY <3>1, <3>2
  <2> QED
    BY <2>1, <2>2
<1>5. hinted # {} => (\E h \in hinted : Within(s, h)) \/ \E k \in dropped : Meets(s, k)
  <2> HIDE DEF i
  <2>1. i \in Nat
    BY <1>2 DEF i
  <2>2. s = Span(At(i), At(i + n))
    BY DEF i
  <2> HIDE DEF s
  <2> QED
    BY <1>1, <1>4, <2>1, <2>2, ReadWasAnnounced
<1>6. \A k \in Nat : Index <= k /\ k < Index + n => Meets(s, k)
  BY <1>2, SpanMeets
<1> HIDE DEF s
<1>7. disk' = Append(disk, s)
  BY DEF s
<1> QED
  BY <1>1, <1>3, <1>5, <1>6, <1>7, ReadMore

LEMMA ReadRunPlan ==
  ASSUME Kept, CallRight, PlanRight, ReadRun
  PROVE  PlanRight'
<1>1. /\ pc = "get" /\ Index \notin Cached /\ ~InRun(Index) /\ MayRun(Index)
      /\ ReadDisk(BlockStart, BlockStart + RunLength(Index) * BlockBytes)
      /\ UNCHANGED <<blocks, pc, request, cur, hinted, dropped>>
  BY DEF ReadRun, cache
<1>2. InCall /\ request # None /\ Len(disk) \in Nat /\ ReadsCounted
  BY <1>1, PlanNow
<1>3. Index \in Nat
  BY <1>1, <1>2, CallPlace
<1> DEFINE n == RunLength(Index)
<1>4. n \in Nat /\ n > 0 /\ \A k \in 1..(n - 1) : Index + k <= LastIndex /\ Index + k \notin Cached
  <2>1. MaxRunBlocks \in Nat
    BY CacheAssumption
  <2> QED
    BY <1>3, <2>1, RunLengthRight
<1>5. n \in 1..MaxRunBlocks /\ MaxRunBlocks \in Nat
  BY <1>3, RunLengthRight, CacheAssumption
<1>6. /\ \/ run' = [first |-> Index, count |-> n, bytes |-> run'.bytes] /\ failed' = failed
         \/ run' = run /\ failed' = TRUE
      /\ failed = FALSE
  <2>1. failed = FALSE
    BY <1>1, <1>2 DEF MayRun, InCall
  <2>2. CASE Readable(BlockStart, BlockStart + RunLength(Index) * BlockBytes)
    BY <2>1, <2>2 DEF ReadRun
  <2>3. CASE ~Readable(BlockStart, BlockStart + RunLength(Index) * BlockBytes)
    BY <2>1, <2>3 DEF ReadRun
  <2> QED
    BY <2>1, <2>2, <2>3
<1>7. disk' = Append(disk, Span(At(Index), At(Index + n)))
  <2>1. disk' = Append(disk, Span(BlockStart, BlockStart + n * BlockBytes))
    BY <1>1 DEF ReadDisk
  <2> HIDE DEF n
  <2>2. BlockStart = At(Index) /\ n * BlockBytes = At(n)
    BY DEF BlockStart, At
  <2>3. At(Index + n) = At(Index) + At(n)
    BY <1>3, <1>4, AtSum
  <2> QED
    BY <2>1, <2>2, <2>3
<1> HIDE DEF n
<1>8. /\ disk' \in Seq(Reads) /\ Len(disk') = Len(disk) + 1
      /\ \A k : WasRead(disk, k) => WasRead(disk', k)
      /\ DiskAnnounced(disk', hinted, dropped)
      /\ \A k \in Nat : Index <= k /\ k < Index + n => WasRead(disk', k)
  BY <1>1, <1>4, <1>7, ReadPlan
<1>9. Index' = Index /\ Cached' = Cached /\ LastIndex' = LastIndex
  BY <1>1 DEF Index, Cached, LastIndex
<1>10. ASSUME NEW k \in Nat, Behind(k)'
       PROVE  Behind(k) \/ WasRead(disk', k)
  <2>1. k \in Cached \/ InRun(k)' \/ Passed(k)
    BY <1>1, <1>9, <1>10 DEF Behind, Passed
  <2>2. ASSUME InRun(k)'
        PROVE  InRun(k) \/ WasRead(disk', k)
    <3>1. CASE run' = [first |-> Index, count |-> n, bytes |-> run'.bytes]
      <4>1. run'.first = Index /\ run'.count = n
        BY <3>1
      <4> QED
        BY <1>8, <2>2, <4>1 DEF InRun
    <3>2. CASE run' = run
      BY <2>2, <3>2 DEF InRun
    <3> QED
      BY <1>6, <3>1, <3>2
  <2> QED
    BY <2>1, <2>2 DEF Behind
<1>11. ReadsCounted'
  <2> DEFINE base == Index - BlockOf(request.addr)
  <2>1. base \in Int
    <3>1. Asked(request)
      BY <1>2 DEF InCall
    <3> QED
      BY <1>3, <3>1, AskedRight
  <2>2. Len(disk) <= base
    <3>1. pc # "stitched" /\ pc = "get" /\ ~InRun(Index) /\ failed = FALSE
      BY <1>1, <1>6
    <3>2. Len(disk) <= base + 0 + 0
      BY <1>2, <3>1 DEF ReadsCounted
    <3> HIDE DEF base
    <3> QED
      BY <2>1, <3>2
  <2>3. CASE failed' = TRUE
    <3>1. ReadsCounted' <=> Len(disk') <= base + 1 + (IF InRun(Index)' THEN 1 ELSE 0)
      BY <1>1, <1>9, <2>3 DEF ReadsCounted
    <3> HIDE DEF base
    <3> QED
      BY <1>2, <1>8, <2>1, <2>2, <3>1
  <2>4. CASE run' = [first |-> Index, count |-> n, bytes |-> run'.bytes] /\ failed' = failed
    <3>1. InRun(Index)'
      <4>1. run'.first = Index /\ run'.count = n
        BY <2>4
      <4> QED
        BY <1>3, <1>4, <1>9, <4>1 DEF InRun
    <3>2. ReadsCounted' <=> Len(disk') <= base + 0 + 1
      BY <1>1, <1>6, <1>9, <2>4, <3>1 DEF ReadsCounted
    <3> HIDE DEF base
    <3> QED
      BY <1>2, <1>8, <2>1, <2>2, <3>2
  <2> QED
    BY <1>6, <2>3, <2>4
<1> QED
  BY <1>1, <1>2, <1>8, <1>9, <1>10, <1>11, PlanGoesOn

LEMMA GetAlonePlan ==
  ASSUME Kept, CallRight, PlanRight, GetAlone, Kept'
  PROVE  PlanRight'
<1>1. /\ pc = "get" /\ Index \notin Cached /\ ~InRun(Index) /\ pc' \in {"copy", "uncached"}
      /\ ReadDisk(BlockStart, BlockStart + BlockBytes)
      /\ UNCHANGED <<request, cur, run, failed, hinted, dropped>>
  BY DEF GetAlone
<1>2. InCall /\ request # None /\ Len(disk) \in Nat /\ ReadsCounted
  BY <1>1, PlanNow
<1>3. Index \in Nat
  BY <1>1, <1>2, CallPlace
<1>4. Cached' = Cached \/ Cached' = Cached \cup {Index}
  BY DEF GetAlone, Insert, cache, Cached
<1>5. disk' = Append(disk, Span(At(Index), At(Index + 1)))
  <2>1. disk' = Append(disk, Span(BlockStart, BlockStart + BlockBytes))
    BY <1>1 DEF ReadDisk
  <2>2. BlockStart = At(Index)
    BY DEF BlockStart, At
  <2> QED
    BY <1>3, <2>1, <2>2, AtNext
<1>6. /\ disk' \in Seq(Reads) /\ Len(disk') = Len(disk) + 1
      /\ \A k : WasRead(disk, k) => WasRead(disk', k)
      /\ DiskAnnounced(disk', hinted, dropped)
      /\ \A k \in Nat : Index <= k /\ k < Index + 1 => WasRead(disk', k)
  <2>1. \A k \in 1..(1 - 1) : Index + k <= LastIndex /\ Index + k \notin Cached
    OBVIOUS
  <2> QED
    BY <1>1, <1>5, <2>1, ReadPlan
<1>7. WasRead(disk', Index)
  BY <1>3, <1>6
<1>8. Index' = Index
  BY <1>1 DEF Index
<1>9. \A k \in Nat : Behind(k)' => Behind(k) \/ WasRead(disk', k)
  BY <1>1, <1>4, <1>7, <1>8 DEF Behind, Passed, InRun
<1>10. ReadsCounted'
  <2> DEFINE base == Index - BlockOf(request.addr)
             f == IF failed THEN 1 ELSE 0
  <2>1. base \in Int /\ f \in Int
    <3>1. Asked(request)
      BY <1>2 DEF InCall
    <3> QED
      BY <1>3, <3>1, AskedRight
  <2>2. Len(disk) <= base + f + 0
    BY <1>1, <1>2 DEF ReadsCounted
  <2>3. ReadsCounted' <=> Len(disk') <= base + f + 1
    BY <1>1, <1>8 DEF ReadsCounted
  <2> HIDE DEF base, f
  <2> QED
    BY <1>2, <1>6, <2>1, <2>2, <2>3
<1> QED
  BY <1>1, <1>2, <1>4, <1>6, <1>9, <1>10, PlanGoesOn

\* Nothing is read: the call holds the block it looked for.
LEMMA HeldPlan ==
  ASSUME Kept, CallRight, PlanRight, pc = "get", pc' = "copy",
         UNCHANGED <<request, cur, failed, hinted, dropped, disk>>,
         Cached \subseteq Cached',
         \A k \in Nat : k \in Cached' \/ InRun(k)' => k \in Cached \/ InRun(k)
  PROVE  PlanRight'
<1>1. InCall /\ request # None /\ disk \in Seq(Reads) /\ Len(disk) \in Nat /\ ReadsCounted
      /\ DiskAnnounced(disk, hinted, dropped)
  BY PlanNow
<1>2. Index \in Nat /\ Index' = Index
  BY <1>1, CallPlace DEF Index
<1>3. \A k \in Nat : Behind(k)' => Behind(k)
  BY <1>2 DEF Behind, Passed
<1>4. ReadsCounted'
  <2> DEFINE base == Index - BlockOf(request.addr)
             f == IF failed THEN 1 ELSE 0
             h == IF InRun(Index) THEN 1 ELSE 0
  <2>1. base \in Int /\ f \in Int
    <3>1. Asked(request)
      BY <1>1 DEF InCall
    <3> QED
      BY <1>2, <3>1, AskedRight
  <2>2. Len(disk) <= base + f + h /\ h \in Int /\ h <= 1
    BY <1>1 DEF ReadsCounted
  <2>3. ReadsCounted' <=> Len(disk) <= base + f + 1
    BY <1>2 DEF ReadsCounted
  <2> HIDE DEF base, f, h
  <2> QED
    BY <1>1, <2>1, <2>2, <2>3
<1> QED
  BY <1>1, <1>3, <1>4, PlanGoesOn

LEMMA GetHitPlan ==
  ASSUME Kept, CallRight, PlanRight, GetHit
  PROVE  PlanRight'
<1>1. /\ pc = "get" /\ pc' = "copy"
      /\ UNCHANGED <<blocks, request, cur, run, failed, hinted, dropped, disk>>
  BY DEF GetHit, loader
<1>2. Cached' = Cached /\ \A k : InRun(k)' => InRun(k)
  BY <1>1 DEF Cached, InRun
<1> QED
  BY <1>1, <1>2, HeldPlan

LEMMA GetFromRunPlan ==
  ASSUME Kept, CallRight, PlanRight, GetFromRun
  PROVE  PlanRight'
<1>1. /\ pc = "get" /\ pc' = "copy" /\ InRun(Index)
      /\ UNCHANGED <<request, cur, failed, hinted, dropped, disk>>
      /\ run' = run \/ run' = [run EXCEPT !.count = 0]
  BY DEF GetFromRun, history
<1>2. Cached' = Cached \cup {Index}
  BY DEF GetFromRun, Insert, Cached
<1>3. ASSUME NEW k \in Nat, InRun(k)'
      PROVE  InRun(k)
  <2>1. run \in [first : Nat, count : 0..MaxRunBlocks, bytes : Seq(Nat)]
    BY <1>1, InCallNow DEF InCall, RunRight
  <2>2. CASE run' = [run EXCEPT !.count = 0]
    <3>1. run'.first = run.first /\ run'.count = 0 /\ run.first \in Nat
      BY <2>1, <2>2
    <3>2. run.first <= k /\ k < run.first + 0
      BY <1>3, <3>1 DEF InRun
    <3> QED
      BY <3>1, <3>2
  <2>3. CASE run' = run
    BY <1>3, <2>3 DEF InRun
  <2> QED
    BY <1>1, <2>2, <2>3
<1> QED
  BY <1>1, <1>2, <1>3, HeldPlan

\* Which blocks the announced ranges may hold.
LEMMA HintedBlocks ==
  ASSUME NEW hs, NEW r, Asked(r), HintsRight(hs, r), NEW h \in hs, NEW k \in Nat, Inside(k, h)
  PROVE  k <= BlockOf(End(r) - 1)
<1> DEFINE last == BlockOf(End(r) - 1)
<1>1. PICK i \in Nat, j \in Nat : i < j /\ j <= last + 1 /\ h = Span(At(i), At(j))
  BY DEF HintsRight
<1>2. k < j
  BY <1>1, InsideSpan
<1>3. last \in Nat
  BY AskedRight
<1> HIDE DEF last
<1>4. k <= last
  BY <1>1, <1>2, <1>3
<1> QED
  BY <1>4 DEF last

LEMMA CopyBlockPlan ==
  ASSUME Kept, CallRight, PlanRight, CopyBlock
  PROVE  PlanRight'
<1> DEFINE chunk == Min({BlockBytes - (cur % BlockBytes), End(request) - cur})
           gone == Trimmed(views, got, stitched_bytes)
<1>1. /\ pc = "copy" /\ cur' = cur + chunk /\ Drop(gone) /\ dropped' = dropped \cup gone
      /\ pc' = IF cur + chunk = End(request) THEN "stitched" ELSE "get"
      /\ UNCHANGED <<bad, request, run, failed, hinted, disk>>
  BY DEF CopyBlock, loader
<1>2. /\ InCall /\ request # None /\ disk \in Seq(Reads) /\ Len(disk) \in Nat /\ ReadsCounted
      /\ HintsRight(hinted, request) /\ DiskAnnounced(disk, hinted, dropped)
  BY <1>1, PlanNow
<1>3. /\ Index \in Nat /\ At(Index) \in Nat /\ cur \in Nat /\ BlockBytes \in Nat /\ BlockBytes > 0
      /\ LastIndex \in Nat
  BY <1>1, <1>2, CallPlace, CacheAssumption
<1>4. /\ chunk \in Nat
      /\ cur + chunk # End(request) => cur + chunk = At(Index) + BlockBytes
      /\ cur + chunk = End(request) => Index = LastIndex
  BY <1>1, <1>2, CopyAmount
<1> HIDE DEF chunk
<1>5. Cached' = Cached \ gone
  <2>1. CacheRight(blocks, order, bad) /\ ViewsRight(views, Cached) /\ ceiling \in Nat /\ stitched_bytes \in Nat
    BY KeptTypes
  <2>2. TrimRight(gone, views, got, stitched_bytes)
    BY <2>1, TrimmedRight
  <2>3. \A i \in gone : ~InUse(i, views, got)
    BY <2>2 DEF TrimRight
  <2> HIDE DEF gone
  <2> QED
    BY <1>1, <2>1, <2>3, DropKept
<1> HIDE DEF gone
<1>6. pc' # "stitched" => Index' = Index + 1 /\ pc' = "get"
  <2> SUFFICES ASSUME pc' # "stitched"
               PROVE  BlockOf(cur') = Index + 1 /\ pc' = "get"
    BY DEF Index
  <2>1. cur' = At(Index + 1) /\ pc' = "get"
    BY <1>1, <1>3, <1>4, AtNext
  <2> QED
    BY <1>3, <2>1, BlockOfAt
<1>7. Index \in Cached /\ Asked(request)
  BY <1>1, <1>2 DEF InCall
<1>8. ASSUME NEW h \in hinted, NEW k \in Nat, Inside(k, h), Behind(k)'
      PROVE  Behind(k)
  <2>1. CASE Passed(k)'
    <3>1. k <= Index
      <4>1. CASE pc' = "stitched"
        BY <1>1, <1>2, <1>4, <1>7, <1>8, <4>1, HintedBlocks DEF LastIndex
      <4>2. CASE pc' # "stitched"
        BY <1>3, <1>6, <2>1, <4>2 DEF Passed
      <4> QED
        BY <4>1, <4>2
    <3>2. k = Index \/ k < Index
      BY <1>3, <3>1
    <3> QED
      BY <1>7, <3>2 DEF Behind, Passed
  <2>2. CASE k \in Cached' \/ InRun(k)'
    BY <1>1, <1>5, <2>2 DEF Behind, InRun
  <2> QED
    BY <1>8, <2>1, <2>2 DEF Behind
<1>9. ReadsCounted'
  <2> DEFINE b == BlockOf(request.addr)
             f == IF failed THEN 1 ELSE 0
             h == IF pc' = "get" /\ ~InRun(Index)' THEN 0 ELSE 1
  <2>1. b \in Nat /\ f \in Int /\ h \in {0, 1}
    BY <1>7, AskedRight
  <2>2. Len(disk) <= Index - b + f + 1
    BY <1>1, <1>2 DEF ReadsCounted
  <2>3. CASE pc' = "stitched"
    <3>1. ReadsCounted' <=> Len(disk) <= LastIndex - b + f + 1
      BY <1>1, <2>3 DEF ReadsCounted, LastIndex
    <3>2. Index = LastIndex
      BY <1>1, <1>4, <2>3
    <3> QED
      BY <2>2, <3>1, <3>2
  <2>4. CASE pc' # "stitched"
    <3>1. ReadsCounted' <=> Len(disk) <= (Index + 1) - b + f + h
      BY <1>1, <1>6, <2>4 DEF ReadsCounted
    <3> HIDE DEF b, f, h
    <3> QED
      BY <1>2, <1>3, <2>1, <2>2, <3>1
  <2> QED
    BY <2>3, <2>4
<1>10. DiskAnnounced(disk', hinted, dropped')
  BY <1>1, <1>2 DEF DiskAnnounced
<1> QED
  BY <1>1, <1>2, <1>5, <1>8, <1>9, <1>10, PlanGoesOn

\* A step between two calls reads nothing.
LEMMA IdlePlan ==
  ASSUME PlanRight, CallRight, pc = "idle", UNCHANGED call
  PROVE  PlanRight'
<1>1. request = None /\ disk = <<>> /\ request' = request /\ disk' = disk
  BY DEF CallRight, AtRest, call, history
<1> QED
  BY <1>1, PlanOver

LEMMA NothingPlan ==
  ASSUME PlanRight, UNCHANGED vars
  PROVE  PlanRight'
<1>1. UNCHANGED <<blocks, pc, request, cur, run, failed, hinted, dropped, disk>>
  BY DEF vars, call, history, cache
<1>2. Index' = Index /\ LastIndex' = LastIndex /\ Cached' = Cached
  BY <1>1 DEF Index, LastIndex, Cached
<1>3. \A k : InRun(k)' = InRun(k) /\ Passed(k)' = Passed(k)
  BY <1>1, <1>2 DEF InRun, Passed
<1>4. AnnouncedRead' = AnnouncedRead
  BY <1>1, <1>2, <1>3 DEF AnnouncedRead
<1>5. ReadsCounted' = ReadsCounted
  BY <1>1, <1>2 DEF ReadsCounted, InRun
<1> QED
  BY <1>1, <1>2, <1>4, <1>5 DEF PlanRight

LEMMA StepPlans ==
  ASSUME Kept, CallRight, PlanRight, [Next]_vars
  PROVE  PlanRight'
<1>1. Kept' /\ CallRight'
  BY StepKeeps
<1>2. CASE Over
  BY <1>2, PlanOver DEF Over
<1>3. CASE ReadStep
  <2>1. CASE ReturnBlock \/ ReturnStitched \/ ReadUncached
    BY <1>2, <2>1 DEF ReturnBlock, ReturnStitched, ReadUncached
  <2> QED
    BY <1>1, <1>3, <2>1, ReadRunPlan, GetHitPlan, GetFromRunPlan, GetAlonePlan, CopyBlockPlan DEF ReadStep
<1>4. CASE \E r \in Requests : CallRead(r)
  BY <1>1, <1>4, CallReadPlan
<1>5. CASE \E v, w \in Views : CopyView(v, w)
  BY <1>5, IdlePlan DEF CopyView
<1>6. CASE \E v \in Views : DropView(v)
  BY <1>6, IdlePlan DEF DropView
<1>7. CASE Minify
  BY <1>7, IdlePlan DEF Minify
<1>8. CASE UNCHANGED vars
  BY <1>8, NothingPlan
<1> QED
  BY <1>3, <1>4, <1>5, <1>6, <1>7, <1>8 DEF Next
----------------------------------------------------------------------------
(* What the invariant says of a state. *)

LEMMA TypesFollow ==
  ASSUME Kept, CallRight
  PROVE  TypeOK
<1>1. CacheRight(blocks, order, bad) /\ ViewsRight(views, Cached) /\ Cached \subseteq Nat
  BY KeptTypes
<1>2. IsInjective(order) /\ ToSet(order) = Cached
  <2>1. \A j, k \in DOMAIN order : order[j] = order[k] => j = k
    BY <1>1 DEF CacheRight
  <2>2. \A k \in DOMAIN order : order[k] \in Cached
    BY <1>1 DEF CacheRight, Cached
  <2>3. \A i \in Cached : \E k \in DOMAIN order : order[k] = i
    BY <1>1 DEF CacheRight, Cached
  <2>4. ToSet(order) = {order[k] : k \in DOMAIN order}
    BY DEF ToSet
  <2>5. ToSet(order) = Cached
    BY <2>2, <2>3, <2>4
  <2> QED
    BY <2>1, <2>5 DEF IsInjective
<1>3. ASSUME NEW i \in Cached
      PROVE  Len(blocks[i]) = BlockBytes
  <2>1. blocks[i] = Block(i) /\ i \in Nat
    BY <1>1 DEF CacheRight, Cached
  <2>2. At(i) \in Nat /\ BlockBytes \in Nat
    BY <2>1, AtNext, CacheAssumption
  <2> DEFINE b == At(i) + BlockBytes
  <2>3. b \in Int /\ At(i) <= b /\ b - At(i) = BlockBytes
    BY <2>2
  <2> HIDE DEF b
  <2>4. Len(Content(At(i), b)) = BlockBytes
    BY <2>2, <2>3, ContentTyped
  <2> QED
    BY <2>1, <2>4 DEF Block, b
<1>4. ASSUME NEW v \in Views
      PROVE  Free(v) \/ (views[v].owner \in Owner /\ views[v].bytes # <<>>)
  <2>1. CASE views[v] = EmptyView
    BY <2>1 DEF Free
  <2>2. CASE Shows(views[v], Cached)
    <3>1. PICK n \in Nat \ {0} : views[v].bytes = Content(views[v].addr, views[v].addr + n)
      BY <2>2 DEF Shows
    <3> DEFINE a == views[v].addr
               b == a + n
    <3>2. a \in Nat /\ views[v].owner \in Owner
      BY <2>2 DEF Shows
    <3>3. b \in Int /\ a <= b /\ b - a # 0
      BY <3>2
    <3> HIDE DEF b
    <3>4. Len(Content(a, b)) # 0
      BY <3>2, <3>3, ContentTyped
    <3>5. views[v].bytes = Content(a, b)
      BY <3>1 DEF b
    <3> HIDE DEF a
    <3> QED
      BY <3>2, <3>4, <3>5
  <2> QED
    BY <1>1, <2>1, <2>2 DEF ViewsRight
<1>5. CASE pc = "idle"
  <2>1. got = None /\ request = None /\ run = NoRun
    BY <1>5 DEF CallRight, AtRest
  <2>2. run.count \in 0..MaxRunBlocks
    BY <2>1, CacheAssumption DEF NoRun
  <2> QED
    BY <1>2, <1>3, <1>4, <1>5, <2>1, <2>2 DEF TypeOK
<1>6. CASE pc # "idle"
  <2>1. InCall /\ request # None
    BY <1>6, InCallNow
  <2>2. pc \in {"get", "copy", "stitched", "uncached"} /\ run.count \in 0..MaxRunBlocks
    BY <1>6, <2>1 DEF CallRight, InCall, RunRight
  <2>3. pc = "copy" => got # None /\ got \in Cached
    <3>1. None \notin Nat
      BY CacheAssumption
    <3> QED
      BY <1>1, <2>1, <3>1 DEF InCall
  <2>4. pc # "copy" => got = None
    BY <2>1 DEF InCall
  <2> QED
    BY <1>2, <1>3, <1>4, <1>6, <2>1, <2>2, <2>3, <2>4 DEF TypeOK
<1> QED
  BY <1>5, <1>6

LEMMA TruthFollows ==
  ASSUME Kept
  PROVE  ViewsShowTheVolume
<1>1. CacheRight(blocks, order, bad) /\ ViewsRight(views, Cached)
  BY KeptTypes
<1>2. ASSUME NEW i \in Cached
      PROVE  blocks[i] = Content(i * BlockBytes, (i + 1) * BlockBytes)
  <2>1. blocks[i] = Block(i) /\ i \in Nat
    BY <1>1 DEF CacheRight, Cached
  <2>2. At(i + 1) = At(i) + BlockBytes
    BY <2>1, AtNext
  <2>3. blocks[i] = Content(At(i), At(i + 1))
    BY <2>1, <2>2 DEF Block
  <2> QED
    BY <2>3 DEF At
<1>3. ASSUME NEW v \in Views
      PROVE  views[v].bytes = Content(views[v].addr, views[v].addr + Len(views[v].bytes))
  <2>1. CASE views[v] = EmptyView
    <3>1. views[v].addr = 0 /\ views[v].bytes = <<>> /\ Len(<<>>) = 0 /\ 0 + 0 = 0
      BY <2>1 DEF EmptyView
    <3>2. Content(0, 0) = <<>>
      BY ContentNone
    <3> QED
      BY <3>1, <3>2
  <2>2. CASE Shows(views[v], Cached)
    <3>1. PICK n \in Nat \ {0} : views[v].bytes = Content(views[v].addr, views[v].addr + n)
      BY <2>2 DEF Shows
    <3> DEFINE a == views[v].addr
               b == a + n
    <3>2. a \in Nat
      BY <2>2 DEF Shows
    <3>3. b \in Int /\ a <= b /\ b - a = n
      BY <3>2
    <3> HIDE DEF b
    <3>4. Len(Content(a, b)) = n
      BY <3>2, <3>3, ContentTyped
    <3>5. views[v].bytes = Content(a, b)
      BY <3>1 DEF b
    <3>6. Len(views[v].bytes) = n
      BY <3>4, <3>5
    <3> QED
      BY <3>1, <3>6
  <2> QED
    BY <1>1, <2>1, <2>2 DEF ViewsRight
<1> QED
  BY <1>2, <1>3 DEF ViewsShowTheVolume

LEMMA CountFollows ==
  ASSUME Kept, CallRight
  PROVE  HeldIsCounted
<1> DEFINE N == Cardinality(Views)
           size == [k \in BufferIds |-> (CHOOSE o \in Buffers : o.id = k).size]
<1>1. /\ ViewsRight(views, Cached) /\ Tallied(views, stitched_bytes - Pending) /\ stitched_bytes \in Nat
  BY KeptTypes
<1>2. PICK sz : Sized(views, sz) /\ stitched_bytes - Pending = Total(sz, N, Alive(views))
  BY <1>1 DEF Tallied
<1>3. BufferIds = Alive(views)
  BY <1>1, IdsAlive
<1>4. ASSUME NEW o \in Owners \ {None}
      PROVE  /\ o \in Owner
             /\ o.kind = "block" => o.id \in Cached
             /\ o.kind = "stitched" => o.id \in 1..N /\ o.size = sz[o.id]
  <2>1. PICK v \in Views : views[v].owner = o
    BY DEF Owners
  <2>2. views[v] # EmptyView
    BY <2>1 DEF EmptyView
  <2>3. Shows(views[v], Cached)
    BY <1>1, <2>2 DEF ViewsRight
  <2> QED
    BY <1>2, <2>1, <2>2, <2>3 DEF Shows, Sized
<1>5. ASSUME NEW o \in Buffers, NEW p \in Buffers, o.id = p.id
      PROVE  o = p
  <2>1. o \in Owner /\ p \in Owner /\ o.kind = p.kind /\ o.size = p.size
    BY <1>4, <1>5 DEF Buffers
  <2> QED
    BY <1>5, <2>1 DEF Owner
<1>6. ASSUME NEW k \in BufferIds
      PROVE  size[k] = sz[k]
  <2>1. PICK p \in Buffers : p.id = k
    BY DEF BufferIds
  <2> DEFINE q == CHOOSE o \in Buffers : o.id = k
  <2>2. q \in Buffers /\ q.id = k
    BY <2>1
  <2>3. size[k] = q.size
    OBVIOUS
  <2> HIDE DEF q
  <2> QED
    BY <1>4, <2>2, <2>3 DEF Buffers
<1> HIDE DEF size
<1>7. Total(size, N, BufferIds) = Total(sz, N, Alive(views))
  <2>1. N \in Nat /\ \A i \in 1..N : sz[i] \in Nat
    BY <1>2, ViewsCounted DEF Sized
  <2>2. \A i \in 1..N : (i \in Alive(views) <=> i \in BufferIds) /\ (i \in Alive(views) => sz[i] = size[i])
    BY <1>3, <1>6
  <2> HIDE DEF N
  <2> QED
    BY <2>1, <2>2, TotalAlike
<1>8. stitched_bytes = Total(size, N, BufferIds) + IF request = None THEN 0 ELSE BufferBytes(request)
  <2>1. stitched_bytes - Pending \in Nat
    BY <1>1, TalliedTyped
  <2>2. Pending \in Int
    <3>1. CASE request = None
      BY <3>1 DEF Pending
    <3>2. CASE request # None
      <4>1. pc # "idle"
        BY <3>2 DEF CallRight, AtRest
      <4>2. BufferBytes(request) \in Nat
        BY <4>1, InCallNow, AskedRight
      <4> QED
        BY <3>2, <4>2 DEF Pending
    <3> QED
      BY <3>1, <3>2
  <2> DEFINE t == stitched_bytes - Pending
  <2>3. stitched_bytes = t + Pending
    BY <1>1, <2>2
  <2> HIDE DEF t
  <2>4. t = Total(size, N, BufferIds)
    BY <1>2, <1>7 DEF t
  <2> QED
    BY <2>3, <2>4 DEF Pending
<1> QED
  BY <1>4, <1>5, <1>8 DEF HeldIsCounted, size, N

LEMMA PlanFollows ==
  ASSUME CallRight, PlanRight
  PROVE  DiskReadsAsPlanned
<1>1. CASE pc = "idle"
  <2>1. hinted = {} /\ request = None
    BY <1>1 DEF CallRight, AtRest
  <2> QED
    BY <2>1 DEF DiskReadsAsPlanned, ReadsAsAnnounced, FewDiskReads
<1>2. CASE pc # "idle"
  <2>1. /\ InCall /\ disk \in Seq(Reads) /\ Len(disk) \in Nat /\ HintsRight(hinted, request)
        /\ DiskAnnounced(disk, hinted, dropped) /\ AnnouncedRead /\ ReadsCounted
    BY <1>2, PlanNow
  <2>2. ASSUME hinted # {}, NEW n \in DOMAIN disk
        PROVE  (\E h \in hinted : Within(disk[n], h)) \/ \E i \in dropped : Meets(disk[n], i)
    BY <2>1, <2>2 DEF DiskAnnounced
  <2>3. ASSUME pc = "stitched", Few(request), NEW h \in hinted,
               NEW i \in BlockOf(h.first)..(BlockOf(h.last) - 1)
        PROVE  \E n \in DOMAIN disk : Meets(disk[n], i)
    <3>1. PICK a \in Nat, b \in Nat : h = Span(At(a), At(b))
      BY <2>1 DEF HintsRight
    <3>2. h.first = At(a) /\ h.last = At(b)
      BY <3>1 DEF Span
    <3>3. BlockOf(h.first) = a /\ BlockOf(h.last) = b
      BY <3>2, BlockOfAt
    <3>4. i \in a..(b - 1)
      BY <3>3
    <3>5. i \in Nat /\ a <= i /\ i < b
      BY <3>4
    <3>6. Inside(i, h)
      BY <3>1, <3>5, InsideSpan
    <3>7. Passed(i)
      BY <2>3 DEF Passed
    <3> QED
      BY <2>1, <2>3, <3>5, <3>6, <3>7 DEF AnnouncedRead, WasRead
  <2>4. ReadsAsAnnounced
    BY <2>2, <2>3 DEF ReadsAsAnnounced, Few
  <2>5. Len(disk) <= LastIndex - BlockOf(request.addr) + 2
    <3> DEFINE b == BlockOf(request.addr)
               f == IF failed THEN 1 ELSE 0
               g == IF pc = "get" /\ ~InRun(Index) THEN 0 ELSE 1
               at == IF pc = "stitched" THEN LastIndex ELSE Index
    <3>1. b \in Nat /\ f \in {0, 1} /\ g \in {0, 1}
      <4>1. Asked(request)
        BY <2>1 DEF InCall
      <4> QED
        BY <4>1, AskedRight
    <3>2. at \in Nat /\ LastIndex \in Nat /\ at <= LastIndex
      <4>1. CASE pc = "stitched"
        <5>1. Asked(request)
          BY <2>1 DEF InCall
        <5>2. LastIndex \in Nat
          BY <5>1, AskedRight DEF LastIndex
        <5> QED
          BY <4>1, <5>2
      <4>2. CASE pc # "stitched"
        BY <2>1, <4>2, CallPlace
      <4> QED
        BY <4>1, <4>2
    <3>3. Len(disk) <= at - b + f + g
      BY <2>1 DEF ReadsCounted
    <3> HIDE DEF b, f, g, at
    <3>4. Len(disk) <= LastIndex - b + 2
      BY <2>1, <3>1, <3>2, <3>3
    <3> QED
      BY <3>4 DEF b
  <2> QED
    BY <2>4, <2>5 DEF DiskReadsAsPlanned, FewDiskReads
<1> QED
  BY <1>1, <1>2
----------------------------------------------------------------------------
(* How a read ends. *)

\* A step that is not the end of a read, and no view either.
LEMMA NotAnEnd ==
  ASSUME pc = "idle" \/ pc' # "idle",
         \A v \in Views : views[v] # EmptyView => views'[v] # EmptyView
  PROVE  AnswersExactly /\ TrimmedToCeiling
BY DEF AnswersExactly, TrimmedToCeiling, Answers, Drops

LEMMA StepEnds ==
  ASSUME Kept, CallRight, [Next]_vars
  PROVE  [AnswersExactly /\ TrimmedToCeiling]_vars
<1>1. CASE UNCHANGED vars
  BY <1>1
<1>2. CASE ReturnBlock \/ ReturnStitched \/ ReadUncached
  <2>1. AnswersExactly /\ (views' # views => UnderCeiling')
    BY <1>2, ReturnBlockStep, ReturnStitchedStep, ReadUncachedStep
  <2>2. Answers \/ Drops => views' # views
    BY DEF Answers, Drops
  <2> QED
    BY <2>1, <2>2 DEF TrimmedToCeiling
<1>3. CASE ReadRun \/ GetHit \/ GetFromRun \/ GetAlone \/ CopyBlock
  <2>1. views' = views
    BY <1>3 DEF ReadRun, GetHit, GetFromRun, GetAlone, CopyBlock
  <2>2. pc' # "idle"
    BY <1>3 DEF ReadRun, GetHit, GetFromRun, GetAlone, CopyBlock
  <2> QED
    BY <2>1, <2>2, NotAnEnd
<1>4. CASE \E r \in Requests : CallRead(r)
  BY <1>4, NotAnEnd DEF CallRead
<1>5. CASE \E v, w \in Views : CopyView(v, w)
  <2>1. PICK v \in Views, w \in Views : CopyView(v, w)
    BY <1>5
  <2>2. /\ pc = "idle" /\ views[v] # EmptyView /\ views' = [views EXCEPT ![w] = views[v]]
    BY <2>1 DEF CopyView, Free
  <2>3. DOMAIN views = Views
    BY KeptTypes DEF ViewsRight
  <2>4. \A u \in Views : views[u] # EmptyView => views'[u] # EmptyView
    BY <2>2, <2>3
  <2> QED
    BY <2>2, <2>4, NotAnEnd
<1>6. CASE \E v \in Views : DropView(v)
  <2>1. UnderCeiling'
    BY <1>6, DropViewStep
  <2>2. pc = "idle"
    BY <1>6 DEF DropView
  <2> QED
    BY <2>1, <2>2 DEF AnswersExactly, TrimmedToCeiling
<1>7. CASE Minify
  BY <1>7, NotAnEnd DEF Minify
<1> QED
  BY <1>1, <1>2, <1>3, <1>4, <1>5, <1>6, <1>7 DEF Next, ReadStep
----------------------------------------------------------------------------
(* The theorems. *)

\* The invariant holds of every state of the reader and its cache: a cached
\* block is the medium's at its place and readable, a view shows the medium's
\* bytes and its owner is kept, the tally is the sum of the buffers alive, and
\* a call of Read() has copied readable bytes up to where it is and asked the
\* disk for what Prefetch() would have announced.
THEOREM Invariance == Spec => []IInv
<1>1. Init => IInv
  <2> SUFFICES ASSUME Init
               PROVE  Kept /\ CallRight /\ PlanRight
    BY DEF IInv
  <2>1. Kept /\ CallRight
    BY Initially
  <2>2. request = None /\ disk = <<>> /\ <<>> \in Seq([first : Int, last : Int])
    BY DEF Init
  <2> QED
    BY <2>1, <2>2 DEF PlanRight
<1>2. IInv /\ [Next]_vars => IInv'
  BY StepKeeps, StepPlans DEF IInv
<1> QED
  BY <1>1, <1>2, PTL DEF Spec

\* BlockCache has one place in order_ for each block it holds, each block,
\* view and buffer has the shape the code gives it, and the call holds a block
\* of the cache exactly while it copies from it.
THEOREM TypeCorrect == Spec => []TypeOK
<1>1. IInv => TypeOK
  BY TypesFollow DEF IInv
<1> QED
  BY <1>1, Invariance, PTL

\* A view shows the bytes of the volume at its own address for as long as it
\* lives, through evictions, runs and reads around the cache, and so does each
\* cached block.
THEOREM ViewsStayTrue == Spec => []ViewsShowTheVolume
<1>1. IInv => ViewsShowTheVolume
  BY TruthFollows DEF IInv
<1> QED
  BY <1>1, Invariance, PTL

\* A block that a view holds stays in the cache, and stitched_bytes_ is the sum
\* of the stitched buffers alive, each counted once however many views share
\* it, and the buffer of the read in progress.
THEOREM HeldStaysCounted == Spec => []HeldIsCounted
<1>1. IInv => HeldIsCounted
  BY CountFollows DEF IInv
<1> QED
  BY <1>1, Invariance, PTL

\* Read() asks the disk for what AnnounceRuns() announces for the same range
\* and for nothing else, unless the ceiling dropped a block meanwhile, and for
\* one read more than it has blocks at most.
THEOREM DiskReadsStayPlanned == Spec => []DiskReadsAsPlanned
<1>1. IInv => DiskReadsAsPlanned
  BY PlanFollows DEF IInv
<1> QED
  BY <1>1, Invariance, PTL

\* Read() returns a view exactly when each byte it was asked for can be read,
\* and a read that answers, as the end of a view, leaves the cache under its
\* ceiling or with no block that could go.
THEOREM ReadsEndRight == Spec => ReadsEndWell
<1>1. IInv /\ [Next]_vars => [AnswersExactly /\ TrimmedToCeiling]_vars
  BY StepEnds DEF IInv
<1> QED
  BY <1>1, Invariance, PTL DEF Spec, ReadsEndWell
=============================================================================
