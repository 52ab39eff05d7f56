-------------------------- MODULE SelectionProofs --------------------------
(***************************************************************************)
(* What Select() returns, for every sequence and every set. The induction  *)
(* over the sequence is by the least place at which a fact would fail.     *)
(***************************************************************************)
EXTENDS Selection, FiniteSetTheorems, WellFoundedInduction, TLAPS

\* A set of natural numbers has a least element.
LEMMA LeastNatural ==
  ASSUME NEW T, T \subseteq Nat, T # {}
  PROVE  \E n \in T : \A m \in T : n <= m
<1>1. PICK n \in T : \A m \in T : ~(<<m, n>> \in OpToRel(<, Nat))
  BY NatLessThanWellFounded, WFMin
<1>2. \A m \in T : ~(m < n)
  BY <1>1 DEF OpToRel
<1> QED
  BY <1>2

\* A set of places of a sequence of length n is finite.
LEMMA PlacesCounted ==
  ASSUME NEW n \in Nat, NEW S \in SUBSET (1..n)
  PROVE  IsFiniteSet(S) /\ Cardinality(S) \in 0..n
<1> DEFINE all == 1..n
<1>1. IsFiniteSet(all) /\ Cardinality(all) = n
  BY FS_Interval
<1>2. S \in SUBSET all
  OBVIOUS
<1> HIDE DEF all
<1>3. IsFiniteSet(S) /\ Cardinality(S) <= Cardinality(all)
  BY <1>1, <1>2, FS_Subset
<1>4. Cardinality(S) \in Nat
  BY <1>3, FS_CardinalityType
<1> QED
  BY <1>1, <1>3, <1>4

\* F[i] is what is selected of the first i elements, for i up to k.
Taken(F, s, T, k) ==
  F = [i \in 0..k |-> IF i = 0 THEN <<>>
                      ELSE IF s[i] \in T THEN Append(F[i - 1], s[i]) ELSE F[i - 1]]

\* The selection of one element more exists when that of the others does.
LEMMA TakenNext ==
  ASSUME NEW s, NEW T, NEW n \in Nat, n # 0, NEW F, Taken(F, s, T, n - 1)
  PROVE  \E G : Taken(G, s, T, n)
<1> DEFINE next == IF s[n] \in T THEN Append(F[n - 1], s[n]) ELSE F[n - 1]
           G == [i \in 0..n |-> IF i = n THEN next ELSE F[i]]
<1>1. \A i \in 0..n : G[i] = IF i = 0 THEN <<>>
                             ELSE IF s[i] \in T THEN Append(G[i - 1], s[i]) ELSE G[i - 1]
  <2> TAKE i \in 0..n
  <2>1. CASE i = n
    <3>1. G[n - 1] = F[n - 1] /\ G[n] = next
      OBVIOUS
    <3> HIDE DEF G
    <3> QED
      BY <2>1, <3>1
  <2>2. CASE i # n
    <3>1. i \in 0..(n - 1) /\ G[i] = F[i] /\ (i # 0 => G[i - 1] = F[i - 1])
      BY <2>2
    <3>2. F[i] = IF i = 0 THEN <<>>
                 ELSE IF s[i] \in T THEN Append(F[i - 1], s[i]) ELSE F[i - 1]
      BY <3>1 DEF Taken
    <3> HIDE DEF G
    <3> QED
      BY <3>1, <3>2
  <2> QED
    BY <2>1, <2>2
<1>2. G = [i \in 0..n |-> G[i]]
  OBVIOUS
<1> HIDE DEF G
<1>3. Taken(G, s, T, n)
  BY <1>1, <1>2 DEF Taken
<1> QED
  BY <1>3

\* The recursive function in Select() is well defined.
LEMMA TakenExists ==
  ASSUME NEW s, NEW T, NEW n \in Nat
  PROVE  \E F : Taken(F, s, T, n)
<1> DEFINE Without == {k \in Nat : ~\E F : Taken(F, s, T, k)}
<1> SUFFICES ASSUME Without # {} PROVE FALSE
  OBVIOUS
<1>1. PICK m \in Without : \A k \in Without : m <= k
  BY LeastNatural
<1>2. Taken([i \in 0..0 |-> <<>>], s, T, 0)
  BY DEF Taken
<1>3. m # 0
  BY <1>2
<1>4. m - 1 \in Nat /\ m - 1 \notin Without
  BY <1>1, <1>3
<1>5. PICK F : Taken(F, s, T, m - 1)
  BY <1>4
<1>6. \E G : Taken(G, s, T, m)
  BY <1>3, <1>5, TakenNext
<1> QED
  BY <1>6

\* Select() is the last value of that function.
LEMMA SelectIsTaken ==
  ASSUME NEW s, NEW T, Len(s) \in Nat
  PROVE  \E F : Taken(F, s, T, Len(s)) /\ Select(s, T) = F[Len(s)]
<1>1. \E F : Taken(F, s, T, Len(s))
  BY TakenExists
<1>2. Select(s, T) = (CHOOSE F : Taken(F, s, T, Len(s)))[Len(s)]
  BY DEF Select, Taken
<1> QED
  BY <1>1, <1>2

\* f says where the elements of r were in the first k elements of s: in
\* increasing places, which are those of the elements in T.
PlacedBy(f, r, s, T, k) ==
  /\ f \in [1..Len(r) -> 1..k]
  /\ \A i, j \in 1..Len(r) : i < j => f[i] < f[j]
  /\ \A i \in 1..Len(r) : r[i] = s[f[i]] /\ s[f[i]] \in T
  /\ \A p \in 1..k : s[p] \in T => \E i \in 1..Len(r) : f[i] = p

\* One element more: it is taken, at the end, or left out.
LEMMA PlacedByNext ==
  ASSUME NEW S, NEW s \in Seq(S), NEW T, NEW k \in Nat, k < Len(s),
         NEW r \in Seq(S), NEW f, PlacedBy(f, r, s, T, k),
         NEW q, q = IF s[k + 1] \in T THEN Append(r, s[k + 1]) ELSE r
  PROVE  q \in Seq(S) /\ \E g : PlacedBy(g, q, s, T, k + 1)
<1>1. CASE s[k + 1] \in T
  <2> DEFINE g == [i \in 1..Len(q) |-> IF i = Len(q) THEN k + 1 ELSE f[i]]
  <2>1. /\ q \in Seq(S) /\ Len(q) = Len(r) + 1 /\ Len(r) \in Nat
        /\ q[Len(q)] = s[k + 1]
        /\ \A i \in 1..Len(r) : q[i] = r[i]
    BY <1>1
  <2>2. /\ g[Len(q)] = k + 1
        /\ \A i \in 1..Len(r) : g[i] = f[i]
    BY <2>1
  <2>3. \A i \in 1..Len(q) : i = Len(q) \/ i \in 1..Len(r)
    BY <2>1
  <2>4. \A i \in 1..Len(r) : f[i] \in 1..k
    BY DEF PlacedBy
  <2>5. g \in [1..Len(q) -> 1..(k + 1)]
    BY <2>1, <2>4
  <2> HIDE DEF g
  <2>6. \A i, j \in 1..Len(q) : i < j => g[i] < g[j]
    BY <2>1, <2>2, <2>3, <2>4 DEF PlacedBy
  <2>7. \A i \in 1..Len(q) : q[i] = s[g[i]] /\ s[g[i]] \in T
    BY <1>1, <2>1, <2>2, <2>3 DEF PlacedBy
  <2>8. \A p \in 1..(k + 1) : s[p] \in T => \E i \in 1..Len(q) : g[i] = p
    <3> SUFFICES ASSUME NEW p \in 1..(k + 1), s[p] \in T
                 PROVE  \E i \in 1..Len(q) : g[i] = p
      OBVIOUS
    <3>1. CASE p = k + 1
      BY <3>1, <2>1, <2>2
    <3>2. CASE p # k + 1
      <4>1. PICK i \in 1..Len(r) : f[i] = p
        BY <3>2 DEF PlacedBy
      <4> QED
        BY <4>1, <2>1, <2>2
    <3> QED
      BY <3>1, <3>2
  <2>9. PlacedBy(g, q, s, T, k + 1)
    BY <2>5, <2>6, <2>7, <2>8 DEF PlacedBy
  <2> QED
    BY <2>1, <2>9
<1>2. CASE s[k + 1] \notin T
  <2>1. q = r
    BY <1>2
  <2>2. f \in [1..Len(r) -> 1..(k + 1)]
    BY DEF PlacedBy
  <2>3. \A p \in 1..(k + 1) : s[p] \in T => p \in 1..k
    BY <1>2
  <2>4. PlacedBy(f, r, s, T, k + 1)
    BY <2>2, <2>3 DEF PlacedBy
  <2> QED
    BY <2>1, <2>4
<1> QED
  BY <1>1, <1>2

\* What Select() returns: the elements of s that lie in T, each from its own
\* place, in the order of the places.
THEOREM SelectPlaces ==
  ASSUME NEW S, NEW s \in Seq(S), NEW T
  PROVE  /\ Select(s, T) \in Seq(S)
         /\ \E f : PlacedBy(f, Select(s, T), s, T, Len(s))
<1>1. Len(s) \in Nat
  OBVIOUS
<1>2. PICK F : Taken(F, s, T, Len(s)) /\ Select(s, T) = F[Len(s)]
  BY <1>1, SelectIsTaken
<1> DEFINE Wrong == {k \in 0..Len(s) : ~(F[k] \in Seq(S) /\ \E f : PlacedBy(f, F[k], s, T, k))}
<1> SUFFICES ASSUME Wrong # {} PROVE FALSE
  BY <1>1, <1>2
<1>3. PICK m \in Wrong : \A k \in Wrong : m <= k
  <2>1. Wrong \subseteq Nat
    BY <1>1
  <2> QED
    BY <2>1, LeastNatural
<1>4. \A i \in 0..Len(s) : F[i] = IF i = 0 THEN <<>>
                                  ELSE IF s[i] \in T THEN Append(F[i - 1], s[i]) ELSE F[i - 1]
  BY <1>2 DEF Taken
<1>5. m # 0
  <2>1. F[0] = <<>>
    BY <1>1, <1>4
  <2>2. <<>> \in Seq(S) /\ PlacedBy(<<>>, <<>>, s, T, 0)
    BY DEF PlacedBy
  <2> QED
    BY <2>1, <2>2
<1>6. /\ m \in Nat /\ m - 1 \in Nat /\ m - 1 < Len(s) /\ m - 1 \in 0..Len(s)
      /\ m - 1 \notin Wrong
  BY <1>1, <1>3, <1>5
<1>7. F[m - 1] \in Seq(S) /\ \E f : PlacedBy(f, F[m - 1], s, T, m - 1)
  BY <1>6
<1>8. PICK f : PlacedBy(f, F[m - 1], s, T, m - 1)
  BY <1>7
<1>9. F[m] = IF s[(m - 1) + 1] \in T THEN Append(F[m - 1], s[(m - 1) + 1]) ELSE F[m - 1]
  BY <1>3, <1>4, <1>5, <1>6
<1>10. F[m] \in Seq(S) /\ \E g : PlacedBy(g, F[m], s, T, (m - 1) + 1)
  BY <1>6, <1>7, <1>8, <1>9, PlacedByNext
<1>11. (m - 1) + 1 = m
  BY <1>6
<1> QED
  BY <1>10, <1>11

\* What Append() adds: one element, at the end.
LEMMA AppendPlaces ==
  ASSUME NEW S, NEW s \in Seq(S), NEW x \in S
  PROVE  /\ Append(s, x) \in Seq(S)
         /\ DOMAIN Append(s, x) = DOMAIN s \cup {Len(s) + 1}
         /\ \A i \in DOMAIN s : i \in Nat /\ i < Len(s) + 1 /\ Append(s, x)[i] = s[i]
         /\ Append(s, x)[Len(s) + 1] = x
         /\ Len(s) \in Nat /\ Len(s) + 1 \notin DOMAIN s
  OBVIOUS

\* w, a sequence of elements of S, is s followed by r.
Joined(w, s, r, S) ==
  /\ w \in Seq(S) /\ Len(w) = Len(s) + Len(r)
  /\ \A i \in 1..Len(s) : w[i] = s[i]
  /\ \A i \in 1..Len(r) : w[Len(s) + i] = r[i]

LEMMA ConcatPlaces ==
  ASSUME NEW S, NEW s \in Seq(S), NEW r \in Seq(S)
  PROVE  Joined(s \o r, s, r, S)
  BY DEF Joined

\* A sequence in increasing order stays so when a greater element is added.
LEMMA AppendInOrder ==
  ASSUME NEW S \in SUBSET Int, NEW s \in Seq(S), NEW x \in S, \A i \in DOMAIN s : s[i] < x,
         \A i, j \in DOMAIN s : i < j => s[i] < s[j]
  PROVE  \A i, j \in DOMAIN Append(s, x) : i < j => Append(s, x)[i] < Append(s, x)[j]
<1> DEFINE a == Append(s, x)
<1>1. /\ DOMAIN a = DOMAIN s \cup {Len(s) + 1}
      /\ \A i \in DOMAIN s : i \in Nat /\ i < Len(s) + 1 /\ a[i] = s[i]
      /\ a[Len(s) + 1] = x
      /\ Len(s) \in Nat
  BY AppendPlaces
<1> HIDE DEF a
<1> SUFFICES ASSUME NEW i \in DOMAIN a, NEW j \in DOMAIN a, i < j PROVE a[i] < a[j]
  BY DEF a
<1>2. i \in DOMAIN s
  BY <1>1
<1> QED
  BY <1>1, <1>2

\* A sequence has no more elements than places.
LEMMA ElementsCounted ==
  ASSUME NEW S, NEW s \in Seq(S)
  PROVE  LET all == {s[i] : i \in DOMAIN s}
         IN  IsFiniteSet(all) /\ Cardinality(all) \in 0..Len(s)
<1> DEFINE all == {s[i] : i \in DOMAIN s}
<1>1. PICK n \in Nat : n = Len(s) /\ DOMAIN s = 1..n
  OBVIOUS
<1>2. s \in [1..n -> all] /\ \A x \in all : \E i \in 1..n : s[i] = x
  BY <1>1
<1> HIDE DEF all
<1>3. s \in Surjection(1..n, all)
  BY <1>2 DEF Surjection
<1>4. IsFiniteSet(1..n) /\ Cardinality(1..n) = n
  BY FS_Interval
<1>5. IsFiniteSet(all) /\ Cardinality(all) <= n
  BY <1>3, <1>4, FS_Surjection
<1>6. Cardinality(all) \in Nat
  BY <1>5, FS_CardinalityType
<1> QED
  BY <1>1, <1>5, <1>6 DEF all

\* k is s without its first t elements.
Suffix(k, s, t) ==
  /\ Len(k) = Len(s) - t /\ Len(k) \in Nat /\ DOMAIN k = 1..Len(k)
  /\ \A i \in 1..Len(k) : i + t \in 1..Len(s) /\ k[i] = s[i + t]
  /\ \A i \in 1..Len(s) : i > t => i - t \in 1..Len(k) /\ k[i - t] = s[i]

LEMMA SubSeqSuffix ==
  ASSUME NEW S, NEW s \in Seq(S), NEW t \in 0..Len(s)
  PROVE  SubSeq(s, t + 1, Len(s)) \in Seq(S) /\ Suffix(SubSeq(s, t + 1, Len(s)), s, t)
<1> DEFINE k == SubSeq(s, t + 1, Len(s))
<1>1. t \in Nat /\ Len(s) \in Nat /\ t <= Len(s)
  OBVIOUS
<1>2. k \in Seq(S) /\ Len(k) = Len(s) - t /\ DOMAIN k = 1..Len(k)
  BY <1>1
<1>3. \A i \in 1..Len(k) : k[i] = s[i + t]
  BY <1>1
<1> HIDE DEF k
<1>4. \A i \in 1..Len(k) : i + t \in 1..Len(s)
  BY <1>1, <1>2
<1>5. ASSUME NEW i \in 1..Len(s), i > t
      PROVE  i - t \in 1..Len(k) /\ k[i - t] = s[i]
  <2>1. i - t \in 1..Len(k) /\ (i - t) + t = i
    BY <1>1, <1>2, <1>5
  <2> QED
    BY <1>3, <2>1
<1>6. Suffix(k, s, t)
  BY <1>1, <1>2, <1>3, <1>4, <1>5 DEF Suffix
<1> QED
  BY <1>2, <1>6 DEF k
----------------------------------------------------------------------------
(* Sums. *)

\* F[i] is the sum up to place i, for i up to k.
Summed(F, f, T, k) ==
  F = [i \in 0..k |-> IF i = 0 THEN 0 ELSE F[i - 1] + (IF i \in T THEN f[i] ELSE 0)]

LEMMA SummedNext ==
  ASSUME NEW f, NEW T, NEW n \in Nat, n # 0, NEW F, Summed(F, f, T, n - 1)
  PROVE  \E G : Summed(G, f, T, n)
<1> DEFINE next == F[n - 1] + (IF n \in T THEN f[n] ELSE 0)
           G == [i \in 0..n |-> IF i = n THEN next ELSE F[i]]
<1>1. \A i \in 0..n : G[i] = IF i = 0 THEN 0 ELSE G[i - 1] + (IF i \in T THEN f[i] ELSE 0)
  <2> TAKE i \in 0..n
  <2>1. CASE i = n
    <3>1. G[n - 1] = F[n - 1] /\ G[n] = next
      OBVIOUS
    <3> HIDE DEF G
    <3> QED
      BY <2>1, <3>1
  <2>2. CASE i # n
    <3>1. i \in 0..(n - 1) /\ G[i] = F[i] /\ (i # 0 => G[i - 1] = F[i - 1])
      BY <2>2
    <3>2. F[i] = IF i = 0 THEN 0 ELSE F[i - 1] + (IF i \in T THEN f[i] ELSE 0)
      BY <3>1 DEF Summed
    <3> HIDE DEF G
    <3> QED
      BY <3>1, <3>2
  <2> QED
    BY <2>1, <2>2
<1>2. G = [i \in 0..n |-> G[i]]
  OBVIOUS
<1> HIDE DEF G
<1>3. Summed(G, f, T, n)
  BY <1>1, <1>2 DEF Summed
<1> QED
  BY <1>3

LEMMA SummedExists ==
  ASSUME NEW f, NEW T, NEW n \in Nat
  PROVE  \E F : Summed(F, f, T, n)
<1> DEFINE Without == {k \in Nat : ~\E F : Summed(F, f, T, k)}
<1> SUFFICES ASSUME Without # {} PROVE FALSE
  OBVIOUS
<1>1. PICK m \in Without : \A k \in Without : m <= k
  BY LeastNatural
<1>2. Summed([i \in 0..0 |-> 0], f, T, 0)
  BY DEF Summed
<1>3. m # 0
  BY <1>2
<1>4. m - 1 \in Nat /\ m - 1 \notin Without
  BY <1>1, <1>3
<1>5. PICK F : Summed(F, f, T, m - 1)
  BY <1>4
<1>6. \E G : Summed(G, f, T, m)
  BY <1>3, <1>5, SummedNext
<1> QED
  BY <1>6

LEMMA TotalIsSummed ==
  ASSUME NEW f, NEW T, NEW n \in Nat
  PROVE  \E F : Summed(F, f, T, n) /\ Total(f, n, T) = F[n]
<1>1. \E F : Summed(F, f, T, n)
  BY SummedExists
<1>2. Total(f, n, T) = (CHOOSE F : Summed(F, f, T, n))[n]
  BY DEF Total, Summed
<1> QED
  BY <1>1, <1>2

\* The sums up to a place do not depend on what comes after it.
LEMMA SummedSame ==
  ASSUME NEW f, NEW T, NEW n \in Nat, NEW k \in 0..n, NEW F, Summed(F, f, T, k),
         NEW G, Summed(G, f, T, n)
  PROVE  F[k] = G[k]
<1> DEFINE Differ == {i \in 0..k : F[i] # G[i]}
<1> SUFFICES ASSUME Differ # {} PROVE FALSE
  OBVIOUS
<1>1. PICK m \in Differ : \A i \in Differ : m <= i
  <2>1. Differ \subseteq Nat
    OBVIOUS
  <2> QED
    BY <2>1, LeastNatural
<1>2. F[m] = IF m = 0 THEN 0 ELSE F[m - 1] + (IF m \in T THEN f[m] ELSE 0)
  BY DEF Summed
<1>3. G[m] = IF m = 0 THEN 0 ELSE G[m - 1] + (IF m \in T THEN f[m] ELSE 0)
  BY DEF Summed
<1>4. m # 0
  BY <1>2, <1>3
<1>5. m - 1 \in 0..k /\ m - 1 \notin Differ
  BY <1>1, <1>4
<1> QED
  BY <1>2, <1>3, <1>4, <1>5

\* No place, and one place more.
LEMMA TotalNone ==
  ASSUME NEW f, NEW T
  PROVE  Total(f, 0, T) = 0
<1>1. PICK F : Summed(F, f, T, 0) /\ Total(f, 0, T) = F[0]
  BY TotalIsSummed
<1> QED
  BY <1>1 DEF Summed

LEMMA TotalNext ==
  ASSUME NEW f, NEW T, NEW n \in Nat, n # 0
  PROVE  Total(f, n, T) = Total(f, n - 1, T) + (IF n \in T THEN f[n] ELSE 0)
<1>1. n - 1 \in Nat /\ n - 1 \in 0..n
  OBVIOUS
<1>2. PICK F : Summed(F, f, T, n - 1) /\ Total(f, n - 1, T) = F[n - 1]
  BY <1>1, TotalIsSummed
<1>3. PICK G : Summed(G, f, T, n) /\ Total(f, n, T) = G[n]
  BY TotalIsSummed
<1>4. F[n - 1] = G[n - 1]
  BY <1>1, <1>2, <1>3, SummedSame
<1>5. G[n] = G[n - 1] + (IF n \in T THEN f[n] ELSE 0)
  BY <1>3 DEF Summed
<1> QED
  BY <1>2, <1>3, <1>4, <1>5

\* A sum of natural numbers is one.
LEMMA TotalTyped ==
  ASSUME NEW f, NEW T, NEW n \in Nat, \A i \in 1..n : f[i] \in Nat
  PROVE  Total(f, n, T) \in Nat
<1> DEFINE Wrong == {k \in 0..n : Total(f, k, T) \notin Nat}
<1> SUFFICES ASSUME Wrong # {} PROVE FALSE
  OBVIOUS
<1>1. PICK m \in Wrong : \A i \in Wrong : m <= i
  <2>1. Wrong \subseteq Nat
    OBVIOUS
  <2> QED
    BY <2>1, LeastNatural
<1>2. m # 0
  BY TotalNone
<1>3. m - 1 \in 0..n /\ m - 1 \notin Wrong /\ m \in 1..n
  BY <1>1, <1>2
<1>4. Total(f, m, T) = Total(f, m - 1, T) + (IF m \in T THEN f[m] ELSE 0)
  BY <1>2, TotalNext
<1>5. Total(f, m - 1, T) \in Nat /\ f[m] \in Nat
  BY <1>3
<1> QED
  BY <1>4, <1>5

\* The sum over two sets of places is that over the one and that over the other.
LEMMA TotalSplits ==
  ASSUME NEW f, NEW n \in Nat, \A i \in 1..n : f[i] \in Nat,
         NEW T, NEW D, NEW E, D \cup E = T, D \cap E = {}
  PROVE  Total(f, n, T) = Total(f, n, D) + Total(f, n, E)
<1> DEFINE Right(k) == Total(f, k, T) = Total(f, k, D) + Total(f, k, E)
           Wrong == {k \in 0..n : ~Right(k)}
<1> SUFFICES ASSUME Wrong # {} PROVE FALSE
  <2>1. n \in 0..n
    OBVIOUS
  <2> HIDE DEF Right
  <2>2. Right(n)
    BY <2>1
  <2> QED
    BY <2>2 DEF Right
<1>1. PICK m \in Wrong : \A i \in Wrong : m <= i
  <2>1. Wrong \subseteq Nat
    OBVIOUS
  <2> QED
    BY <2>1, LeastNatural
<1>2. m # 0
  BY TotalNone
<1>3. m - 1 \in Nat /\ m - 1 \in 0..n /\ m - 1 \notin Wrong /\ m \in 1..n
  BY <1>1, <1>2
<1>4. PICK a \in Nat : a = Total(f, m - 1, D)
  BY <1>3, TotalTyped
<1>5. PICK b \in Nat : b = Total(f, m - 1, E)
  BY <1>3, TotalTyped
<1>6. Total(f, m - 1, T) = a + b
  BY <1>3, <1>4, <1>5
<1>7. Total(f, m, T) = (a + b) + (IF m \in T THEN f[m] ELSE 0)
  BY <1>2, <1>6, TotalNext
<1>8. Total(f, m, D) = a + (IF m \in D THEN f[m] ELSE 0)
  BY <1>2, <1>4, TotalNext
<1>9. Total(f, m, E) = b + (IF m \in E THEN f[m] ELSE 0)
  BY <1>2, <1>5, TotalNext
<1>10. Total(f, m, T) = Total(f, m, D) + Total(f, m, E)
  <2>1. f[m] \in Nat
    BY <1>3
  <2> QED
    BY <1>7, <1>8, <1>9, <2>1
<1> QED
  BY <1>10

\* h draws the first m places of g, in order, from the first n places of f: the
\* places that count are those.
Drawn(g, U, m, h, f, T, n) ==
  /\ h \in [1..m -> 1..n]
  /\ \A i, j \in 1..m : i < j => h[i] < h[j]
  /\ \A i \in 1..m : (i \in U => g[i] = f[h[i]]) /\ (i \in U <=> h[i] \in T)
  /\ \A p \in 1..n : p \in T => \E i \in 1..m : h[i] = p

\* Dropping places that do not count leaves the sum.
LEMMA TotalDrawn ==
  ASSUME NEW f, NEW T, NEW n \in Nat, NEW g, NEW U, NEW m \in Nat, NEW h,
         Drawn(g, U, m, h, f, T, n), \A i \in 1..n : f[i] \in Nat
  PROVE  Total(g, m, U) = Total(f, n, T)
<1> DEFINE Wrong == {k \in 0..n : \E l \in Nat : \E d :
                       Drawn(g, U, l, d, f, T, k) /\ Total(g, l, U) # Total(f, k, T)}
<1> SUFFICES ASSUME Wrong # {} PROVE FALSE
  OBVIOUS
<1>1. PICK k \in Wrong : \A i \in Wrong : k <= i
  <2>1. Wrong \subseteq Nat
    OBVIOUS
  <2> QED
    BY <2>1, LeastNatural
<1>2. PICK l \in Nat : \E e : Drawn(g, U, l, e, f, T, k) /\ Total(g, l, U) # Total(f, k, T)
  OBVIOUS
<1> PICK d : Drawn(g, U, l, d, f, T, k) /\ Total(g, l, U) # Total(f, k, T)
  BY <1>2
<1>3. k # 0
  <2> SUFFICES ASSUME k = 0 PROVE FALSE
    OBVIOUS
  <2>1. l = 0
    <3> SUFFICES ASSUME 1 \in 1..l PROVE FALSE
      BY <1>2
    <3>1. d[1] \in 1..0
      BY <1>2 DEF Drawn
    <3> QED
      BY <3>1
  <2> QED
    BY <1>2, <2>1, TotalNone
<1>4. k - 1 \in Nat /\ k - 1 \in 0..n /\ k - 1 \notin Wrong /\ k \in 1..k
  BY <1>1, <1>3
<1>5. Total(f, k, T) = Total(f, k - 1, T) + (IF k \in T THEN f[k] ELSE 0)
  BY <1>3, TotalNext
<1>6. CASE \E i \in 1..l : d[i] = k
  <2>1. PICK i \in 1..l : d[i] = k
    BY <1>6
  <2>2. i = l /\ l # 0 /\ l - 1 \in Nat /\ l \in 1..l
    <3>1. l \in 1..l /\ d[l] \in 1..k
      BY <1>2, <2>1 DEF Drawn
    <3>2. ~(i < l)
      BY <1>2, <2>1, <3>1 DEF Drawn
    <3> QED
      BY <2>1, <3>1, <3>2
  <2> DEFINE e == [j \in 1..(l - 1) |-> d[j]]
  <2>3. \A j \in 1..(l - 1) : /\ j \in 1..l /\ e[j] = d[j] /\ d[j] \in 1..(k - 1)
    <3> TAKE j \in 1..(l - 1)
    <3>1. j \in 1..l /\ j < l /\ e[j] = d[j] /\ d[j] \in 1..k
      BY <1>2, <2>2 DEF Drawn
    <3>2. d[j] < d[l] /\ d[l] = k
      BY <1>2, <2>1, <2>2, <3>1 DEF Drawn
    <3> QED
      BY <3>1, <3>2
  <2>4. e \in [1..(l - 1) -> 1..(k - 1)]
    BY <2>3
  <2> HIDE DEF e
  <2>5. \A p \in 1..(k - 1) : p \in T => \E j \in 1..(l - 1) : e[j] = p
    <3> SUFFICES ASSUME NEW p \in 1..(k - 1), p \in T
                 PROVE  \E j \in 1..(l - 1) : e[j] = p
      OBVIOUS
    <3>1. PICK j \in 1..l : d[j] = p
      BY <1>2, <1>4 DEF Drawn
    <3>2. j # l
      BY <2>1, <2>2, <3>1
    <3>3. j \in 1..(l - 1)
      BY <2>2, <3>2
    <3> QED
      BY <2>3, <3>1, <3>3
  <2>6. Drawn(g, U, l - 1, e, f, T, k - 1)
    <3>1. \A a, b \in 1..(l - 1) : a < b => e[a] < e[b]
      BY <1>2, <2>3 DEF Drawn
    <3>2. \A a \in 1..(l - 1) : (a \in U => g[a] = f[e[a]]) /\ (a \in U <=> e[a] \in T)
      BY <1>2, <2>3 DEF Drawn
    <3> QED
      BY <2>4, <2>5, <3>1, <3>2 DEF Drawn
  <2>7. Total(g, l - 1, U) = Total(f, k - 1, T)
    BY <1>4, <2>2, <2>6
  <2>8. Total(g, l, U) = Total(g, l - 1, U) + (IF l \in U THEN g[l] ELSE 0)
    BY <2>2, TotalNext
  <2>9. (l \in U <=> k \in T) /\ (l \in U => g[l] = f[k])
    BY <1>2, <2>1, <2>2 DEF Drawn
  <2> QED
    BY <1>2, <1>5, <2>7, <2>8, <2>9
<1>7. CASE ~\E i \in 1..l : d[i] = k
  <2>1. k \notin T
    BY <1>2, <1>4, <1>7 DEF Drawn
  <2>2. \A i \in 1..l : d[i] \in 1..(k - 1)
    <3> TAKE i \in 1..l
    <3>1. d[i] \in 1..k /\ d[i] # k
      BY <1>2, <1>7 DEF Drawn
    <3> QED
      BY <3>1
  <2>3. d \in [1..l -> 1..(k - 1)]
    BY <1>2, <2>2 DEF Drawn
  <2>4. Drawn(g, U, l, d, f, T, k - 1)
    <3>1. \A p \in 1..(k - 1) : p \in 1..k
      BY <1>4
    <3> QED
      BY <1>2, <2>3, <3>1 DEF Drawn
  <2>5. Total(g, l, U) = Total(f, k - 1, T)
    BY <1>4, <2>4
  <2>6. Total(f, k, T) = Total(f, k - 1, T) + 0
    BY <1>5, <2>1
  <2>7. Total(f, k - 1, T) \in Nat
    BY <1>4, TotalTyped
  <2> QED
    BY <1>2, <2>5, <2>6, <2>7
<1> QED
  BY <1>6, <1>7
----------------------------------------------------------------------------
(* Counting. *)

\* Two sets that are matched one to one have as many elements.
LEMMA SameCount ==
  ASSUME NEW S, IsFiniteSet(S), NEW T, NEW f \in [S -> T],
         \A x, y \in S : f[x] = f[y] => x = y, \A y \in T : \E x \in S : f[x] = y
  PROVE  IsFiniteSet(T) /\ Cardinality(T) = Cardinality(S)
<1>1. f \in Bijection(S, T)
  BY DEF Bijection, Injection, Surjection, IsInjective
<1>2. ExistsBijection(S, T)
  BY <1>1 DEF ExistsBijection
<1> QED
  BY <1>2, FS_Bijection

\* A set of places that has all places before each of its own is a prefix.
LEMMA PrefixCounted ==
  ASSUME NEW n \in Nat, NEW P \in SUBSET (1..n),
         \A i \in P : \A j \in 1..n : j < i => j \in P
  PROVE  Cardinality(P) \in 0..n /\ P = 1..Cardinality(P)
<1> DEFINE Missing == {i \in 1..(n + 1) : i \notin P}
<1>1. PICK m \in Missing : \A i \in Missing : m <= i
  <2>1. Missing \subseteq Nat /\ n + 1 \in Missing
    OBVIOUS
  <2> QED
    BY <2>1, LeastNatural
<1>2. P = 1..(m - 1) /\ m - 1 \in 0..n
  <2>1. \A i \in 1..(m - 1) : i \in P
    BY <1>1
  <2>2. ASSUME NEW i \in P PROVE i \in 1..(m - 1)
    <3>1. m \in 1..n => ~(m < i)
      OBVIOUS
    <3> QED
      BY <3>1
  <2>3. m - 1 \in 0..n
    OBVIOUS
  <2> HIDE DEF Missing
  <2>4. P = 1..(m - 1)
    BY <2>1, <2>2
  <2> QED
    BY <2>3, <2>4
<1>3. Cardinality(1..(m - 1)) = m - 1
  <2>1. 1 \in Int /\ m - 1 \in Int
    OBVIOUS
  <2> QED
    BY <1>2, <2>1, FS_Interval
<1> QED
  BY <1>2, <1>3

\* The places left of the first n, once those in drop are gone: f is where they were.
Left(f, m, n, drop) ==
  /\ m \in Nat /\ f \in [1..m -> 1..n]
  /\ \A i, j \in 1..m : i < j => f[i] < f[j]
  /\ \A i \in 1..m : f[i] \notin drop
  /\ \A p \in 1..n : p \notin drop => \E i \in 1..m : f[i] = p

\* What is left of a prefix is a prefix, shorter by what was dropped of it.
LEMMA PrefixLeft ==
  ASSUME NEW n \in Nat, NEW t \in 0..n, NEW m, NEW f, NEW drop, Left(f, m, n, drop)
  PROVE  LET l == t - Cardinality(drop \cap (1..t))
         IN  l \in 0..m /\ \A i \in 1..m : f[i] <= t <=> i <= l
<1>1. m \in Nat /\ f \in [1..m -> 1..n]
  BY DEF Left
<1> DEFINE P == {i \in 1..m : f[i] <= t}
           Q == (1..t) \ drop
<1>2. Cardinality(P) \in 0..m /\ P = 1..Cardinality(P)
  <2>1. ASSUME NEW i \in P, NEW j \in 1..m, j < i PROVE j \in P
    <3>1. f[j] < f[i] /\ f[i] <= t /\ f[i] \in 1..n /\ f[j] \in 1..n
      BY <1>1, <2>1 DEF Left
    <3> QED
      BY <3>1
  <2>2. P \in SUBSET (1..m)
    OBVIOUS
  <2> HIDE DEF P
  <2> QED
    BY <1>1, <2>1, <2>2, PrefixCounted
<1>3. Cardinality(Q) = Cardinality(P)
  <2> DEFINE g == [i \in P |-> f[i]]
  <2>1. IsFiniteSet(P)
    <3>1. P \in SUBSET (1..m)
      OBVIOUS
    <3> HIDE DEF P
    <3> QED
      BY <1>1, <3>1, PlacesCounted
  <2>2. g \in [P -> Q]
    <3>1. ASSUME NEW i \in P PROVE f[i] \in Q
      BY <1>1, <3>1 DEF Left
    <3> QED
      BY <3>1
  <2>3. \A x, y \in P : g[x] = g[y] => x = y
    <3> TAKE x, y \in P
    <3>1. x \in 1..m /\ y \in 1..m /\ g[x] = f[x] /\ g[y] = f[y] /\ f[x] \in Nat /\ f[y] \in Nat
      BY <1>1
    <3>2. (x < y => f[x] < f[y]) /\ (y < x => f[y] < f[x])
      BY <3>1 DEF Left
    <3> QED
      BY <3>1, <3>2
  <2>4. ASSUME NEW y \in Q PROVE \E x \in P : g[x] = y
    <3>1. y \in 1..n /\ y \notin drop /\ y <= t
      OBVIOUS
    <3>2. PICK x \in 1..m : f[x] = y
      BY <3>1 DEF Left
    <3>3. x \in P
      BY <3>1, <3>2
    <3> QED
      BY <3>2, <3>3
  <2> HIDE DEF P, Q, g
  <2> QED
    BY <2>1, <2>2, <2>3, <2>4, SameCount
<1>4. Cardinality(Q) = t - Cardinality(drop \cap (1..t))
  <2>1. IsFiniteSet(1..t) /\ Cardinality(1..t) = t
    BY FS_Interval
  <2>2. (1..t) \cap drop = drop \cap (1..t)
    OBVIOUS
  <2> QED
    BY <2>1, <2>2, FS_Difference
<1>5. PICK l \in 0..m : l = Cardinality(P) /\ l = t - Cardinality(drop \cap (1..t))
  BY <1>2, <1>3, <1>4
<1>6. \A i \in 1..m : f[i] <= t <=> i <= l
  <2>1. \A i \in 1..m : f[i] <= t <=> i \in P
    OBVIOUS
  <2>2. P = 1..l
    BY <1>2, <1>5
  <2> HIDE DEF P
  <2> QED
    BY <2>1, <2>2
<1> QED
  BY <1>5, <1>6
=============================================================================
