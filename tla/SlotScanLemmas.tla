---------------------------- MODULE SlotScanLemmas ---------------------------
(***************************************************************************)
(* What the definitions of SlotScan make of sequences, slots and windows,  *)
(* whatever the state of the scan: the selections in record order, the log *)
(* of a sequence of parses, the plan of PlanSlotRanges(), the windows of   *)
(* SlotReader, the chunks of a batch, the outcomes of the threads, and the *)
(* parses one thread makes.                                                *)
(***************************************************************************)
EXTENDS SlotScan, SelectionProofs
----------------------------------------------------------------------------
(* Sequences. *)

\* q is s with e after its last element.
Appended(q, s, e) ==
  /\ Len(s) \in Nat /\ Len(q) = Len(s) + 1
  /\ q = [i \in 1..(Len(s) + 1) |-> q[i]]
  /\ q[Len(s) + 1] = e
  /\ \A i \in 1..Len(s) : q[i] = s[i]

LEMMA AppendIsAppended ==
  ASSUME NEW S, NEW s \in Seq(S), NEW e \in S
  PROVE  Append(s, e) \in Seq(S) /\ Appended(Append(s, e), s, e)
<1> DEFINE q == Append(s, e)
<1>1. q \in Seq(S) /\ Len(s) \in Nat /\ Len(q) = Len(s) + 1
  OBVIOUS
<1>2. q[Len(s) + 1] = e /\ \A i \in 1..Len(s) : q[i] = s[i]
  OBVIOUS
<1> HIDE DEF q
<1>3. q = [i \in 1..Len(q) |-> q[i]]
  BY <1>1
<1>4. Appended(q, s, e)
  BY <1>1, <1>2, <1>3 DEF Appended
<1> QED
  BY <1>1, <1>4 DEF q

\* One turn of the recursion in Select().
TurnOf(F, s, T, i) ==
  /\ i = 0 => F[i] = <<>>
  /\ i # 0 => F[i] = IF s[i] \in T THEN Append(F[i - 1], s[i]) ELSE F[i - 1]

SameUpTo(s, r, k) == \A i \in 1..k : s[i] = r[i]

LEMMA TakenStep ==
  ASSUME NEW T, NEW s, NEW n \in Nat, NEW F, Taken(F, s, T, n), NEW i \in 0..n
  PROVE  TurnOf(F, s, T, i)
<1>1. F[i] = IF i = 0 THEN <<>>
             ELSE IF s[i] \in T THEN Append(F[i - 1], s[i]) ELSE F[i - 1]
  BY DEF Taken
<1> QED
  BY <1>1 DEF TurnOf

\* What is selected of the first k elements depends on those alone.
LEMMA TakenSame ==
  ASSUME NEW T, NEW s, NEW r, NEW m \in Nat, NEW n \in Nat, NEW k \in Nat, k <= m, k <= n,
         NEW F, Taken(F, s, T, m), NEW G, Taken(G, r, T, n),
         SameUpTo(s, r, k)
  PROVE  F[k] = G[k]
<1> DEFINE Differ == {i \in 0..k : F[i] # G[i]}
<1> SUFFICES ASSUME Differ # {} PROVE FALSE
  OBVIOUS
<1>1. PICK d \in Differ : \A i \in Differ : d <= i
  <2>1. Differ \subseteq Nat
    OBVIOUS
  <2> QED
    BY <2>1, LeastNatural
<1>2. /\ d = 0 => F[d] = <<>>
      /\ d # 0 => F[d] = IF s[d] \in T THEN Append(F[d - 1], s[d]) ELSE F[d - 1]
  <2>1. d \in 0..m
    OBVIOUS
  <2>2. TurnOf(F, s, T, d)
    BY <2>1, TakenStep
  <2> QED
    BY <2>2 DEF TurnOf
<1>3. /\ d = 0 => G[d] = <<>>
      /\ d # 0 => G[d] = IF r[d] \in T THEN Append(G[d - 1], r[d]) ELSE G[d - 1]
  <2>1. d \in 0..n
    OBVIOUS
  <2>2. TurnOf(G, r, T, d)
    BY <2>1, TakenStep
  <2> QED
    BY <2>2 DEF TurnOf
<1>4. d # 0
  BY <1>2, <1>3
<1>5. d - 1 \in 0..k /\ d - 1 \notin Differ /\ s[d] = r[d]
  BY <1>1, <1>4 DEF SameUpTo
<1> QED
  BY <1>2, <1>3, <1>4, <1>5

\* What Select() does with one element more.
LEMMA SelectAppend ==
  ASSUME NEW S, NEW s \in Seq(S), NEW e \in S, NEW T
  PROVE  Select(Append(s, e), T) = IF e \in T THEN Append(Select(s, T), e) ELSE Select(s, T)
<1> DEFINE a == Append(s, e)
           n == Len(s)
<1>1. n \in Nat /\ Len(a) = n + 1 /\ a[n + 1] = e /\ SameUpTo(s, a, n)
  BY DEF SameUpTo
<1> HIDE DEF a, n
<1>2. PICK F : Taken(F, s, T, n) /\ Select(s, T) = F[n]
  BY <1>1, SelectIsTaken DEF n
<1>3. PICK G : Taken(G, a, T, n + 1) /\ Select(a, T) = G[n + 1]
  BY <1>1, SelectIsTaken
<1>4. F[n] = G[n]
  <2>1. n + 1 \in Nat /\ n <= n /\ n <= n + 1
    BY <1>1
  <2> QED
    BY <1>1, <1>2, <1>3, <2>1, TakenSame
<1>5. n + 1 \in Nat /\ n + 1 \in 0..(n + 1) /\ n + 1 # 0 /\ (n + 1) - 1 = n
  BY <1>1
<1>6. G[n + 1] = IF a[n + 1] \in T THEN Append(G[(n + 1) - 1], a[n + 1]) ELSE G[(n + 1) - 1]
  <2>1. TurnOf(G, a, T, n + 1)
    BY <1>3, <1>5, TakenStep
  <2> QED
    BY <1>5, <2>1 DEF TurnOf
<1> QED
  BY <1>1, <1>2, <1>3, <1>4, <1>5, <1>6 DEF a

LEMMA SelectNone ==
  ASSUME NEW T
  PROVE  Select(<<>>, T) = <<>>
<1>1. PICK F : Taken(F, <<>>, T, 0) /\ Select(<<>>, T) = F[0]
  BY SelectIsTaken
<1> QED
  BY <1>1 DEF Taken

\* The elements of s, in the places of a sequence of places.
Mapped(s, places) == [i \in DOMAIN places |-> s[places[i]]]

\* To select the places of some elements is to select the elements.
LEMMA SelectByPlace ==
  ASSUME NEW S, NEW s \in Seq(S), NEW T, NEW Q,
         \A i \in DOMAIN s : i \in Q <=> s[i] \in T
  PROVE  LET kept == Select([i \in 1..Len(s) |-> i], Q)
         IN  Mapped(s, kept) = Select(s, T)
<1> DEFINE n == Len(s)
           id == [i \in 1..n |-> i]
<1>1. n \in Nat /\ DOMAIN s = 1..n /\ Len(id) = n /\ \A i \in 1..n : id[i] = i
  OBVIOUS
<1> HIDE DEF n, id
<1>2. PICK F : Taken(F, id, Q, n) /\ Select(id, Q) = F[n]
  BY <1>1, SelectIsTaken
<1>3. PICK G : Taken(G, s, T, n) /\ Select(s, T) = G[n]
  BY <1>1, SelectIsTaken DEF n
<1> DEFINE Good(k) == F[k] \in Seq(1..n) /\ G[k] \in Seq(S) /\ Mapped(s, F[k]) = G[k]
           Wrong == {k \in 0..n : ~Good(k)}
<1> SUFFICES ASSUME Wrong # {} PROVE FALSE
  BY <1>1, <1>2, <1>3 DEF id, n
<1>4. PICK d \in Wrong : \A i \in Wrong : d <= i
  <2>1. Wrong \subseteq Nat
    BY <1>1
  <2> QED
    BY <2>1, LeastNatural
<1>5. /\ d = 0 => F[d] = <<>>
      /\ d # 0 => F[d] = IF id[d] \in Q THEN Append(F[d - 1], id[d]) ELSE F[d - 1]
  <2>1. TurnOf(F, id, Q, d)
    BY <1>1, <1>2, TakenStep
  <2> QED
    BY <2>1 DEF TurnOf
<1>6. /\ d = 0 => G[d] = <<>>
      /\ d # 0 => G[d] = IF s[d] \in T THEN Append(G[d - 1], s[d]) ELSE G[d - 1]
  <2>1. TurnOf(G, s, T, d)
    BY <1>1, <1>3, TakenStep
  <2> QED
    BY <2>1 DEF TurnOf
<1>7. d # 0
  <2>1. Mapped(s, <<>>) = <<>> /\ <<>> \in Seq(1..n) /\ <<>> \in Seq(S)
    BY DEF Mapped
  <2>2. ~Good(d)
    OBVIOUS
  <2> QED
    BY <1>5, <1>6, <2>1, <2>2
<1>8. d - 1 \in 0..n /\ d \in 1..n /\ Good(d - 1)
  BY <1>1, <1>4, <1>7
<1>9. CASE d \notin Q
  BY <1>1, <1>5, <1>6, <1>7, <1>8, <1>9
<1>10. CASE d \in Q
  <2> DEFINE f == F[d - 1]
             g == G[d - 1]
  <2>1. f \in Seq(1..n) /\ g \in Seq(S) /\ Mapped(s, f) = g
    BY <1>8
  <2>2. F[d] = Append(f, d) /\ G[d] = Append(g, s[d]) /\ s[d] \in S
    <3>1. id[d] = d /\ s[d] \in T /\ s[d] \in S
      BY <1>1, <1>8, <1>10 DEF n
    <3> QED
      BY <3>1, <1>5, <1>6, <1>7, <1>10
  <2> HIDE DEF f, g
  <2>3. F[d] \in Seq(1..n) /\ G[d] \in Seq(S)
    BY <2>1, <2>2, <1>8
  <2>4. Mapped(s, Append(f, d)) = Append(g, s[d])
    <3> DEFINE fa == Append(f, d)
               ga == Append(g, s[d])
    <3>1. DOMAIN f = 1..Len(f) /\ Len(f) = Len(g) /\ \A i \in DOMAIN f : g[i] = s[f[i]]
      BY <2>1 DEF Mapped
    <3>2. Appended(fa, f, d) /\ Appended(ga, g, s[d])
      BY <2>1, <2>2, <1>8, AppendIsAppended
    <3> HIDE DEF fa, ga
    <3>3. ASSUME NEW i \in 1..(Len(f) + 1) PROVE s[fa[i]] = ga[i]
      <4>1. CASE i = Len(f) + 1
        BY <4>1, <3>1, <3>2 DEF Appended
      <4>2. CASE i \in 1..Len(f)
        BY <4>2, <3>1, <3>2 DEF Appended
      <4> QED
        BY <4>1, <4>2, <3>2 DEF Appended
    <3>4. DOMAIN fa = 1..(Len(f) + 1) /\ ga = [i \in 1..(Len(f) + 1) |-> ga[i]]
      BY <3>1, <3>2 DEF Appended
    <3>5. Mapped(s, fa) = ga
      BY <3>3, <3>4 DEF Mapped
    <3> QED
      BY <3>5 DEF fa, ga
  <2> QED
    BY <2>2, <2>3, <2>4
<1> QED
  BY <1>9, <1>10

\* The first p slots, in order.
Up(p) == [i \in 1..p |-> i - 1]

LEMMA UpNext ==
  ASSUME NEW p \in Nat
  PROVE  /\ Up(p) \in Seq(0..p) /\ Up(0) = <<>>
         /\ Up(p + 1) = Append(Up(p), p)
<1>1. Up(p) \in Seq(0..p) /\ Len(Up(p)) = p
  BY DEF Up
<1>2. Up(0) = <<>>
  BY DEF Up
<1>3. \A i \in 1..(p + 1) : Append(Up(p), p)[i] = i - 1
  BY <1>1 DEF Up
<1> DEFINE a == Append(Up(p), p)
<1>4. a \in Seq(0..p) /\ Len(a) = p + 1
  BY <1>1
<1> HIDE DEF a
<1>5. a = [i \in 1..(p + 1) |-> a[i]]
  BY <1>4
<1> QED
  BY <1>1, <1>2, <1>3, <1>5 DEF Up, a
----------------------------------------------------------------------------
(* The log of a sequence of parses. *)

\* F[i] is what FlattenSeq() makes of the first i sequences, for i up to n.
Flattened(F, ss, n) ==
  F = [i \in 1..n |-> IF i = 1 THEN ss[i] ELSE F[i - 1] \o ss[i]]

LEMMA FlattenedStep ==
  ASSUME NEW ss, NEW n \in Nat, NEW F, Flattened(F, ss, n), NEW i \in 1..n
  PROVE  (i = 1 => F[i] = ss[i]) /\ (i # 1 => F[i] = F[i - 1] \o ss[i])
<1>1. F[i] = IF i = 1 THEN ss[i] ELSE F[i - 1] \o ss[i]
  BY DEF Flattened
<1> QED
  BY <1>1

LEMMA FlattenedNext ==
  ASSUME NEW ss, NEW n \in Nat, n # 0, NEW F, Flattened(F, ss, n - 1)
  PROVE  \E G : Flattened(G, ss, n)
<1> DEFINE next == IF n = 1 THEN ss[n] ELSE F[n - 1] \o ss[n]
           G == [i \in 1..n |-> IF i = n THEN next ELSE F[i]]
<1>1. \A i \in 1..n : G[i] = IF i = 1 THEN ss[i] ELSE G[i - 1] \o ss[i]
  <2> TAKE i \in 1..n
  <2>1. CASE i = n
    <3>1. (n # 1 => G[n - 1] = F[n - 1]) /\ G[n] = next
      OBVIOUS
    <3> HIDE DEF G
    <3> QED
      BY <2>1, <3>1
  <2>2. CASE i # n
    <3>1. n - 1 \in Nat /\ i \in 1..(n - 1) /\ G[i] = F[i] /\ (i # 1 => G[i - 1] = F[i - 1])
      BY <2>2
    <3>2. (i = 1 => F[i] = ss[i]) /\ (i # 1 => F[i] = F[i - 1] \o ss[i])
      BY <3>1, FlattenedStep
    <3> HIDE DEF G
    <3> QED
      BY <3>1, <3>2
  <2> QED
    BY <2>1, <2>2
<1>2. G = [i \in 1..n |-> G[i]]
  OBVIOUS
<1> HIDE DEF G
<1>3. Flattened(G, ss, n)
  BY <1>1, <1>2 DEF Flattened
<1> QED
  BY <1>3

LEMMA FlattenedExists ==
  ASSUME NEW ss, NEW n \in Nat
  PROVE  \E F : Flattened(F, ss, n)
<1> DEFINE Without == {k \in Nat : ~\E F : Flattened(F, ss, k)}
<1> SUFFICES ASSUME Without # {} PROVE FALSE
  OBVIOUS
<1>1. PICK m \in Without : \A k \in Without : m <= k
  BY LeastNatural
<1>2. Flattened([i \in 1..0 |-> ss[i]], ss, 0)
  BY DEF Flattened
<1>3. m # 0
  BY <1>2
<1>4. m - 1 \in Nat /\ m - 1 \notin Without
  BY <1>1, <1>3
<1>5. PICK F : Flattened(F, ss, m - 1)
  BY <1>4
<1>6. \E G : Flattened(G, ss, m)
  BY <1>3, <1>5, FlattenedNext
<1> QED
  BY <1>6

LEMMA FlattenIsFlattened ==
  ASSUME NEW ss, Len(ss) \in Nat, Len(ss) # 0
  PROVE  \E F : Flattened(F, ss, Len(ss)) /\ FlattenSeq(ss) = F[Len(ss)]
<1>1. \E F : Flattened(F, ss, Len(ss))
  BY FlattenedExists
<1>2. FlattenSeq(ss) = (CHOOSE F : Flattened(F, ss, Len(ss)))[Len(ss)]
  BY DEF FlattenSeq, Flattened
<1> QED
  BY <1>1, <1>2

LEMMA FlattenedSame ==
  ASSUME NEW s, NEW r, NEW m \in Nat, NEW n \in Nat, NEW k \in Nat, k # 0, k <= m, k <= n,
         NEW F, Flattened(F, s, m), NEW G, Flattened(G, r, n), SameUpTo(s, r, k)
  PROVE  F[k] = G[k]
<1> DEFINE Differ == {i \in 1..k : F[i] # G[i]}
<1> SUFFICES ASSUME Differ # {} PROVE FALSE
  OBVIOUS
<1>1. PICK d \in Differ : \A i \in Differ : d <= i
  <2>1. Differ \subseteq Nat
    OBVIOUS
  <2> QED
    BY <2>1, LeastNatural
<1>2. (d = 1 => F[d] = s[d]) /\ (d # 1 => F[d] = F[d - 1] \o s[d])
  <2>1. d \in 1..m
    OBVIOUS
  <2> QED
    BY <2>1, FlattenedStep
<1>3. (d = 1 => G[d] = r[d]) /\ (d # 1 => G[d] = G[d - 1] \o r[d])
  <2>1. d \in 1..n
    OBVIOUS
  <2> QED
    BY <2>1, FlattenedStep
<1>4. s[d] = r[d]
  BY DEF SameUpTo
<1>5. d # 1
  BY <1>2, <1>3, <1>4
<1>6. d - 1 \in 1..k /\ d - 1 \notin Differ
  BY <1>1, <1>5
<1> QED
  BY <1>2, <1>3, <1>4, <1>5, <1>6

\* One sequence more.
LEMMA FlattenAppend ==
  ASSUME NEW S, NEW ss \in Seq(Seq(S)), NEW x \in Seq(S)
  PROVE  /\ FlattenSeq(<<>>) = <<>>
         /\ FlattenSeq(Append(ss, x)) = FlattenSeq(ss) \o x
<1> DEFINE a == Append(ss, x)
           n == Len(ss)
<1>1. n \in Nat /\ Len(a) = n + 1 /\ a[n + 1] = x /\ SameUpTo(ss, a, n)
  BY DEF SameUpTo
<1>2. FlattenSeq(<<>>) = <<>>
  BY DEF FlattenSeq
<1> HIDE DEF a, n
<1>3. n + 1 \in Nat /\ n + 1 # 0 /\ n + 1 \in 1..(n + 1) /\ (n + 1) - 1 = n /\ n <= n + 1
  BY <1>1
<1>4. PICK G : Flattened(G, a, n + 1) /\ FlattenSeq(a) = G[n + 1]
  BY <1>1, <1>3, FlattenIsFlattened
<1>5. (n + 1 = 1 => G[n + 1] = a[n + 1]) /\ (n + 1 # 1 => G[n + 1] = G[(n + 1) - 1] \o a[n + 1])
  BY <1>3, <1>4, FlattenedStep
<1>6. CASE n = 0
  <2>1. ss = <<>>
    BY <1>6 DEF n
  <2>2. FlattenSeq(a) = x
    BY <1>1, <1>4, <1>5, <1>6
  <2>3. <<>> \o x = x
    OBVIOUS
  <2> QED
    BY <1>2, <2>1, <2>2, <2>3 DEF a
<1>7. CASE n # 0
  <2>1. PICK F : Flattened(F, ss, n) /\ FlattenSeq(ss) = F[n]
    BY <1>1, <1>7, FlattenIsFlattened DEF n
  <2>2. F[n] = G[n]
    BY <1>1, <1>3, <1>4, <1>7, <2>1, FlattenedSame
  <2>3. n + 1 # 1
    BY <1>1, <1>7
  <2> QED
    BY <1>1, <1>2, <1>3, <1>4, <1>5, <2>1, <2>2, <2>3 DEF a
<1> QED
  BY <1>6, <1>7

\* What is logged: one line of a parse, of dropped attributes or of a window.
Lines == [what : {"parse", "reparse", "release", "load", "destroy"}, record : Nat]
Parses == [what : {"parse", "reparse"}, record : Nat, attrs : BOOLEAN, load : Nat \cup {None}]

\* The record whose attributes the last parse leaves.
DueOf(ps) == IF ps = <<>> \/ ~ps[Len(ps)].attrs THEN None ELSE ps[Len(ps)].record

\* A line about record r, if there is one.
LineIf(what, r) == IF r = None THEN <<>> ELSE Line(what, r)

LEMMA LineTyped ==
  ASSUME NEW what \in {"parse", "reparse", "release", "load", "destroy"}, NEW r \in Nat
  PROVE  Line(what, r) \in Seq(Lines)
<1>1. [what |-> what, record |-> r] \in Lines
  BY DEF Lines
<1> HIDE DEF Lines
<1> QED
  BY <1>1 DEF Line

LEMMA NothingTyped == <<>> \in Seq(Lines)
  OBVIOUS

LEMMA LineIfTyped ==
  ASSUME NEW what \in {"parse", "reparse", "release", "load", "destroy"},
         NEW r \in Nat \cup {None}
  PROVE  LineIf(what, r) \in Seq(Lines)
  BY LineTyped, NothingTyped DEF LineIf

LEMMA DueTyped ==
  ASSUME NEW ps \in Seq(Parses)
  PROVE  DueOf(ps) \in Nat \cup {None}
<1>1. CASE ps = <<>>
  BY <1>1 DEF DueOf
<1>2. CASE ps # <<>>
  <2>1. ps[Len(ps)] \in Parses
    BY <1>2
  <2> QED
    BY <2>1 DEF DueOf, Parses
<1> QED
  BY <1>1, <1>2

\* The lines of a parse that follows the parses ps.
NextLines(ps, e) ==
  (LineIf("load", e.load) \o LineIf("release", DueOf(ps))) \o Line(e.what, e.record)

LEMMA LinesOfLast ==
  ASSUME NEW ps \in Seq(Parses), NEW e \in Parses
  PROVE  LinesOf(Append(ps, e), Len(ps) + 1) = NextLines(ps, e)
<1> DEFINE a == Append(ps, e)
           n == Len(ps)
<1>1. n \in Nat /\ a[n + 1] = e /\ (n # 0 => a[(n + 1) - 1] = ps[n]) /\ (n = 0 <=> ps = <<>>)
  OBVIOUS
<1>2. e.load \in Nat \cup {None} /\ e.attrs \in BOOLEAN
  BY DEF Parses
<1>3. n # 0 => ps[n].record \in Nat
  <2>1. n # 0 => ps[n] \in Parses
    OBVIOUS
  <2> QED
    BY <2>1 DEF Parses
<1> HIDE DEF a, n
<1>4. LinesOf(a, n + 1) =
        ((IF e.load = None THEN <<>> ELSE Line("load", e.load))
         \o (IF n + 1 > 1 THEN AttrLines("release", a[(n + 1) - 1]) ELSE <<>>))
        \o Line(e.what, e.record)
  BY <1>1 DEF LinesOf
<1>5. (IF e.load = None THEN <<>> ELSE Line("load", e.load)) = LineIf("load", e.load)
  BY DEF LineIf
<1>6. (IF n + 1 > 1 THEN AttrLines("release", a[(n + 1) - 1]) ELSE <<>>)
        = LineIf("release", DueOf(ps))
  <2>1. CASE n = 0
    BY <1>1, <2>1 DEF DueOf, LineIf
  <2>2. CASE n # 0
    <3>1. n + 1 > 1 /\ a[(n + 1) - 1] = ps[n] /\ ps # <<>>
      BY <1>1, <2>2
    <3>2. DueOf(ps) = IF ps[n].attrs THEN ps[n].record ELSE None
      BY <3>1 DEF DueOf, n
    <3>3. None \notin Nat
      BY ScanAssumption
    <3> QED
      BY <3>1, <3>2, <3>3, <1>3, <2>2 DEF LineIf, AttrLines
  <2> QED
    BY <2>1, <2>2
<1> QED
  BY <1>4, <1>5, <1>6 DEF NextLines, a, n

LEMMA LinesOfBefore ==
  ASSUME NEW ps \in Seq(Parses), NEW e \in Parses, NEW i \in DOMAIN ps
  PROVE  LinesOf(Append(ps, e), i) = LinesOf(ps, i)
<1> DEFINE a == Append(ps, e)
<1>1. a[i] = ps[i] /\ (i > 1 => a[i - 1] = ps[i - 1])
  OBVIOUS
<1> HIDE DEF a
<1> QED
  BY <1>1 DEF LinesOf, a

LEMMA LinesOfTyped ==
  ASSUME NEW ps \in Seq(Parses), NEW i \in DOMAIN ps
  PROVE  LinesOf(ps, i) \in Seq(Lines)
<1>1. ps[i] \in Parses /\ (i > 1 => ps[i - 1] \in Parses)
  OBVIOUS
<1>2. (IF ps[i].load = None THEN <<>> ELSE Line("load", ps[i].load)) \in Seq(Lines)
  BY <1>1, LineTyped, NothingTyped DEF Parses
<1>3. (IF i > 1 THEN AttrLines("release", ps[i - 1]) ELSE <<>>) \in Seq(Lines)
  BY <1>1, LineTyped, NothingTyped DEF Parses, AttrLines
<1>4. Line(ps[i].what, ps[i].record) \in Seq(Lines)
  BY <1>1, LineTyped DEF Parses
<1> QED
  BY <1>2, <1>3, <1>4 DEF LinesOf

\* The log of one parse more.
LEMMA LogNext ==
  ASSUME NEW ps \in Seq(Parses), NEW e \in Parses
  PROVE  /\ LogOfParses(Append(ps, e)) = LogOfParses(ps) \o NextLines(ps, e)
         /\ DueOf(Append(ps, e)) = IF e.attrs THEN e.record ELSE None
<1> DEFINE a == Append(ps, e)
           n == Len(ps)
           before == [i \in DOMAIN ps |-> LinesOf(ps, i)]
           after == [i \in DOMAIN a |-> LinesOf(a, i)]
           x == NextLines(ps, e)
<1>1. n \in Nat /\ DOMAIN a = 1..(n + 1) /\ DOMAIN ps = 1..n /\ a \in Seq(Parses)
      /\ Len(a) = n + 1 /\ a[n + 1] = e
  OBVIOUS
<1>2. x \in Seq(Lines)
  <2>1. n + 1 \in DOMAIN a
    BY <1>1
  <2> QED
    BY <1>1, <2>1, LinesOfTyped, LinesOfLast
<1>3. before \in Seq(Seq(Lines)) /\ Len(before) = n
  <2>1. before \in [1..n -> Seq(Lines)]
    BY <1>1, LinesOfTyped
  <2> QED
    BY <1>1, <2>1
<1>4. \A i \in 1..n : after[i] = before[i]
  BY <1>1, LinesOfBefore
<1>5. after[n + 1] = x
  BY <1>1, LinesOfLast
<1>6. DueOf(a) = IF e.attrs THEN e.record ELSE None
  <2>1. a # <<>> /\ a[Len(a)] = e
    BY <1>1
  <2> HIDE DEF a
  <2> QED
    BY <2>1 DEF DueOf
<1>7. after = [i \in 1..(n + 1) |-> after[i]]
  BY <1>1
<1>8. LogOfParses(a) = FlattenSeq(after) /\ LogOfParses(ps) = FlattenSeq(before)
  BY DEF LogOfParses
<1> HIDE DEF before, after, x, a, n
<1>9. after = Append(before, x)
  <2> DEFINE q == Append(before, x)
  <2>1. Appended(q, before, x)
    BY <1>2, <1>3, AppendIsAppended
  <2> HIDE DEF q
  <2>2. ASSUME NEW i \in 1..(n + 1) PROVE q[i] = after[i]
    <3>1. CASE i = n + 1
      BY <3>1, <1>3, <1>5, <2>1 DEF Appended
    <3>2. CASE i \in 1..n
      BY <3>2, <1>3, <1>4, <2>1 DEF Appended
    <3> QED
      BY <3>1, <3>2, <1>1
  <2>3. q = [i \in 1..(n + 1) |-> q[i]]
    BY <2>1, <1>3 DEF Appended
  <2> QED
    BY <2>2, <2>3, <1>7 DEF q
<1>10. FlattenSeq(Append(before, x)) = FlattenSeq(before) \o x
  BY <1>2, <1>3, FlattenAppend
<1> QED
  BY <1>6, <1>8, <1>9, <1>10 DEF a, x

LEMMA LogNone == LogOfParses(<<>>) = <<>> /\ DueOf(<<>>) = None
<1>1. [i \in DOMAIN <<>> |-> LinesOf(<<>>, i)] = <<>>
  OBVIOUS
<1>2. <<>> \in Seq(Seq(Lines)) /\ <<>> \in Seq(Lines)
  OBVIOUS
<1>3. FlattenSeq(<<>>) = <<>>
  BY <1>2, FlattenAppend
<1> QED
  BY <1>1, <1>3 DEF LogOfParses, DueOf
----------------------------------------------------------------------------
(* The plan. *)

Ranges == [first : Nat, last : Nat]

\* Ranges of slots before slot n, in order.
RangesUpTo(rs, n) ==
  /\ rs \in Seq(Ranges)
  /\ \A i \in DOMAIN rs : rs[i].first < rs[i].last /\ rs[i].last <= n
  /\ \A i, j \in DOMAIN rs : i < j => rs[i].last <= rs[j].first

\* Every used slot before slot n lies in one.
CoversUpTo(rs, n) == \A u \in Used : u < n => \E i \in DOMAIN rs : In(u, rs[i])

\* What PlanSlotRanges() makes of the ranges rs when it comes to slot r.
PlanNext(rs, r) ==
  IF IsFree(r) THEN rs
  ELSE IF Reaches(rs, r) THEN [rs EXCEPT ![Len(rs)].last = r + 1]
  ELSE Append(rs, [first |-> r, last |-> r + 1])

Planned(F, n) ==
  F = [k \in 0..n |->
         IF k = 0 THEN <<>>
         ELSE IF IsFree(k - 1) THEN F[k - 1]
         ELSE IF Reaches(F[k - 1], k - 1)
         THEN [F[k - 1] EXCEPT ![Len(F[k - 1])].last = k]
         ELSE Append(F[k - 1], [first |-> k - 1, last |-> k])]

PlanTurn(F, k) == (k = 0 => F[k] = <<>>) /\ (k # 0 => F[k] = PlanNext(F[k - 1], k - 1))

LEMMA PlannedIff ==
  ASSUME NEW n \in Nat, NEW F, DOMAIN F = 0..n, F = [k \in 0..n |-> F[k]]
  PROVE  Planned(F, n) <=> \A k \in 0..n : PlanTurn(F, k)
<1> DEFINE turn(k) ==
      IF k = 0 THEN <<>>
      ELSE IF IsFree(k - 1) THEN F[k - 1]
      ELSE IF Reaches(F[k - 1], k - 1)
      THEN [F[k - 1] EXCEPT ![Len(F[k - 1])].last = k]
      ELSE Append(F[k - 1], [first |-> k - 1, last |-> k])
<1>1. Planned(F, n) <=> F = [k \in 0..n |-> turn(k)]
  BY DEF Planned
<1>2. ASSUME NEW k \in 0..n
      PROVE  PlanTurn(F, k) <=> F[k] = turn(k)
  <2>1. k # 0 => (k - 1) + 1 = k
    OBVIOUS
  <2> QED
    BY <2>1 DEF PlanTurn, PlanNext
<1> HIDE DEF turn
<1>3. Planned(F, n) => \A k \in 0..n : PlanTurn(F, k)
  BY <1>1, <1>2
<1>4. (\A k \in 0..n : PlanTurn(F, k)) => Planned(F, n)
  BY <1>1, <1>2
<1> QED
  BY <1>3, <1>4

LEMMA PlannedNext ==
  ASSUME NEW n \in Nat, n # 0, NEW F, Planned(F, n - 1)
  PROVE  \E G : Planned(G, n)
<1> DEFINE G == [k \in 0..n |-> IF k = n THEN PlanNext(F[n - 1], n - 1) ELSE F[k]]
<1>1. n - 1 \in Nat /\ DOMAIN F = 0..(n - 1) /\ F = [k \in 0..(n - 1) |-> F[k]]
  BY DEF Planned
<1>2. \A k \in 0..(n - 1) : PlanTurn(F, k)
  BY <1>1, PlannedIff
<1>3. G = [k \in 0..n |-> G[k]] /\ DOMAIN G = 0..n /\ G[n] = PlanNext(F[n - 1], n - 1)
      /\ \A k \in 0..(n - 1) : G[k] = F[k]
  OBVIOUS
<1> HIDE DEF G
<1>4. ASSUME NEW k \in 0..n PROVE PlanTurn(G, k)
  <2>1. CASE k = n
    <3>1. n - 1 \in 0..(n - 1)
      BY <1>1
    <3> QED
      BY <2>1, <1>3, <3>1 DEF PlanTurn
  <2>2. CASE k # n
    <3>1. k \in 0..(n - 1) /\ (k # 0 => k - 1 \in 0..(n - 1))
      BY <2>2
    <3> QED
      BY <3>1, <1>2, <1>3 DEF PlanTurn
  <2> QED
    BY <2>1, <2>2
<1>5. Planned(G, n)
  BY <1>3, <1>4, PlannedIff
<1> QED
  BY <1>5

LEMMA PlannedExists ==
  ASSUME NEW n \in Nat
  PROVE  \E F : Planned(F, n)
<1> DEFINE Without == {k \in Nat : ~\E F : Planned(F, k)}
<1> SUFFICES ASSUME Without # {} PROVE FALSE
  OBVIOUS
<1>1. PICK m \in Without : \A k \in Without : m <= k
  BY LeastNatural
<1>2. \E F : Planned(F, 0)
  <2> DEFINE F == [k \in 0..0 |-> <<>>]
  <2>1. DOMAIN F = 0..0 /\ F = [k \in 0..0 |-> F[k]] /\ \A k \in 0..0 : k = 0 /\ F[k] = <<>>
    OBVIOUS
  <2> HIDE DEF F
  <2>2. \A k \in 0..0 : PlanTurn(F, k)
    BY <2>1 DEF PlanTurn
  <2> QED
    BY <2>1, <2>2, PlannedIff
<1>3. m # 0
  BY <1>2
<1>4. m - 1 \in Nat /\ m - 1 \notin Without
  BY <1>1, <1>3
<1>5. PICK F : Planned(F, m - 1)
  BY <1>4
<1>6. \E G : Planned(G, m)
  BY <1>3, <1>5, PlannedNext
<1> QED
  BY <1>6

\* Slot n more.
LEMMA PlanNextGood ==
  ASSUME NEW n \in Nat, n < RecordCount, NEW rs, RangesUpTo(rs, n), CoversUpTo(rs, n)
  PROVE  RangesUpTo(PlanNext(rs, n), n + 1) /\ CoversUpTo(PlanNext(rs, n), n + 1)
<1>1. RecordCount \in Nat /\ MaxGap \in Nat
  BY ScanAssumption
<1>2. rs \in Seq(Ranges) /\ DOMAIN rs = 1..Len(rs) /\ Len(rs) \in Nat
  BY DEF RangesUpTo
<1>3. \A i \in DOMAIN rs : rs[i].first \in Nat /\ rs[i].last \in Nat
  <2>1. \A i \in DOMAIN rs : rs[i] \in Ranges
    BY <1>2
  <2> QED
    BY <2>1 DEF Ranges
<1>4. \A u \in Used : u \in Nat
  BY <1>1 DEF Used, Records, Held!Records
<1>5. CASE IsFree(n)
  <2>1. PlanNext(rs, n) = rs
    BY <1>5 DEF PlanNext
  <2>2. \A u \in Used : u # n
    BY <1>5 DEF Used
  <2>3. \A u \in Used : u < n + 1 => u < n
    BY <1>4, <2>2
  <2>4. RangesUpTo(rs, n + 1)
    BY <1>3 DEF RangesUpTo
  <2>5. CoversUpTo(rs, n + 1)
    BY <2>3 DEF CoversUpTo
  <2> QED
    BY <2>1, <2>4, <2>5
<1>6. CASE ~IsFree(n) /\ Reaches(rs, n)
  <2> DEFINE k == Len(rs)
             q == [rs EXCEPT ![k].last = n + 1]
  <2>1. PlanNext(rs, n) = q
    BY <1>6 DEF PlanNext
  <2>2. k \in DOMAIN rs
    BY <1>6, <1>2 DEF Reaches
  <2>3. q \in Seq(Ranges) /\ DOMAIN q = DOMAIN rs /\ Len(q) = Len(rs)
    <3>0. rs[k] \in Ranges
      BY <1>2, <2>2
    <3>1. [rs[k] EXCEPT !.last = n + 1] \in Ranges
      BY <3>0 DEF Ranges
    <3> QED
      BY <1>2, <2>2, <3>1
  <2>4. q[k].first = rs[k].first /\ q[k].last = n + 1
        /\ \A i \in DOMAIN rs : i # k => q[i] = rs[i]
    BY <1>2, <2>2 DEF Ranges
  <2> HIDE DEF q
  <2>5. \A i \in DOMAIN rs : i # k => i < k
    BY <1>2
  <2>6. \A i \in DOMAIN q : q[i].first < q[i].last /\ q[i].last <= n + 1
    BY <1>2, <1>3, <2>2, <2>3, <2>4 DEF RangesUpTo
  <2>7. \A i, j \in DOMAIN q : i < j => q[i].last <= q[j].first
    <3> SUFFICES ASSUME NEW i \in DOMAIN rs, NEW j \in DOMAIN rs, i < j
                 PROVE  q[i].last <= q[j].first
      BY <2>3
    <3>1. i # k /\ q[i] = rs[i] /\ q[j].first = rs[j].first
      BY <1>2, <2>4, <2>5
    <3> QED
      BY <3>1 DEF RangesUpTo
  <2>8. ASSUME NEW u \in Used, u < n + 1 PROVE \E i \in DOMAIN q : In(u, q[i])
    <3>1. rs[k].first < rs[k].last /\ rs[k].last <= n /\ rs[k].first \in Nat /\ rs[k].last \in Nat
      BY <2>2, <1>3 DEF RangesUpTo
    <3>2. CASE u = n
      BY <3>1, <3>2, <2>2, <2>3, <2>4 DEF In
    <3>3. CASE u < n
      <4>1. PICK i \in DOMAIN rs : In(u, rs[i])
        BY <3>3 DEF CoversUpTo
      <4>2. CASE i = k
        BY <4>1, <4>2, <3>1, <3>3, <2>2, <2>3, <2>4, <1>4 DEF In
      <4>3. CASE i # k
        BY <4>1, <4>3, <2>3, <2>4
      <4> QED
        BY <4>2, <4>3
    <3> QED
      BY <2>8, <3>2, <3>3, <1>4
  <2> QED
    BY <2>1, <2>3, <2>6, <2>7, <2>8 DEF RangesUpTo, CoversUpTo
<1>7. CASE ~IsFree(n) /\ ~Reaches(rs, n)
  <2> DEFINE e == [first |-> n, last |-> n + 1]
             q == Append(rs, e)
  <2>1. PlanNext(rs, n) = q
    BY <1>7 DEF PlanNext
  <2>2. e \in Ranges /\ e.first = n /\ e.last = n + 1
    BY DEF Ranges
  <2> HIDE DEF e
  <2>3. q \in Seq(Ranges) /\ Appended(q, rs, e)
    BY <1>2, <2>2, AppendIsAppended
  <2> HIDE DEF q
  <2>4. DOMAIN q = DOMAIN rs \cup {Len(rs) + 1} /\ q[Len(rs) + 1] = e
        /\ \A i \in DOMAIN rs : q[i] = rs[i] /\ i < Len(rs) + 1
    <3>1. DOMAIN q = 1..(Len(rs) + 1)
      BY <2>3 DEF Appended
    <3>2. 1..(Len(rs) + 1) = (1..Len(rs)) \cup {Len(rs) + 1}
      BY <1>2
    <3> QED
      BY <3>1, <3>2, <1>2, <2>3 DEF Appended
  <2>5. \A i \in DOMAIN q : q[i].first < q[i].last /\ q[i].last <= n + 1
    BY <1>3, <2>2, <2>4 DEF RangesUpTo
  <2>6. ASSUME NEW i \in DOMAIN q, NEW j \in DOMAIN q, i < j PROVE q[i].last <= q[j].first
    <3>1. i \in DOMAIN rs /\ q[i] = rs[i] /\ rs[i].last <= n
      BY <2>4, <2>6, <1>2 DEF RangesUpTo
    <3>2. CASE j \in DOMAIN rs
      BY <3>1, <3>2, <2>4, <2>6 DEF RangesUpTo
    <3>3. CASE j = Len(rs) + 1
      BY <3>1, <3>3, <2>2, <2>4
    <3> QED
      BY <3>2, <3>3, <2>4
  <2>7. ASSUME NEW u \in Used, u < n + 1 PROVE \E i \in DOMAIN q : In(u, q[i])
    <3>1. CASE u = n
      BY <3>1, <2>2, <2>4 DEF In
    <3>2. CASE u < n
      BY <3>2, <2>4 DEF CoversUpTo
    <3> QED
      BY <2>7, <3>1, <3>2, <1>4
  <2> QED
    BY <2>1, <2>3, <2>5, <2>6, <2>7 DEF RangesUpTo, CoversUpTo
<1> QED
  BY <1>5, <1>6, <1>7

\* What PlanSlotRanges() promises: ranges of slots of $MFT, in order and apart,
\* in which every used slot lies.
THEOREM PlanServesUsed ==
  RangesUpTo(PlanSlotRanges, RecordCount) /\ CoversUpTo(PlanSlotRanges, RecordCount)
<1>1. RecordCount \in Nat
  BY ScanAssumption
<1>2. \E F : Planned(F, RecordCount)
  BY <1>1, PlannedExists
<1>3. PlanSlotRanges = (CHOOSE F : Planned(F, RecordCount))[RecordCount]
  BY DEF PlanSlotRanges, Planned
<1>4. PICK F : Planned(F, RecordCount) /\ PlanSlotRanges = F[RecordCount]
  BY <1>2, <1>3
<1>5. \A k \in 0..RecordCount : PlanTurn(F, k)
  <2>1. DOMAIN F = 0..RecordCount /\ F = [k \in 0..RecordCount |-> F[k]]
    BY <1>4 DEF Planned
  <2> QED
    BY <1>1, <1>4, <2>1, PlannedIff
<1> DEFINE Good(k) == RangesUpTo(F[k], k) /\ CoversUpTo(F[k], k)
           Wrong == {k \in 0..RecordCount : ~Good(k)}
<1> SUFFICES ASSUME Wrong # {} PROVE FALSE
  BY <1>1, <1>4
<1>6. PICK d \in Wrong : \A i \in Wrong : d <= i
  <2>1. Wrong \subseteq Nat
    BY <1>1
  <2> QED
    BY <2>1, LeastNatural
<1>7. d # 0
  <2>1. RangesUpTo(<<>>, 0)
    BY DEF RangesUpTo
  <2>2. \A u \in Used : ~(u < 0)
    BY <1>1 DEF Used, Records, Held!Records
  <2>3. CoversUpTo(<<>>, 0)
    BY <2>2 DEF CoversUpTo
  <2>4. d = 0 => F[d] = <<>>
    BY <1>5 DEF PlanTurn
  <2>5. ~Good(d)
    OBVIOUS
  <2> QED
    BY <2>1, <2>3, <2>4, <2>5
<1>8. d - 1 \in Nat /\ d - 1 < RecordCount /\ d - 1 \in 0..RecordCount /\ d - 1 \notin Wrong
      /\ (d - 1) + 1 = d
  BY <1>1, <1>6, <1>7
<1>9. Good(d - 1)
  BY <1>8
<1>10. F[d] = PlanNext(F[d - 1], d - 1)
  BY <1>5, <1>7 DEF PlanTurn
<1>11. RangesUpTo(PlanNext(F[d - 1], d - 1), (d - 1) + 1)
       /\ CoversUpTo(PlanNext(F[d - 1], d - 1), (d - 1) + 1)
  BY <1>8, <1>9, PlanNextGood
<1>12. ~Good(d)
  OBVIOUS
<1> QED
  BY <1>8, <1>10, <1>11, <1>12
----------------------------------------------------------------------------
(* The windows. *)

LEMMA TimesGrows ==
  ASSUME NEW q \in Nat, NEW k \in Nat, NEW n \in Nat, q < k
  PROVE  q * n \in Nat /\ k * n \in Nat /\ q * n + n <= k * n
<1> DEFINE d == k - q - 1
<1>1. d \in Nat /\ k = q + 1 + d
  OBVIOUS
<1> HIDE DEF d
<1>2. d * n \in Nat /\ q * n \in Nat
  BY <1>1
<1>3. k * n = q * n + n + d * n
  BY <1>1
<1> QED
  BY <1>2, <1>3

LEMMA DivRight ==
  ASSUME NEW a \in Nat, NEW n \in Nat \ {0}
  PROVE  /\ a \div n \in Nat /\ (a \div n) * n \in Nat
         /\ (a \div n) * n <= a /\ a < (a \div n) * n + n
<1>1. a \div n \in Nat
  OBVIOUS
<1>2. a = n * (a \div n) + (a % n) /\ a % n \in 0..(n - 1)
  OBVIOUS
<1>3. n * (a \div n) = (a \div n) * n /\ (a \div n) * n \in Nat
  BY <1>1
<1> DEFINE q == a \div n
           m == a % n
<1>4. a = n * q + m /\ m \in 0..(n - 1) /\ n * q = q * n /\ q * n \in Nat /\ q \in Nat
  BY <1>1, <1>2, <1>3
<1> HIDE DEF q, m
<1>5. q * n <= a /\ a < q * n + n
  BY <1>4
<1> QED
  BY <1>4, <1>5 DEF q

LEMMA DivUnique ==
  ASSUME NEW a \in Nat, NEW n \in Nat \ {0}, NEW k \in Nat, k * n <= a, a < k * n + n
  PROVE  a \div n = k
<1> DEFINE q == a \div n
<1>1. q \in Nat /\ q * n <= a /\ a < q * n + n /\ q * n \in Nat /\ k * n \in Nat
  BY DivRight
<1> HIDE DEF q
<1>2. ~(q < k)
  <2>1. q < k => q * n + n <= k * n
    BY <1>1, TimesGrows
  <2> QED
    BY <1>1, <2>1
<1>3. ~(k < q)
  <2>1. k < q => k * n + n <= q * n
    BY <1>1, TimesGrows
  <2> QED
    BY <1>1, <2>1
<1>4. q = k
  BY <1>1, <1>2, <1>3
<1> QED
  BY <1>4 DEF q

LEMMA MaxOfTwo ==
  ASSUME NEW a \in Int, NEW b \in Int
  PROVE  Max({a, b}) = IF a >= b THEN a ELSE b
<1> DEFINE m == IF a >= b THEN a ELSE b
           P(x) == x \in {a, b} /\ \A y \in {a, b} : x >= y
<1>1. P(m)
  OBVIOUS
<1>2. Max({a, b}) = CHOOSE x \in {a, b} : \A y \in {a, b} : x >= y
  BY DEF Max
<1>3. \A x : P(x) => x = m
  OBVIOUS
<1>4. P(CHOOSE x \in {a, b} : \A y \in {a, b} : x >= y)
  BY <1>1
<1> HIDE DEF m, P
<1>5. Max({a, b}) = m
  BY <1>2, <1>3, <1>4
<1> QED
  BY <1>5 DEF m

LEMMA MinOfTwo ==
  ASSUME NEW a \in Int, NEW b \in Int
  PROVE  Min({a, b}) = IF a <= b THEN a ELSE b
<1> DEFINE m == IF a <= b THEN a ELSE b
           P(x) == x \in {a, b} /\ \A y \in {a, b} : x =< y
<1>1. P(m)
  OBVIOUS
<1>2. Min({a, b}) = CHOOSE x \in {a, b} : \A y \in {a, b} : x =< y
  BY DEF Min
<1>3. \A x : P(x) => x = m
  OBVIOUS
<1>4. P(CHOOSE x \in {a, b} : \A y \in {a, b} : x =< y)
  BY <1>1
<1> HIDE DEF m, P
<1>5. Min({a, b}) = m
  BY <1>2, <1>3, <1>4
<1> QED
  BY <1>5 DEF m

LEMMA MinIsIn ==
  ASSUME NEW T, T \subseteq Nat, T # {}
  PROVE  Min(T) \in T /\ \A y \in T : Min(T) <= y
<1>1. \E x \in T : \A y \in T : x =< y
  BY LeastNatural
<1> QED
  BY <1>1 DEF Min

\* The first slot of a range that is mapped, and of its cluster.
FirstOf(range) == Max({range.first, FirstMapped})
BaseOf(range) == FirstOf(range) - (FirstOf(range) % ClusterSlots)

LEMMA BaseRight ==
  ASSUME NEW range \in Ranges
  PROVE  /\ FirstOf(range) \in Nat /\ BaseOf(range) \in Nat
         /\ BaseOf(range) <= FirstOf(range)
         /\ FirstOf(range) >= range.first /\ FirstOf(range) >= FirstMapped
         /\ range.first \in Nat /\ range.last \in Nat
         /\ \A r \in Nat : r >= range.first /\ r >= FirstMapped => r >= FirstOf(range)
<1>1. FirstMapped \in Nat /\ ClusterSlots \in Nat \ {0} /\ range.first \in Nat
      /\ range.last \in Nat
  BY ScanAssumption DEF Ranges
<1>2. FirstOf(range) = IF range.first >= FirstMapped THEN range.first ELSE FirstMapped
  BY <1>1, MaxOfTwo DEF FirstOf
<1> DEFINE f == FirstOf(range)
           m == f % ClusterSlots
<1>3. f \in Nat
  BY <1>1, <1>2
<1>4. m \in Nat /\ m <= f
  <2>1. f = ClusterSlots * (f \div ClusterSlots) + m /\ m \in 0..(ClusterSlots - 1)
        /\ f \div ClusterSlots \in Nat
    BY <1>1, <1>3
  <2>2. ClusterSlots * (f \div ClusterSlots) \in Nat
    BY <1>1, <2>1
  <2> HIDE DEF m, f
  <2> QED
    BY <1>1, <1>3, <2>1, <2>2
<1>5. BaseOf(range) = f - m
  BY DEF BaseOf
<1> HIDE DEF m
<1>6. BaseOf(range) \in Nat /\ BaseOf(range) <= f
  BY <1>3, <1>4, <1>5
<1> QED
  BY <1>1, <1>2, <1>3, <1>6

\* Window k of a range.
WindowAt(range, k) ==
  LET start == BaseOf(range) + k * WindowSlots
  IN  [first |-> Max({start, FirstOf(range)}), last |-> WindowEnd(range, start)]

LEMMA WindowOfIsAt ==
  ASSUME NEW range, NEW r
  PROVE  WindowOf(range, r) = WindowAt(range, (r - BaseOf(range)) \div WindowSlots)
  BY DEF WindowOf, WindowAt, BaseOf, FirstOf

LEMMA WindowAtRight ==
  ASSUME NEW range \in Ranges, NEW k \in Nat
  PROVE  LET w == WindowAt(range, k)
             start == BaseOf(range) + k * WindowSlots
         IN  /\ w.first = IF start >= FirstOf(range) THEN start ELSE FirstOf(range)
             /\ w.last = IF range.last - start <= WindowSlots THEN range.last
                         ELSE start + WindowSlots
             /\ start \in Nat
             /\ w = [first |-> w.first, last |-> w.last]
<1> DEFINE start == BaseOf(range) + k * WindowSlots
<1>1. BaseOf(range) \in Nat /\ FirstOf(range) \in Nat
  BY BaseRight
<1>2. k * WindowSlots \in Nat
  BY ScanAssumption
<1>3. start \in Nat
  BY <1>1, <1>2
<1> HIDE DEF start
<1>4. Max({start, FirstOf(range)}) = IF start >= FirstOf(range) THEN start ELSE FirstOf(range)
  BY <1>1, <1>3, MaxOfTwo
<1>5. WindowAt(range, k) = [first |-> Max({start, FirstOf(range)}), last |-> WindowEnd(range, start)]
  BY DEF WindowAt, start
<1> QED
  BY <1>3, <1>4, <1>5 DEF WindowEnd, start

\* What WindowOf() returns: the slots around r, and for each of them the same.
LEMMA WindowOfRight ==
  ASSUME NEW range \in Ranges, NEW r \in Nat, In(r, range), r >= FirstMapped
  PROVE  LET w == WindowOf(range, r)
         IN  /\ w \in Ranges /\ In(r, w)
             /\ w.first >= FirstMapped /\ w.first >= range.first /\ w.last <= range.last
             /\ \A x \in Nat : In(x, w) => WindowOf(range, x) = w
<1> DEFINE f == FirstOf(range)
           base == BaseOf(range)
           k == (r - base) \div WindowSlots
           start == base + k * WindowSlots
           w == WindowAt(range, k)
<1>1. /\ f \in Nat /\ base \in Nat /\ base <= f /\ f >= range.first /\ f >= FirstMapped
      /\ range.first \in Nat /\ range.last \in Nat /\ r >= f /\ r < range.last
  BY BaseRight DEF In
<1>2. WindowSlots \in Nat \ {0} /\ FirstMapped \in Nat
  BY ScanAssumption
<1>3. WindowOf(range, r) = w
  BY WindowOfIsAt
<1> HIDE DEF f, base
<1>4. k \in Nat /\ k * WindowSlots <= r - base /\ r - base < k * WindowSlots + WindowSlots
      /\ k * WindowSlots \in Nat
  <2>1. r - base \in Nat
    BY <1>1
  <2> QED
    BY <2>1, <1>2, DivRight
<1> HIDE DEF k
<1>5. /\ w.first = IF start >= f THEN start ELSE f
      /\ w.last = IF range.last - start <= WindowSlots THEN range.last ELSE start + WindowSlots
      /\ start \in Nat
      /\ w = [first |-> w.first, last |-> w.last]
  BY <1>4, WindowAtRight DEF f, base
<1>6. start <= r /\ r < start + WindowSlots
  BY <1>1, <1>2, <1>4
<1>7. ASSUME NEW x \in Nat, In(x, w) PROVE WindowOf(range, x) = w
  <2>1. w.first <= x /\ x < w.last
    BY <1>7 DEF In
  <2>2. x - base \in Nat /\ k * WindowSlots <= x - base /\ x - base < k * WindowSlots + WindowSlots
    <3> HIDE DEF w
    <3>1. start <= x /\ x < start + WindowSlots /\ x >= f
      BY <2>1, <1>1, <1>2, <1>5
    <3> QED
      BY <3>1, <1>1, <1>2, <1>4
  <2>3. (x - base) \div WindowSlots = k
    BY <2>2, <1>2, <1>4, DivUnique
  <2> QED
    BY <2>3, WindowOfIsAt DEF base
<1> HIDE DEF start, w
<1>8. w.first \in Nat /\ w.last \in Nat
  BY <1>1, <1>2, <1>5, <1>6
<1>9. w \in Ranges
  BY <1>5, <1>8 DEF Ranges
<1>10. w.first <= r /\ r < w.last /\ w.first >= f /\ w.last <= range.last
  BY <1>1, <1>2, <1>5, <1>6
<1>11. w.first >= FirstMapped /\ w.first >= range.first
  BY <1>1, <1>2, <1>8, <1>10
<1> QED
  BY <1>3, <1>7, <1>9, <1>10, <1>11 DEF In

LEMMA RangeOfRight ==
  ASSUME RangesUpTo(plan, RecordCount), NEW r \in Nat
  PROVE  /\ RangeOf(plan, r) # 0 => RangeOf(plan, r) \in DOMAIN plan /\ In(r, plan[RangeOf(plan, r)])
         /\ \A i \in DOMAIN plan : In(r, plan[i]) => RangeOf(plan, r) = i
<1> DEFINE at == {i \in DOMAIN plan : In(r, plan[i])}
<1>1. plan \in Seq(Ranges) /\ DOMAIN plan = 1..Len(plan) /\ Len(plan) \in Nat
  BY DEF RangesUpTo
<1>2. at \subseteq Nat /\ 0 \notin at
  BY <1>1
<1>3. RangeOf(plan, r) = IF at = {} THEN 0 ELSE Min(at)
  BY DEF RangeOf
<1>4. at # {} => RangeOf(plan, r) \in at
  BY <1>2, <1>3, MinIsIn
<1>5. ASSUME NEW i \in at, NEW j \in at PROVE i = j
  <2>1. /\ i \in DOMAIN plan /\ j \in DOMAIN plan /\ i \in Nat /\ j \in Nat
        /\ plan[i] \in Ranges /\ plan[j] \in Ranges
        /\ plan[i].first <= r /\ r < plan[i].last /\ plan[j].first <= r /\ r < plan[j].last
    BY <1>1, <1>5 DEF In
  <2>2. plan[i].first \in Nat /\ plan[i].last \in Nat /\ plan[j].first \in Nat /\ plan[j].last \in Nat
    BY <2>1 DEF Ranges
  <2>3. ~(i < j)
    <3>1. i < j => plan[i].last <= plan[j].first
      BY <2>1 DEF RangesUpTo
    <3> QED
      BY <2>1, <2>2, <3>1
  <2>4. ~(j < i)
    <3>1. j < i => plan[j].last <= plan[i].first
      BY <2>1 DEF RangesUpTo
    <3> QED
      BY <2>1, <2>2, <3>1
  <2> QED
    BY <2>1, <2>3, <2>4
<1>6. RangeOf(plan, r) # 0 => RangeOf(plan, r) \in at
  BY <1>3, <1>4
<1>7. ASSUME NEW i \in DOMAIN plan, In(r, plan[i]) PROVE RangeOf(plan, r) = i
  <2>1. i \in at
    BY <1>7
  <2>2. RangeOf(plan, r) \in at
    BY <2>1, <1>4
  <2> HIDE DEF at
  <2> QED
    BY <2>1, <2>2, <1>5
<1> QED
  BY <1>6, <1>7

LEMMA WindowForCases ==
  ASSUME RangesUpTo(plan, RecordCount), NEW r \in Nat
  PROVE  \/ WindowFor(plan, r) = NoRange /\ (r < FirstMapped \/ RangeOf(plan, r) = 0)
         \/ /\ r >= FirstMapped /\ RangeOf(plan, r) \in DOMAIN plan /\ In(r, plan[RangeOf(plan, r)])
            /\ plan[RangeOf(plan, r)] \in Ranges /\ plan[RangeOf(plan, r)].last <= RecordCount
            /\ WindowFor(plan, r) = WindowOf(plan[RangeOf(plan, r)], r)
<1>1. FirstMapped \in Nat
  BY ScanAssumption
<1>2. RangeOf(plan, r) # 0 => RangeOf(plan, r) \in DOMAIN plan /\ In(r, plan[RangeOf(plan, r)])
  BY RangeOfRight
<1>3. \A i \in DOMAIN plan : plan[i] \in Ranges /\ plan[i].last <= RecordCount
  BY DEF RangesUpTo
<1>4. ~(r < FirstMapped) => r >= FirstMapped
  BY <1>1
<1> QED
  BY <1>2, <1>3, <1>4 DEF WindowFor

\* What ServeWindow() reads for a slot: a window of $MFT around it.
LEMMA WindowForRight ==
  ASSUME RangesUpTo(plan, RecordCount), NEW r \in Nat
  PROVE  /\ WindowFor(plan, r) \in Ranges
         /\ WindowFor(plan, r).last <= RecordCount
         /\ WindowFor(plan, r) # NoRange => In(r, WindowFor(plan, r)) /\ r >= FirstMapped
<1>1. CASE WindowFor(plan, r) = NoRange
  BY <1>1, ScanAssumption DEF NoRange, Ranges
<1>2. CASE WindowFor(plan, r) # NoRange
  <2> DEFINE range == plan[RangeOf(plan, r)]
             w == WindowFor(plan, r)
  <2>1. r >= FirstMapped /\ In(r, range) /\ range \in Ranges /\ range.last <= RecordCount
        /\ w = WindowOf(range, r)
    BY <1>2, WindowForCases
  <2> HIDE DEF range, w
  <2>2. w \in Ranges /\ In(r, w) /\ w.last <= range.last
    BY <2>1, WindowOfRight
  <2>3. w.last \in Nat /\ range.last \in Nat /\ RecordCount \in Nat
    BY <2>1, <2>2, ScanAssumption DEF Ranges
  <2>4. w.last <= RecordCount
    BY <2>1, <2>2, <2>3
  <2> QED
    BY <2>1, <2>2, <2>4 DEF w
<1> QED
  BY <1>1, <1>2

\* It is the window of every slot in it.
LEMMA WindowForSame ==
  ASSUME RangesUpTo(plan, RecordCount), NEW r \in Nat, NEW x \in Nat, In(x, WindowFor(plan, r))
  PROVE  WindowFor(plan, x) = WindowFor(plan, r) /\ WindowFor(plan, r) # NoRange
<1>1. WindowFor(plan, r) # NoRange
  BY DEF NoRange, In
<1> DEFINE range == plan[RangeOf(plan, r)]
           w == WindowFor(plan, r)
<1>2. r >= FirstMapped /\ In(r, range) /\ range \in Ranges /\ RangeOf(plan, r) \in DOMAIN plan
      /\ w = WindowOf(range, r)
  BY <1>1, WindowForCases
<1>3. In(x, w)
  OBVIOUS
<1> HIDE DEF range, w
<1>4. /\ w \in Ranges /\ w.first >= FirstMapped /\ w.first >= range.first /\ w.last <= range.last
      /\ WindowOf(range, x) = w
  BY <1>2, <1>3, WindowOfRight
<1>5. w.first \in Nat /\ w.last \in Nat /\ range.first \in Nat /\ range.last \in Nat
      /\ FirstMapped \in Nat
  BY <1>2, <1>4, ScanAssumption DEF Ranges
<1>6. x >= FirstMapped /\ In(x, range)
  BY <1>3, <1>4, <1>5 DEF In
<1>7. RangeOf(plan, x) = RangeOf(plan, r)
  BY <1>2, <1>6, RangeOfRight DEF range
<1>8. ~(x < FirstMapped) /\ RangeOf(plan, r) # 0
  <2>1. DOMAIN plan \subseteq Nat \ {0}
    BY DEF RangesUpTo
  <2> QED
    BY <1>2, <1>5, <1>6, <2>1
<1>9. WindowFor(plan, x) = WindowOf(range, x)
  BY <1>7, <1>8 DEF WindowFor, range
<1> QED
  BY <1>1, <1>4, <1>9 DEF w

----------------------------------------------------------------------------
(* The chunks of a batch of n places. *)

ChunksOf(n, size) == (n + size - 1) \div size

LEMMA ChunksRight ==
  ASSUME NEW n \in Nat, NEW size \in Nat \ {0}, NEW c \in Nat
  PROVE  /\ ChunksOf(n, size) \in Nat /\ ChunksOf(n, size) <= n
         /\ c * size \in Nat /\ (c + 1) * size = c * size + size
         /\ c < ChunksOf(n, size) <=> c * size < n
<1> DEFINE q == ChunksOf(n, size)
           a == n + size - 1
<1>1. a \in Nat
  OBVIOUS
<1>2. q \in Nat /\ q * size \in Nat /\ q * size <= a /\ a < q * size + size
  BY <1>1, DivRight DEF ChunksOf
<1>3. c * size \in Nat /\ (c + 1) * size = c * size + size
  OBVIOUS
<1> HIDE DEF q
<1>4. c < q => c * size < n
  <2>1. c < q => c * size + size <= q * size
    BY <1>2, TimesGrows
  <2> QED
    BY <1>2, <1>3, <2>1
<1>5. ~(c < q) => ~(c * size < n)
  <2>1. c = q \/ q < c \/ c < q
    BY <1>2
  <2>2. q < c => q * size + size <= c * size
    BY <1>2, TimesGrows
  <2>3. n <= q * size
    BY <1>2
  <2> QED
    BY <1>2, <1>3, <2>1, <2>2, <2>3
<1>6. q <= n
  <2>1. CASE q = 0
    BY <2>1
  <2>2. CASE q # 0
    <3>1. q - 1 \in Nat /\ q = (q - 1) + 1
      BY <1>2, <2>2
    <3>2. q * size >= q + size - 1
      <4> DEFINE p == q - 1
                 t == size - 1
      <4>1. p \in Nat /\ t \in Nat /\ q = p + 1 /\ size = t + 1
        BY <3>1
      <4> HIDE DEF p, t
      <4>2. p * t \in Nat
        BY <4>1
      <4>3. q * size = p * t + p + t + 1
        BY <4>1
      <4> QED
        BY <4>1, <4>2, <4>3
    <3> QED
      BY <1>2, <3>2
  <2> QED
    BY <2>1, <2>2
<1> QED
  BY <1>2, <1>3, <1>4, <1>5, <1>6 DEF q

\* The chunk of a place.
LEMMA ChunkOfPlace ==
  ASSUME NEW n \in Nat, NEW size \in Nat \ {0}, NEW a \in 0..(n - 1)
  PROVE  LET c == a \div size
         IN  /\ c \in Nat /\ c < ChunksOf(n, size)
             /\ c * size <= a /\ a < (c + 1) * size
<1> DEFINE c == a \div size
<1>1. a \in Nat /\ a < n
  OBVIOUS
<1>2. c \in Nat /\ c * size \in Nat /\ c * size <= a /\ a < c * size + size
  BY <1>1, DivRight
<1> HIDE DEF c
<1>3. (c + 1) * size = c * size + size /\ (c < ChunksOf(n, size) <=> c * size < n)
  BY <1>2, ChunksRight
<1> QED
  BY <1>1, <1>2, <1>3 DEF c
----------------------------------------------------------------------------
(* What a thread leaves of a parse: the marks in its log. *)

Outcomes == [of : Nat \cup {None}, needs : BOOLEAN, begin : Nat, end : Nat, release : Nat]

\* o says that record r was parsed, and where in log its lines are.
Right(o, log, r, what, needs, attrs) ==
  /\ o.of = r
  /\ o.needs = needs
  /\ o.begin + 1 = o.end
  /\ o.end <= Len(log)
  /\ log[o.end] = [what |-> what, record |-> r]
  /\ attrs => /\ o.release = o.end + 1
              /\ o.release <= Len(log)
              /\ log[o.release] = [what |-> "release", record |-> r]
  /\ ~attrs => o.release = o.end

\* It still does when the log grows.
LEMMA RightGrows ==
  ASSUME NEW S, NEW log \in Seq(S), NEW x \in Seq(S), NEW o \in Outcomes,
         NEW r, NEW what, NEW needs, NEW attrs, Right(o, log, r, what, needs, attrs)
  PROVE  Right(o, log \o x, r, what, needs, attrs)
<1> DEFINE q == log \o x
<1>1. Len(log) \in Nat /\ Len(q) \in Nat /\ Len(q) >= Len(log)
      /\ \A i \in 1..Len(log) : q[i] = log[i]
  OBVIOUS
<1> HIDE DEF q
<1>2. o.begin \in Nat /\ o.end \in Nat /\ o.release \in Nat
  BY DEF Outcomes
<1>3. o.begin + 1 = o.end /\ o.end <= Len(log)
  BY DEF Right
<1>4. o.end \in 1..Len(log) /\ o.end <= Len(q)
  BY <1>1, <1>2, <1>3
<1>5. attrs => o.release \in 1..Len(log) /\ o.release <= Len(q)
  <2>1. attrs => o.release = o.end + 1 /\ o.release <= Len(log)
    BY DEF Right
  <2> QED
    BY <1>1, <1>2, <1>4, <2>1
<1>6. Right(o, q, r, what, needs, attrs)
  BY <1>1, <1>3, <1>4, <1>5 DEF Right
<1> QED
  BY <1>6 DEF q

\* The lines of a parse of record r.
ParseLines(what, r, attrs) == Line(what, r) \o IF attrs THEN Line("release", r) ELSE <<>>

LEMMA RightNew ==
  ASSUME NEW log \in Seq(Lines), NEW r \in Nat, NEW what \in {"parse", "reparse"},
         NEW needs \in BOOLEAN, NEW attrs \in BOOLEAN
  PROVE  /\ Outcome(r, log, needs, attrs) \in Outcomes
         /\ ParseLines(what, r, attrs) \in Seq(Lines)
         /\ log \o ParseLines(what, r, attrs) \in Seq(Lines)
         /\ Right(Outcome(r, log, needs, attrs), log \o ParseLines(what, r, attrs),
                  r, what, needs, attrs)
<1> DEFINE o == Outcome(r, log, needs, attrs)
           line1 == [what |-> what, record |-> r]
           line2 == [what |-> "release", record |-> r]
           x == ParseLines(what, r, attrs)
           q == log \o x
           n == Len(log)
<1>1. line1 \in Lines /\ line2 \in Lines
  BY DEF Lines
<1>2. x = <<line1>> \o IF attrs THEN <<line2>> ELSE <<>>
  BY DEF ParseLines, Line
<1>3. n \in Nat
  OBVIOUS
<1>4. o = [of |-> r, needs |-> needs, begin |-> n, end |-> n + 1,
           release |-> n + IF attrs THEN 2 ELSE 1]
  BY DEF Outcome
<1> HIDE DEF line1, line2, Lines
<1>5. /\ x \in Seq(Lines) /\ x[1] = line1
      /\ attrs => Len(x) = 2 /\ x[2] = line2
      /\ ~attrs => Len(x) = 1
  <2>1. CASE attrs
    <3>1. x = <<line1>> \o <<line2>>
      BY <1>2, <2>1
    <3> DEFINE u == <<line1>>
               v == <<line2>>
    <3>2. u \in Seq(Lines) /\ Len(u) = 1 /\ u[1] = line1
      BY <1>1
    <3>3. v \in Seq(Lines) /\ Len(v) = 1 /\ v[1] = line2
      BY <1>1
    <3> HIDE DEF u, v
    <3>4. x = u \o v
      BY <3>1 DEF u, v
    <3>5. Joined(x, u, v, Lines)
      BY <3>2, <3>3, <3>4, ConcatPlaces
    <3>6. x \in Seq(Lines) /\ Len(x) = 2 /\ x[1] = u[1] /\ x[1 + 1] = v[1]
      BY <3>2, <3>3, <3>5 DEF Joined
    <3>7. x[1] = line1 /\ x[2] = line2
      BY <3>2, <3>3, <3>6
    <3> QED
      BY <2>1, <3>6, <3>7
  <2>2. CASE ~attrs
    <3>1. x = <<line1>> \o <<>>
      BY <1>2, <2>2
    <3> DEFINE u == <<line1>>
    <3>2. u \in Seq(Lines) /\ Len(u) = 1 /\ u[1] = line1
      BY <1>1
    <3> HIDE DEF u
    <3>3. x = u \o <<>>
      BY <3>1 DEF u
    <3>4. x = u
      BY <3>2, <3>3
    <3> QED
      BY <2>2, <3>2, <3>4
  <2> QED
    BY <2>1, <2>2
<1> HIDE DEF x, o
<1>6. /\ q \in Seq(Lines) /\ Len(q) = n + Len(x)
      /\ \A i \in 1..Len(x) : q[n + i] = x[i]
  BY <1>5
<1> HIDE DEF q, n
<1>7. q[n + 1] = line1 /\ (attrs => q[n + 2] = line2 /\ Len(q) = n + 2) /\ Len(q) >= n + 1
  BY <1>3, <1>5, <1>6
<1>8. o \in Outcomes
  BY <1>3, <1>4 DEF Outcomes
<1>9. Right(o, q, r, what, needs, attrs)
  BY <1>3, <1>4, <1>7 DEF Right, line1, line2
<1> QED
  BY <1>5, <1>6, <1>8, <1>9 DEF o, q, x

\* Replay() of one line, and of none.
LEMMA ReplayRight ==
  ASSUME NEW log \in Seq(Lines), NEW begin \in Nat, NEW end \in Nat, end <= Len(log)
  PROVE  begin + 1 = end => Replay(log, begin, end) = <<log[end]>>
<1> DEFINE n == Len(log)
<1>1. n \in Nat
  OBVIOUS
<1>2. Min({end, n}) = end
  BY <1>1, MinOfTwo
<1>3. Replay(log, begin, end) = SubSeq(log, begin + 1, end)
  BY <1>2 DEF Replay
<1> SUFFICES ASSUME begin + 1 = end PROVE SubSeq(log, end, end) = <<log[end]>>
  BY <1>3
<1>4. end \in 1..n
  BY <1>1
<1> HIDE DEF Lines
<1> DEFINE q == SubSeq(log, end, end)
<1>5. q \in Seq(Lines) /\ Len(q) = 1 /\ q[1] = log[end]
  BY <1>4
<1> HIDE DEF q
<1>6. q = <<q[1]>>
  BY <1>5
<1> QED
  BY <1>5, <1>6 DEF q
----------------------------------------------------------------------------
(* What one thread does up to slot p, when the slots in used are used, those *)
(* in waits wait, those in kept are kept, and found says how each is parsed. *)

SeenOf(used, p) == Select(Up(p), used)
ChosenOf(used, some, p) == Select(SeenOf(used, p), some)
ParsesOf(used, waits, found, p, k) ==
  Mapped(found, SeenOf(used, p))
  \o [i \in 1..k |-> SecondParse(ChosenOf(used, waits, p)[i])]

\* The elements of a selection.
ElementsOf(q, s, T) ==
  /\ \A i \in 1..Len(q) : q[i] \in T /\ \E j \in 1..Len(s) : s[j] = q[i]
  /\ \A j \in 1..Len(s) : s[j] \in T => \E i \in 1..Len(q) : q[i] = s[j]

LEMMA SelectElements ==
  ASSUME NEW S, NEW s \in Seq(S), NEW T
  PROVE  Select(s, T) \in Seq(S) /\ ElementsOf(Select(s, T), s, T)
<1> DEFINE q == Select(s, T)
<1>1. q \in Seq(S) /\ \E f : PlacedBy(f, q, s, T, Len(s))
  BY SelectPlaces
<1>2. PICK f : PlacedBy(f, q, s, T, Len(s))
  BY <1>1
<1> HIDE DEF q
<1>3. \A i \in 1..Len(q) : q[i] \in T /\ \E j \in 1..Len(s) : s[j] = q[i]
  BY <1>2 DEF PlacedBy
<1>4. \A j \in 1..Len(s) : s[j] \in T => \E i \in 1..Len(q) : q[i] = s[j]
  BY <1>2 DEF PlacedBy
<1>5. ElementsOf(q, s, T)
  BY <1>3, <1>4 DEF ElementsOf
<1> QED
  BY <1>1, <1>5 DEF q

LEMMA SeenTyped ==
  ASSUME NEW used \in SUBSET Nat, NEW some, NEW p \in Nat
  PROVE  /\ SeenOf(used, p) \in Seq(Nat)
         /\ ChosenOf(used, some, p) \in Seq(Nat)
         /\ \A i \in 1..Len(SeenOf(used, p)) : SeenOf(used, p)[i] \in used /\ SeenOf(used, p)[i] < p
         /\ \A u \in used : u < p => \E i \in 1..Len(SeenOf(used, p)) : SeenOf(used, p)[i] = u
<1> DEFINE q == SeenOf(used, p)
<1>1. Up(p) \in Seq(Nat) /\ Len(Up(p)) = p /\ \A i \in 1..p : Up(p)[i] = i - 1
  BY DEF Up
<1>a. q \in Seq(Nat) /\ ElementsOf(q, Up(p), used)
  BY <1>1, SelectElements DEF SeenOf
<1> HIDE DEF q
<1>2. /\ q \in Seq(Nat)
      /\ \A i \in 1..Len(q) : q[i] \in used /\ \E j \in 1..p : Up(p)[j] = q[i]
      /\ \A j \in 1..p : Up(p)[j] \in used => \E i \in 1..Len(q) : q[i] = Up(p)[j]
  BY <1>a, <1>1 DEF ElementsOf
<1>3. \A i \in 1..Len(q) : q[i] < p
  BY <1>1, <1>2
<1>4. ASSUME NEW u \in used, u < p PROVE \E i \in 1..Len(q) : q[i] = u
  <2>1. u + 1 \in 1..p /\ (u + 1) - 1 = u
    BY <1>4
  <2>2. Up(p)[u + 1] = u
    BY <1>1, <2>1
  <2> QED
    BY <1>2, <2>1, <2>2
<1>5. ChosenOf(used, some, p) \in Seq(Nat)
  BY <1>2, SelectElements DEF ChosenOf, q
<1> QED
  BY <1>2, <1>3, <1>4, <1>5 DEF q

LEMMA ChosenElements ==
  ASSUME NEW used \in SUBSET Nat, NEW some \in SUBSET used, NEW p \in Nat
  PROVE  /\ \A i \in 1..Len(ChosenOf(used, some, p)) :
              ChosenOf(used, some, p)[i] \in some /\ ChosenOf(used, some, p)[i] < p
         /\ \A u \in some : u < p =>
              \E i \in 1..Len(ChosenOf(used, some, p)) : ChosenOf(used, some, p)[i] = u
<1> DEFINE q == SeenOf(used, p)
           c == ChosenOf(used, some, p)
<1>1. /\ q \in Seq(Nat)
      /\ \A i \in 1..Len(q) : q[i] \in used /\ q[i] < p
      /\ \A u \in used : u < p => \E i \in 1..Len(q) : q[i] = u
  BY SeenTyped
<1>2. ElementsOf(c, q, some)
  BY <1>1, SelectElements DEF ChosenOf
<1> HIDE DEF q, c
<1>3. \A i \in 1..Len(c) : c[i] \in some /\ c[i] < p
  BY <1>1, <1>2 DEF ElementsOf
<1>4. ASSUME NEW u \in some, u < p PROVE \E i \in 1..Len(c) : c[i] = u
  <2>1. PICK j \in 1..Len(q) : q[j] = u
    BY <1>1, <1>4
  <2> QED
    BY <1>2, <1>4, <2>1 DEF ElementsOf
<1> QED
  BY <1>3, <1>4 DEF c

\* Slot p more.
LEMMA SeenNext ==
  ASSUME NEW used \in SUBSET Nat, NEW p \in Nat
  PROVE  /\ SeenOf(used, 0) = <<>>
         /\ SeenOf(used, p + 1) = IF p \in used THEN Append(SeenOf(used, p), p)
                                  ELSE SeenOf(used, p)
<1> DEFINE s == Up(p)
<1>1. Up(0) = <<>> /\ s \in Seq(0..p) /\ Up(p + 1) = Append(s, p)
  BY UpNext
<1>a. p \in 0..p
  OBVIOUS
<1> HIDE DEF s
<1> DEFINE S == 0..p
<1>b. s \in Seq(S) /\ p \in S
  BY <1>1, <1>a
<1> HIDE DEF S
<1>2. Select(Append(s, p), used) = IF p \in used THEN Append(Select(s, used), p) ELSE Select(s, used)
  BY <1>b, SelectAppend
<1> QED
  BY <1>1, <1>2, SelectNone DEF SeenOf, s

LEMMA ChosenNext ==
  ASSUME NEW used \in SUBSET Nat, NEW some \in SUBSET used, NEW p \in Nat
  PROVE  /\ ChosenOf(used, some, 0) = <<>>
         /\ ChosenOf(used, some, p + 1) = IF p \in some THEN Append(ChosenOf(used, some, p), p)
                                          ELSE ChosenOf(used, some, p)
<1> DEFINE q == SeenOf(used, p)
<1>1. SeenOf(used, 0) = <<>> /\ SeenOf(used, p + 1) = (IF p \in used THEN Append(q, p) ELSE q)
  BY SeenNext
<1>2. q \in Seq(Nat)
  BY SeenTyped
<1> HIDE DEF q
<1>3. Select(Append(q, p), some) = IF p \in some THEN Append(Select(q, some), p) ELSE Select(q, some)
  BY <1>2, SelectAppend
<1>4. CASE p \in used
  BY <1>1, <1>3, <1>4, SelectNone DEF ChosenOf, q
<1>5. CASE p \notin used
  <2>1. p \notin some
    BY <1>5
  <2> QED
    BY <1>1, <1>5, <2>1, SelectNone DEF ChosenOf, q
<1> QED
  BY <1>4, <1>5

\* To choose among those chosen.
LEMMA ChosenOfChosen ==
  ASSUME NEW used \in SUBSET Nat, NEW some \in SUBSET used, NEW less \in SUBSET some,
         NEW p \in Nat
  PROVE  Select(ChosenOf(used, some, p), less) = ChosenOf(used, less, p)
<1> DEFINE Wrong == {k \in Nat : Select(ChosenOf(used, some, k), less) # ChosenOf(used, less, k)}
<1> SUFFICES ASSUME Wrong # {} PROVE FALSE
  OBVIOUS
<1>1. PICK d \in Wrong : \A k \in Wrong : d <= k
  BY LeastNatural
<1>a. less \in SUBSET used
  OBVIOUS
<1>2. d # 0
  <2>1. ChosenOf(used, some, 0) = <<>> /\ ChosenOf(used, less, 0) = <<>>
    BY <1>a, ChosenNext
  <2> QED
    BY <2>1, SelectNone
<1>3. d - 1 \in Nat /\ (d - 1) + 1 = d /\ d - 1 \notin Wrong
  BY <1>1, <1>2
<1>4. PICK e \in Nat : e + 1 = d /\ e \notin Wrong
  BY <1>3
<1> DEFINE c == ChosenOf(used, some, e)
           l == ChosenOf(used, less, e)
<1>5. Select(c, less) = l /\ Select(ChosenOf(used, some, d), less) # ChosenOf(used, less, d)
  BY <1>4
<1> HIDE DEF Wrong
<1>6. ChosenOf(used, some, e + 1) = IF e \in some THEN Append(c, e) ELSE c
  BY ChosenNext
<1>7. ChosenOf(used, less, e + 1) = IF e \in less THEN Append(l, e) ELSE l
  BY <1>a, ChosenNext
<1>8. c \in Seq(Nat)
  BY SeenTyped
<1> HIDE DEF c, l
<1>9. Select(Append(c, e), less) = IF e \in less THEN Append(Select(c, less), e) ELSE Select(c, less)
  BY <1>8, SelectAppend
<1> QED
  BY <1>4, <1>5, <1>6, <1>7, <1>9

\* The parses of one slot more, and of one waiting record more.
LEMMA MappedTyped ==
  ASSUME NEW used \in SUBSET Nat, NEW found \in [used -> Parses], NEW p \in Nat
  PROVE  Mapped(found, SeenOf(used, p)) \in Seq(Parses)
<1> DEFINE q == SeenOf(used, p)
<1>1. q \in Seq(Nat) /\ \A i \in 1..Len(q) : q[i] \in used
  BY SeenTyped
<1> HIDE DEF q, Parses
<1>2. \A i \in 1..Len(q) : found[q[i]] \in Parses
  BY <1>1
<1>3. DOMAIN q = 1..Len(q) /\ Len(q) \in Nat
  BY <1>1
<1>4. Mapped(found, q) \in [1..Len(q) -> Parses]
  BY <1>2, <1>3 DEF Mapped
<1> QED
  BY <1>3, <1>4 DEF q

FunctionTo(f, S, P) == f \in [S -> P]

LEMMA MappedNext ==
  ASSUME NEW S, NEW q \in Seq(S), NEW e \in S, NEW P, NEW f, FunctionTo(f, S, P)
  PROVE  Mapped(f, Append(q, e)) = Append(Mapped(f, q), f[e])
<1>f. f \in [S -> P]
  BY DEF FunctionTo
<1> DEFINE a == Append(q, e)
           m == Mapped(f, q)
           n == Append(m, f[e])
<1>1. Appended(a, q, e) /\ q \in [1..Len(q) -> S] /\ Len(q) \in Nat
  BY AppendIsAppended
<1>2. m \in Seq(P) /\ Len(m) = Len(q) /\ \A i \in 1..Len(q) : m[i] = f[q[i]]
  BY <1>1, <1>f DEF Mapped
<1>3. f[e] \in P
  BY <1>f
<1> HIDE DEF a, m
<1>4. Appended(n, m, f[e])
  BY <1>2, <1>3, AppendIsAppended
<1> HIDE DEF n
<1>5. ASSUME NEW i \in 1..(Len(q) + 1) PROVE f[a[i]] = n[i]
  <2>1. CASE i = Len(q) + 1
    BY <2>1, <1>1, <1>2, <1>4 DEF Appended
  <2>2. CASE i \in 1..Len(q)
    BY <2>2, <1>1, <1>2, <1>4 DEF Appended
  <2> QED
    BY <2>1, <2>2, <1>1
<1>6. DOMAIN a = 1..(Len(q) + 1) /\ n = [i \in 1..(Len(q) + 1) |-> n[i]]
  BY <1>1, <1>2, <1>4 DEF Appended
<1>7. Mapped(f, a) = n
  BY <1>5, <1>6 DEF Mapped
<1> QED
  BY <1>7 DEF a, n, m

LEMMA ParsesFirst ==
  ASSUME NEW used \in SUBSET Nat, NEW waits, NEW found \in [used -> Parses], NEW p \in Nat
  PROVE  /\ ParsesOf(used, waits, found, p, 0) \in Seq(Parses)
         /\ ParsesOf(used, waits, found, 0, 0) = <<>>
         /\ p \in used => ParsesOf(used, waits, found, p + 1, 0)
                            = Append(ParsesOf(used, waits, found, p, 0), found[p])
         /\ p \notin used => ParsesOf(used, waits, found, p + 1, 0)
                            = ParsesOf(used, waits, found, p, 0)
<1>1. ASSUME NEW k \in Nat
      PROVE  ParsesOf(used, waits, found, k, 0) = Mapped(found, SeenOf(used, k))
             /\ Mapped(found, SeenOf(used, k)) \in Seq(Parses)
  <2> DEFINE m == Mapped(found, SeenOf(used, k))
  <2>1. m \in Seq(Parses)
    BY MappedTyped
  <2>2. [i \in 1..0 |-> SecondParse(ChosenOf(used, waits, k)[i])] = <<>>
    OBVIOUS
  <2>3. ParsesOf(used, waits, found, k, 0)
          = m \o [i \in 1..0 |-> SecondParse(ChosenOf(used, waits, k)[i])]
    BY DEF ParsesOf
  <2> HIDE DEF m, Parses
  <2>4. m \o <<>> = m
    BY <2>1
  <2> QED
    BY <2>1, <2>2, <2>3, <2>4 DEF m
<1> DEFINE q == SeenOf(used, p)
<1>2. q \in Seq(used)
  <2>1. q \in Seq(Nat) /\ \A i \in 1..Len(q) : q[i] \in used
    BY SeenTyped
  <2> HIDE DEF q
  <2> QED
    BY <2>1
<1>3. SeenOf(used, 0) = <<>> /\ SeenOf(used, p + 1) = IF p \in used THEN Append(q, p) ELSE q
  BY SeenNext
<1>4. Mapped(found, <<>>) = <<>>
  BY DEF Mapped
<1> HIDE DEF q
<1>5. p \in used => Mapped(found, Append(q, p)) = Append(Mapped(found, q), found[p])
  <2> SUFFICES ASSUME p \in used
              PROVE  Mapped(found, Append(q, p)) = Append(Mapped(found, q), found[p])
    OBVIOUS
  <2>1. FunctionTo(found, used, Parses)
    BY DEF FunctionTo
  <2> QED
    BY <1>2, <2>1, MappedNext
<1>6. p + 1 \in Nat /\ 0 \in Nat
  OBVIOUS
<1> QED
  BY <1>1, <1>3, <1>4, <1>5, <1>6 DEF q

LEMMA ParsesSecond ==
  ASSUME NEW used \in SUBSET Nat, NEW waits, NEW found \in [used -> Parses], NEW p \in Nat,
         NEW k \in Nat, k < Len(ChosenOf(used, waits, p))
  PROVE  /\ ParsesOf(used, waits, found, p, k) \in Seq(Parses)
         /\ SecondParse(ChosenOf(used, waits, p)[k + 1]) \in Parses
         /\ ParsesOf(used, waits, found, p, k + 1)
              = Append(ParsesOf(used, waits, found, p, k),
                       SecondParse(ChosenOf(used, waits, p)[k + 1]))
<1> DEFINE m == Mapped(found, SeenOf(used, p))
           c == ChosenOf(used, waits, p)
           s(n) == [i \in 1..n |-> SecondParse(c[i])]
           e == SecondParse(c[k + 1])
<1>1. m \in Seq(Parses)
  BY MappedTyped
<1>2. c \in Seq(Nat)
  BY SeenTyped
<1>3. ParsesOf(used, waits, found, p, k) = m \o s(k) /\ ParsesOf(used, waits, found, p, k + 1) = m \o s(k + 1)
  BY DEF ParsesOf
<1> HIDE DEF c, m
<1>4. \A i \in 1..(k + 1) : SecondParse(c[i]) \in Parses
  <2>1. \A i \in 1..(k + 1) : c[i] \in Nat
    BY <1>2 DEF c
  <2> QED
    BY <2>1 DEF SecondParse, Parses
<1> HIDE DEF Parses
<1>5. s(k) \in Seq(Parses) /\ Len(s(k)) = k /\ e \in Parses
  BY <1>4
<1>6. s(k + 1) = Append(s(k), e)
  <2> DEFINE a == Append(s(k), e)
             b == s(k)
             d == s(k + 1)
  <2>1. d = [i \in 1..(k + 1) |-> d[i]] /\ d[k + 1] = e /\ \A i \in 1..k : d[i] = b[i]
    OBVIOUS
  <2>2. Appended(a, b, e) /\ Len(b) = k
    BY <1>5, AppendIsAppended
  <2> HIDE DEF a, b, d, e
  <2>3. ASSUME NEW i \in 1..(k + 1) PROVE a[i] = d[i]
    <3>1. CASE i = k + 1
      BY <3>1, <2>1, <2>2 DEF Appended
    <3>2. CASE i \in 1..k
      BY <3>2, <2>1, <2>2 DEF Appended
    <3> QED
      BY <3>1, <3>2
  <2>4. a = d
    BY <2>1, <2>2, <2>3 DEF Appended
  <2> QED
    BY <2>4 DEF a, b, d, e
<1> DEFINE b == s(k)
<1>7. b \in Seq(Parses) /\ e \in Parses
  BY <1>5
<1>8. ParsesOf(used, waits, found, p, k) = m \o b
      /\ ParsesOf(used, waits, found, p, k + 1) = m \o Append(b, e)
  BY <1>3, <1>6
<1> HIDE DEF b, e
<1>9. m \o Append(b, e) = Append(m \o b, e) /\ m \o b \in Seq(Parses)
  BY <1>1, <1>7
<1> QED
  BY <1>7, <1>8, <1>9 DEF e, c

\* What DropEntries() leaves of the entries es without the places out.
LeftOver(es, out) ==
  LET places == Select([i \in 1..Len(es) |-> i], DOMAIN es \ out)
  IN  [i \in DOMAIN places |-> es[places[i]]]

\* It leaves what one thread keeps, once the entries are filled in.
LEMMA DropsRight ==
  ASSUME NEW used \in SUBSET Nat, NEW some \in SUBSET used, NEW kept \in SUBSET some,
         NEW p \in Nat, NEW out, NEW es, es = ChosenOf(used, some, p),
         \A i \in DOMAIN es : i \in out <=> es[i] \notin kept
  PROVE  LeftOver(es, out) = ChosenOf(used, kept, p)
<1>1. es \in Seq(Nat)
  BY SeenTyped
<1>2. \A i \in DOMAIN es : i \in DOMAIN es \ out <=> es[i] \in kept
  OBVIOUS
<1> DEFINE places == Select([i \in 1..Len(es) |-> i], DOMAIN es \ out)
<1>3. Mapped(es, places) = Select(es, kept)
  BY <1>1, <1>2, SelectByPlace
<1>4. Select(es, kept) = ChosenOf(used, kept, p)
  BY ChosenOfChosen
<1> QED
  BY <1>3, <1>4 DEF Mapped, LeftOver
=============================================================================
