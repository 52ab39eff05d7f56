------------------------- MODULE MCDirectoryListing -------------------------
(* A small volume: the root (record 1) has two index blocks and names the  *)
(* directories 4, 6 and 8.  Directory 6 has a tree of two levels that      *)
(* leads back to itself, 8 names 4 again, and a block of 6 has no pointer. *)
EXTENDS DirectoryListing

E(ref)       == [ref |-> ref, seq |-> 1, sub |-> None, filed |-> TRUE]
ESub(ref, v) == [ref |-> ref, seq |-> 1, sub |-> v, filed |-> TRUE]
EOld(ref)    == [ref |-> ref, seq |-> 2, sub |-> None, filed |-> FALSE]
Ok(entries)  == [state |-> "ok", entries |-> entries]
Fails(state) == [state |-> state, entries |-> <<>>]

Index(block) ==
  1 :> [root     |-> <<ESub(4, 0), ESub(None, 1)>>,
        blocks   |-> (0 :> Ok(<<E(2), E(3), E(0)>>) @@ 1 :> Ok(<<E(5), E(6), E(8), E(13)>>)),
        declared |-> 2] @@
  4 :> [root |-> <<E(9), E(10), E(7), E(14)>>, blocks |-> Empty, declared |-> 0] @@
  6 :> [root     |-> <<ESub(None, 0), ESub(None, 2)>>,
        blocks   |-> (0 :> Ok(<<E(7), ESub(11, 1)>>) @@ 1 :> Ok(<<E(12), E(6), ESub(None, 0)>>)
                        @@ 2 :> block @@ 3 :> Ok(<<E(9), EOld(3)>>)),
        declared |-> 5] @@
  8 :> [root |-> <<E(3), E(4), EOld(2), EOld(6)>>, blocks |-> Empty, declared |-> 0]

Live == [slot \in 0 .. 13 |-> "live"]

KindsOf ==
  {Live,
   [Live EXCEPT ![3] = "freed", ![7] = "torn", ![8] = "torn", ![2] = "odd", ![0] = "rot"],
   [Live EXCEPT ![6] = "rot", ![10] = "missing", ![9] = "blank", ![0] = "torn"],
   [Live EXCEPT ![4] = "missing", ![11] = "odd", ![6] = "spread", ![12] = "torn"],
   [Live EXCEPT ![8] = "blank", ![5] = "freed", ![7] = "rot", ![4] = "torn"]}

Probe(gap, maxRun, chunk, maxKnown) ==
  [gap |-> gap, maxRun |-> maxRun, wideGap |-> 3, wideShare |-> 500,
   chunk |-> chunk, maxKnown |-> maxKnown]

(* A tuning: the device, what is kept, how probes are cut, what is planned. *)
Tuning(block, perCluster, window, memo, probe, dirs, bytes, runs) ==
  [block |-> block, perCluster |-> perCluster, windowBytes |-> window,
   memoEntries |-> memo, probe |-> probe, aheadDirs |-> dirs, aheadBytes |-> bytes,
   laneRuns |-> runs, rotational |-> block # 0, share |-> 2, lookahead |-> 2,
   maxPlanned |-> 9, maxUnreadable |-> 1]

Tunings ==
  {Tuning(b, 1, 0, 0, p, 2, 20, r) : b \in {0, 2},
     p \in {Probe(0, 4, 8, 100), Probe(1, 4, 2, 3)}, r \in {1, 2}}
  \cup
  {Tuning(0, c, win, m, p, d, 20, 2) : c \in {1, 2}, win \in {0, 3, 6}, m \in {3},
     p \in {Probe(0, 2, 8, 3), Probe(1, 4, 2, 100)}, d \in {1, 3}}
  \cup
  {Tuning(0, 2, 4, 0, Probe(0, 4, 8, 100), d, by, 1) : d \in {0, 2, 4}, by \in {1, 5, 9}}

MCWorlds ==
  {[recover |-> opt[1], includeDeleted |-> opt[2], kinds |-> kinds, end |-> 14,
    mirror |-> 0 :> "live", index |-> Index(block)] @@ t :
     opt \in {<<FALSE, FALSE>>, <<TRUE, TRUE>>}, kinds \in KindsOf,
     block \in {Ok(<<E(13)>>), Fails("damaged"), Fails("sparse"), Fails("bad")},
     t \in Tunings}
=============================================================================
