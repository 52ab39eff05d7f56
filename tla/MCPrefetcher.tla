---------------------------- MODULE MCPrefetcher ----------------------------
(* Two small stores for Prefetcher: eight bytes, sectors of two. *)
EXTENDS Prefetcher, TLC

CONSTANTS m1, m2, p1, p2

MCMedia == {m1, m2}
MCBadOf == [m \in MCMedia |-> {5}]

\* The stores differ in nothing but their bytes.
MCStores == Permutations(MCMedia)

MCPatterns == {p1, p2}

\* One pattern reads deep, the other only one range at a time.
MCCaps == [p \in MCPatterns |->
  IF p = p1
  THEN [max_reads |-> 2, max_bytes |-> 6, max_range_bytes |-> 4,
        max_announced_ranges |-> 2, match_lookahead |-> 2]
  ELSE [max_reads |-> 1, max_bytes |-> 4, max_range_bytes |-> 2,
        max_announced_ranges |-> 1, match_lookahead |-> 1]]

\* A range of one sector, one that straddles two, one beside a bad byte and one
\* whose aligned read would wrap.
MCRanges ==
  {[offset |-> 0, length |-> 2], [offset |-> 1, length |-> 3], [offset |-> 4, length |-> 1],
   [offset |-> 7, length |-> 1]}

\* A read inside a range, two up to the end of one, the bad byte, an empty read
\* and an address below 0.
MCRequests ==
  {[start |-> 1, len |-> 1], [start |-> 2, len |-> 2], [start |-> 4, len |-> 1],
   [start |-> 5, len |-> 1], [start |-> 3, len |-> 0], [start |-> -1, len |-> 1]}
=============================================================================
