--------------------------- MODULE MCCachedReader ---------------------------
(* A medium of nine bytes, so that its last block of two is short: reads in *)
(* one block, across two and over many, at both ends, with a bad byte.      *)
EXTENDS CachedReader

MCBadSets == {{}, {3}, {6}}
MCRequests ==
  {[addr |-> a, length |-> n] : a \in {0, 1}, n \in {1, 3, 5, 7}}
    \cup {[addr |-> 5, length |-> 3], [addr |-> 6, length |-> 3], [addr |-> 8, length |-> 1],
          [addr |-> 8, length |-> 2], [addr |-> -1, length |-> 1],
          [addr |-> 10, length |-> 1], [addr |-> 10, length |-> 2], [addr |-> 2, length |-> 0]}
=============================================================================
