------------------------- MODULE MCReadAheadReader -------------------------
(* A small medium for ReadAheadReader: nine bytes, sectors of two. *)
EXTENDS ReadAheadReader

CONSTANTS m1, m2

MCMedia == {m1, m2}

\* One medium has a bad byte, the other ends before the largest address.
MCBadOf == [m \in MCMedia |-> IF m = m1 THEN {5} ELSE {8}]

\* Forward reads, a read inside the window, one larger than a chunk, one that is
\* not aligned, an empty one, one below 0 and one past the largest address.
MCRequests ==
  {[start |-> 0, len |-> 2], [start |-> 1, len |-> 1], [start |-> 2, len |-> 2],
   [start |-> 4, len |-> 1], [start |-> 4, len |-> 4], [start |-> 5, len |-> 3],
   [start |-> 3, len |-> 0], [start |-> -1, len |-> 1], [start |-> 8, len |-> 2]}
=============================================================================
