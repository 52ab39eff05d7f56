----------------------------- MODULE MCSlotScan -----------------------------
(***************************************************************************)
(* SlotScan on five slots: slot 0 is read alone, slots 1 and 2 and slots 3 *)
(* and 4 are a window each when all are used, and extensions name slot 2,  *)
(* so that one comes before its base and one after.                        *)
(***************************************************************************)
EXTENDS SlotScan

\* A far list lies in clusters of its own.
SlotOf(kind) ==
  [kind |-> CASE kind = "far_list" -> "listed"
              [] kind = "far_lost" -> "lost_list"
              [] OTHER -> kind,
   base |-> IF kind = "extension" THEN 2 ELSE 0,
   far  |-> kind \in {"far_list", "far_lost"}]

MCKinds ==
  <<{"free", "listed"},
    {"free", "plain", "extension"},
    {"free", "plain", "listed", "lost_list"},
    {"free", "plain", "extension", "stream"},
    {"bad", "lost", "listed"}>>

\* Three records or more that wait, with reads of their own.
FarKinds ==
  <<{"free"}, {"far_list", "far_lost"}, {"far_lost", "listed"}, {"extension", "far_list"},
    {"listed", "far_lost"}>>

LayoutsOf(choices) ==
  {[r \in 0..4 |-> SlotOf(kinds[r + 1])] :
     kinds \in {k \in [1..5 -> UNION {choices[i] : i \in 1..5}] :
                  \A i \in 1..5 : k[i] \in choices[i]}}

MCLayouts == LayoutsOf(MCKinds) \cup LayoutsOf(FarKinds)
=============================================================================
