--------------------------- MODULE MCProcessCaller ---------------------------
(* Two branches, with every pair of end events.  A call activity, whose     *)
(* child is resumed twice after a restart, meets every single one of them    *)
(* and one pair, of which one ends and the other one fails.                 *)
EXTENDS ProcessCaller

CONSTANTS b1, b2

MCBranches == {b1, b2}
Ends(t1, t2) == [b \in MCBranches |-> IF b = b1 THEN t1 ELSE t2]
MCCases ==
  ({"client", "subProcess"} \X [MCBranches -> EndTypes])
    \cup ({"callActivity"} \X ({Ends("regular", "invalid")} \cup {Ends(t, NoBranch) : t \in EndTypes}))
=============================================================================
