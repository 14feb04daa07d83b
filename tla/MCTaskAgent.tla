----------------------------- MODULE MCTaskAgent -----------------------------
(* Small instance of TaskAgent for TLC.                                      *)
EXTENDS TaskAgent

CONSTANTS m1, m2

(* Two of a Stop and the faults with one message; the second message while   *)
(* little else has happened.                                                 *)
Narrow == /\ stops + faults <= 2
          /\ posted <= 1 \/ stops + faults + row.run <= 2
=============================================================================
