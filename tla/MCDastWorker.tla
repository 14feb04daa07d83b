--------------------------- MODULE MCDastWorker -----------------------------
(* Small instances of DastWorker for TLC.                                   *)
EXTENDS DastWorker, TLC

CONSTANTS j1, j2, m1, m2

OneProject == [j \in Jobs |-> "p"]
OneTarget  == [j \in Jobs |-> "t"]
OneOrg     == [j \in Jobs |-> "org"]
Engines    == [j \in Jobs |-> IF j = j1 THEN "dast_zap" ELSE "dast_nuclei"]

(* The two requests meet on one machine; two machines, on one request.      *)
Narrow == call[j1] = "none" \/ call[j2] = "none" \/ wk[m2] = Resting("off")
=============================================================================
