------------------------- MODULE MCExtractionWorker -------------------------
(* Small instances of ExtractionWorker for TLC.                             *)
EXTENDS ExtractionWorker, TLC

CONSTANTS j1, j2, m1, m2

OneProject  == [j \in Jobs |-> "p1"]
TwoProjects == [j \in Jobs |-> IF j = j1 THEN "p1" ELSE "p2"]
OneOrg      == [j \in Jobs |-> "org"]

(* The machines have the same part: m1 takes the first attempt of the job.  *)
FirstOnM1 == row[j1].machine = m2 \/ Busy(m2) => row[j1].attempts > 1
=============================================================================
