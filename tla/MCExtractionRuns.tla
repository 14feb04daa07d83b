-------------------------- MODULE MCExtractionRuns --------------------------
(* Small instances of ExtractionRuns for TLC.                               *)
EXTENDS ExtractionRuns, TLC

CONSTANTS j1, j2, j3, d1, d2

(* The jobs have the same part: they are queued in the order of their names. *)
InOrder ==
  /\ status[j2] # "absent" => status[j1] # "absent"
  /\ status[j3] # "absent" => status[j2] # "absent"
=============================================================================
