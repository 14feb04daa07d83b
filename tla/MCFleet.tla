------------------------------- MODULE MCFleet -------------------------------
(* Small instances of Fleet for TLC.                                        *)
EXTENDS Fleet

CONSTANTS d1, d2, w1, b1, b2, j1, j2

OneOrg == [j \in Jobs |-> "org"]
Apart  == [j \in Jobs |-> j]

(* Two ticks, or three machines, meet before anything is claimed; two ticks *)
(* while the reaper is at rest.                                             *)
Narrow ==
  \/ tick[d2].pc = "idle" /\ wk[b2].pc = "off"
  \/ (tick[d2].pc = "idle" \/ reap.pc = "idle") /\ \A j \in Jobs : row[j].attempts = 0
==============================================================================
