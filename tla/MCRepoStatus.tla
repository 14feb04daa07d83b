---------------------------- MODULE MCRepoStatus ----------------------------
(* Small instances of RepoStatus for TLC.                                   *)
EXTENDS RepoStatus

CONSTANTS s1, s2, d1, d2

AllDeps == [s \in Scans |-> Deps]

(* d2 is transitive when s1 finds it, and direct when s2 does.              *)
DirectDeps == [s \in Scans |-> IF s = s1 THEN {d1} ELSE Deps]

(* Requests between two statements, one at a time.                          *)
Sides == (IF notify # {} THEN 1 ELSE 0) + (IF canc # Null THEN 1 ELSE 0)
           + (IF look # NoLook THEN 1 ELSE 0) + (IF con # "no" THEN 1 ELSE 0)

(* Two batches, or a batch and a pipeline that has outlived its job, or a   *)
(* batch and a request, do not meet.                                        *)
Quiet ==
  hand # NoBatch \/ new[s2] = Deps
    => Sides = 0 /\ \A s \in Scans : pc[s] # "off" => ~Zombie(s)

(* s1 alone, with the requests and the other project, whose rows do not     *)
(* meet a batch; or s2 alone, with two batches; or s2 when s1 and its batch *)
(* are over, but perhaps not its pipeline.                                  *)
Narrow ==
  /\ Sides <= 1
  /\ \/ /\ row[s2] = "absent" /\ Quiet
        /\ elsewhere # {} => msg = {} /\ hand = NoBatch
     \/ /\ row[s1] = "absent" /\ Quiet
        /\ elsewhere = {} /\ Sides = 0
     \/ /\ row[s1] \notin {"absent", "queued", "processing"} /\ row[s2] # "absent"
        /\ dep[d1] = "ready" /\ dep[d2] \in {"pending", "ready"} /\ elsewhere = {}
        /\ dropped \subseteq {d2} /\ hand = NoBatch /\ msg = {}
        /\ Sides = 0 \/ pc[s1] = "off"
=============================================================================
