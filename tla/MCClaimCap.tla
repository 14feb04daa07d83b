----------------------------- MODULE MCClaimCap -----------------------------
(* Small instances of ClaimCap for TLC.                                     *)
EXTENDS ClaimCap, TLC

CONSTANTS j1, j2, j3, m1, m2

OneOrg      == [j \in Jobs |-> "o1"]
OwnProjects == [j \in Jobs |-> j]

MachineSymmetry == Permutations(Machines)
=============================================================================
