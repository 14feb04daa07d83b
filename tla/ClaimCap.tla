------------------------------ MODULE ClaimCap ------------------------------
(***************************************************************************)
(* claim_scan_job as PostgreSQL runs it.  The counts and the order come    *)
(* from the snapshot taken when the statement starts; FOR UPDATE SKIP      *)
(* LOCKED then walks the candidates in that order, passes over rows that   *)
(* another claim holds, and checks the status again on the version it      *)
(* locked.  ScanQueue takes all of this as one step.                       *)
(***************************************************************************)
EXTENDS Integers, FiniteSets

CONSTANTS
  Jobs, Machines,
  OrgOf,         \* OrgOf[j]: organization_id
  SlotOf,        \* SlotOf[j]: the (project_id, type) of the unique index
  MaxPerOrg,     \* p_max_per_org
  MaxAttempts,   \* max_attempts
  Null

ASSUME ClaimAssumption ==
  /\ IsFiniteSet(Jobs) /\ IsFiniteSet(Machines)
  /\ MaxPerOrg \in Nat \ {0}
  /\ MaxAttempts \in Nat \ {0}
  /\ Null \notin Jobs

VARIABLES
  status,        \* status[j]: the committed status of row j
  attempts,      \* attempts[j]
  txn            \* txn[m]: the claim, or the job, of machine m

vars == <<status, attempts, txn>>

Orgs   == {OrgOf[j] : j \in Jobs}
Status == {"absent", "queued", "processing", "settled"}

None == [j \in Jobs |-> "absent"]
Idle == [pc |-> "idle", snap |-> None, passed |-> {}, job |-> Null]

TypeOK ==
  /\ status \in [Jobs -> Status]
  /\ attempts \in [Jobs -> 0..MaxAttempts]
  /\ txn \in [Machines -> [pc     : {"idle", "walk", "locked", "run"},
                           snap   : [Jobs -> Status],
                           passed : SUBSET Jobs,
                           job    : Jobs \cup {Null}]]

Init ==
  /\ status = [j \in Jobs |-> "absent"]
  /\ attempts = [j \in Jobs |-> 0]
  /\ txn = [m \in Machines |-> Idle]

-----------------------------------------------------------------------------
InFlight(s, o) == Cardinality({j \in Jobs : s[j] = "processing" /\ OrgOf[j] = o})
Load(s, j)     == InFlight(s, OrgOf[j])

(* Mutant: the cap is not asked for.                                        *)
CandidatesNoCap(s) == {j \in Jobs : s[j] = "queued"}

(* The rows the sub-select returns on snapshot s.                           *)
Candidates(s) == {j \in Jobs : s[j] = "queued" /\ Load(s, j) < MaxPerOrg}

Left(m) == Candidates(txn[m].snap) \ txn[m].passed

(* The next candidate in the order of the snapshot; created_at breaks ties  *)
(* in the code, any order here.                                             *)
NextUp(m, j) ==
  /\ txn[m].pc = "walk"
  /\ j \in Left(m)
  /\ \A k \in Left(m) : Load(txn[m].snap, j) <= Load(txn[m].snap, k)

Locked(j) == \E m \in Machines : txn[m].pc = "locked" /\ txn[m].job = j

(* Mutant: the locked version is trusted to be the one of the snapshot.     *)
RecheckNothing(j) == j \in Jobs

(* The status is read again on the version that was locked.                 *)
Recheck(j) == status[j] = "queued"

Begin(m) ==
  /\ txn[m].pc = "idle"
  /\ txn' = [txn EXCEPT ![m] = [Idle EXCEPT !.pc = "walk", !.snap = status]]
  /\ UNCHANGED <<status, attempts>>

PassOver(m, j) ==
  /\ NextUp(m, j)
  /\ Locked(j) \/ ~Recheck(j)
  /\ txn' = [txn EXCEPT ![m].passed = @ \cup {j}]
  /\ UNCHANGED <<status, attempts>>

Lock(m, j) ==
  /\ NextUp(m, j)
  /\ ~Locked(j) /\ Recheck(j)
  /\ txn' = [txn EXCEPT ![m].pc = "locked", ![m].job = j]
  /\ UNCHANGED <<status, attempts>>

Commit(m) ==
  /\ txn[m].pc = "locked"
  /\ status' = [status EXCEPT ![txn[m].job] = "processing"]
  /\ attempts' = [attempts EXCEPT ![txn[m].job] = @ + 1]
  /\ txn' = [txn EXCEPT ![m] = [Idle EXCEPT !.pc = "run", !.job = txn[m].job]]

Empty(m) ==
  /\ txn[m].pc = "walk" /\ Left(m) = {}
  /\ txn' = [txn EXCEPT ![m] = Idle]
  /\ UNCHANGED <<status, attempts>>

-----------------------------------------------------------------------------
(* The other statements on the row.  Each waits for the lock of a claim.    *)
Insert(j) ==
  /\ status[j] = "absent"
  /\ \A k \in Jobs : SlotOf[k] = SlotOf[j] => status[k] \notin {"queued", "processing"}
  /\ status' = [status EXCEPT ![j] = "queued"]
  /\ UNCHANGED <<attempts, txn>>

Cancel(j) ==
  /\ status[j] \in {"queued", "processing"} /\ ~Locked(j)
  /\ status' = [status EXCEPT ![j] = "settled"]
  /\ UNCHANGED <<attempts, txn>>

(* Mutant: off by one at max_attempts.                                      *)
RecoverOneMore(j) ==
  /\ status[j] = "processing"
  /\ status' = [status EXCEPT ![j] =
                  IF attempts[j] <= MaxAttempts THEN "queued" ELSE "settled"]
  /\ UNCHANGED <<attempts, txn>>

(* recover_stuck_scan_jobs or fail_exhausted_scan_jobs, of a row whose      *)
(* worker is dead or silent.                                                *)
Recover(j) ==
  /\ status[j] = "processing"
  /\ status' = [status EXCEPT ![j] =
                  IF attempts[j] < MaxAttempts THEN "queued" ELSE "settled"]
  /\ UNCHANGED <<attempts, txn>>

Finish(m) ==
  /\ txn[m].pc = "run"
  /\ status' = [status EXCEPT ![txn[m].job] =
                  IF @ = "processing" THEN "settled" ELSE @]
  /\ txn' = [txn EXCEPT ![m] = Idle]
  /\ UNCHANGED attempts

(* The machine dies and is replaced; an open transaction rolls back.        *)
Crash(m) ==
  /\ txn[m].pc # "idle"
  /\ txn' = [txn EXCEPT ![m] = Idle]
  /\ UNCHANGED <<status, attempts>>

-----------------------------------------------------------------------------
Next ==
  \/ \E m \in Machines :
       \/ Begin(m) \/ Commit(m) \/ Empty(m) \/ Finish(m) \/ Crash(m)
       \/ \E j \in Jobs : PassOver(m, j) \/ Lock(m, j)
  \/ \E j \in Jobs : Insert(j) \/ Cancel(j) \/ Recover(j)

Spec == Init /\ [][Next]_vars

-----------------------------------------------------------------------------
(* Properties.                                                              *)

(* Two claims that saw the same queued row in their snapshots never both    *)
(* take it, and a row cancelled or leased since is not revived: a claim     *)
(* under any interleaving is a grant of JobLease.                           *)
LeaseState ==
  [j \in Jobs |-> CASE status[j] = "absent"     -> "none"
                    [] status[j] = "queued"     -> "waiting"
                    [] status[j] = "processing" -> "leased"
                    [] OTHER                    -> "settled"]
Lease == INSTANCE JobLease WITH state <- LeaseState, tries <- attempts
ImplementsJobLease == Lease!Spec

(* The cap of an organization can be overrun, because concurrent claims do  *)
(* not see each other, but by fewer jobs than there are machines.           *)
OverrunBounded ==
  \A o \in Orgs : InFlight(status, o) < MaxPerOrg + Cardinality(Machines)
=============================================================================
