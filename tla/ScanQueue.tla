----------------------------- MODULE ScanQueue ------------------------------
(***************************************************************************)
(* The scan_jobs table and the SQL functions that move its rows, shared by *)
(* the extraction and the DAST worker.  Time is abstract: stale says that  *)
(* heartbeat_at is more than five minutes old.                             *)
(***************************************************************************)
EXTENDS Integers, FiniteSets

CONSTANTS
  Jobs,          \* row ids: each is one call that asks for a scan
  Machines,      \* Fly machine ids (a machine may be booted again)
  SlotOf,        \* SlotOf[j]: the (project_id, type) of the unique index
  OrgOf,         \* OrgOf[j]: organization_id
  MaxAttempts,   \* max_attempts of every row
  MaxPerOrg,     \* FLY_MAX_PER_ORG
  Null

ASSUME QueueAssumption ==
  /\ MaxAttempts \in Nat \ {0}
  /\ MaxPerOrg \in Nat \ {0}
  /\ Null \notin Jobs \cup Machines

VARIABLES
  row,           \* row[j]: the scan_jobs row
  wk             \* wk[m]: the worker process on machine m

Active   == {"queued", "processing"}
Terminal == {"completed", "failed", "cancelled"}
Status   == {"absent", "deleted"} \cup Active \cup Terminal

RowType == [status   : Status,
            machine  : Machines \cup {Null},
            run      : Nat,      \* run_id: a fresh uuid is the next number
            attempts : Nat,
            stale    : BOOLEAN]

WorkerType(pcs) == [pc    : pcs \cup {"off", "idle"},
                    job   : Jobs \cup {Null},
                    run   : Nat,
                    known : BOOLEAN]   \* last answer of isJobCancelled

NoRow == [status |-> "absent", machine |-> Null, run |-> 0, attempts |-> 0,
          stale |-> FALSE]

Resting(p) == [pc |-> p, job |-> Null, run |-> 0, known |-> FALSE]

Busy(m) == wk[m].job # Null

QueueInit ==
  /\ row = [j \in Jobs |-> NoRow]
  /\ wk  = [m \in Machines |-> Resting("off")]

-----------------------------------------------------------------------------
(* idx_scan_jobs_one_active_per_project_type: a unique partial index.       *)
SlotFree(j) ==
  \A k \in Jobs : SlotOf[k] = SlotOf[j] => row[k].status \notin Active

InsertRow(j) == row' = [row EXCEPT ![j] = [NoRow EXCEPT !.status = "queued"]]

(* An update by id alone touches whatever row is there.                     *)
SetStatus(j, s) ==
  row' = [row EXCEPT ![j].status = IF @ = "deleted" THEN @ ELSE s]

(* updateJobStatus with machine_id and run_id: no guard on status.          *)
OwnedBy(j, m, r) == row[j].machine = m /\ row[j].run = r

SetStatusOwned(j, m, r, s) ==
  row' = [row EXCEPT ![j].status = IF OwnedBy(j, m, r) THEN s ELSE @]

Goto(m, p) == wk' = [wk EXCEPT ![m].pc = p]
Release(m) == wk' = [wk EXCEPT ![m] = Resting("idle")]
PowerOff(m) == wk' = [wk EXCEPT ![m] = Resting("off")]

-----------------------------------------------------------------------------
(* claim_scan_job: the least loaded organization below its cap goes first.  *)
(* created_at breaks ties in the code; any order here.  One statement is    *)
(* one step here; ClaimCap takes the snapshot and the row lock apart, and   *)
(* shows by how much concurrent claims can overrun the cap.                 *)
InFlight(o) ==
  Cardinality({k \in Jobs : row[k].status = "processing" /\ OrgOf[k] = o})

Claimable(j) == row[j].status = "queued" /\ InFlight(OrgOf[j]) < MaxPerOrg

ClaimRow(j, m) ==
  row' = [row EXCEPT ![j] = [status |-> "processing", machine |-> m, run |-> @.run,
                             attempts |-> @.attempts + 1, stale |-> FALSE]]

Claim(m, first) ==
  /\ wk[m].pc = "idle"
  /\ \E j \in Jobs :
       /\ Claimable(j)
       /\ \A k \in Jobs : Claimable(k) => InFlight(OrgOf[j]) <= InFlight(OrgOf[k])
       /\ ClaimRow(j, m)
       /\ wk' = [wk EXCEPT ![m] = [pc |-> first, job |-> j, run |-> row[j].run,
                                   known |-> FALSE]]

(* A machine is started for queued work and exits after an empty claim.     *)
Boot(m) ==
  /\ wk[m].pc = "off"
  /\ \E j \in Jobs : row[j].status = "queued"
  /\ wk' = [wk EXCEPT ![m] = Resting("idle")]
  /\ UNCHANGED row

IdleExit(m) ==
  /\ wk[m].pc = "idle"
  /\ \A j \in Jobs : ~Claimable(j)
  /\ PowerOff(m)
  /\ UNCHANGED row

-----------------------------------------------------------------------------
(* Heartbeats.  A row ages when its worker is dead, frozen, or cannot reach *)
(* the database; the guarded ping only refreshes the claim it belongs to.   *)
HeartbeatAges(j) ==
  /\ row[j].status = "processing"
  /\ row' = [row EXCEPT ![j].stale = TRUE]
  /\ UNCHANGED wk

Heartbeat(m) ==
  /\ Busy(m)
  /\ OwnedBy(wk[m].job, m, wk[m].run)
  /\ row' = [row EXCEPT ![wk[m].job].stale = FALSE]
  /\ UNCHANGED wk

-----------------------------------------------------------------------------
(* recover_stuck_scan_jobs and fail_exhausted_scan_jobs, one UPDATE each.   *)
(* Mutant: the status is not looked at, so settled rows are requeued.       *)
StuckAnyStatus(j) == row[j].stale

Stuck(j) == row[j].status = "processing" /\ row[j].stale

(* Mutants: off by one at max_attempts, in either statement.                *)
RecoverableOneMore == {j \in Jobs : Stuck(j) /\ row[j].attempts <= MaxAttempts}
ExhaustedTooLate   == {j \in Jobs : Stuck(j) /\ row[j].attempts > MaxAttempts}

Recoverable == {j \in Jobs : Stuck(j) /\ row[j].attempts < MaxAttempts}
Exhausted   == {j \in Jobs : Stuck(j) /\ row[j].attempts >= MaxAttempts}

(* Mutants: run_id is not rotated; attempts start again at zero.            *)
RequeuedSameRun(r)  == [NoRow EXCEPT !.status = "queued", !.run = r.run,
                                     !.attempts = r.attempts]
RequeuedAfresh(r)   == [NoRow EXCEPT !.status = "queued", !.run = r.run + 1]

Requeued(r) == [status |-> "queued", machine |-> Null, run |-> r.run + 1,
                attempts |-> r.attempts, stale |-> FALSE]

RecoverStuck ==
  row' = [j \in Jobs |-> IF j \in Recoverable THEN Requeued(row[j]) ELSE row[j]]

FailExhausted ==
  row' = [j \in Jobs |-> IF j \in Exhausted
                           THEN [row[j] EXCEPT !.status = "failed"] ELSE row[j]]

-----------------------------------------------------------------------------
(* Properties of the table that every worker must keep.                     *)

(* Two requests that raced past the pre-check never leave a project with    *)
(* two queued or running scans of one type: the partial unique index, and   *)
(* no step that makes a settled row active again.                           *)
OneActivePerSlot ==
  \A j, k \in Jobs :
    /\ row[j].status \in Active /\ row[k].status \in Active
    /\ SlotOf[j] = SlotOf[k]
    => j = k

(* Two workers that run the same job hold different run_ids, so at most one *)
(* of them passes the ownership guard of updateJobStatus and sendHeartbeat: *)
(* recovery rotates run_id whenever it hands a job back.                    *)
RunsDistinct ==
  \A m, n \in Machines :
    m # n /\ Busy(m) /\ wk[m].job = wk[n].job => wk[m].run # wk[n].run

(* Two workers run a job at once only in a second or later attempt, so that *)
(* with max_attempts = 1, what queueExtractionJob inserts, a job has one    *)
(* worker ever: crashes and recovery never hand out an uncounted attempt.   *)
SoleWorker ==
  \A m, n \in Machines :
    m # n /\ Busy(m) /\ wk[m].job = wk[n].job => row[wk[m].job].attempts > 1

(* The table with its workers, cancels, deletions and recovery keeps the    *)
(* promise of JobLease: bounded leases, one open job per slot, and a job    *)
(* that has settled is never run again.  A deleted row counts as settled.   *)
LeaseState ==
  [j \in Jobs |-> CASE row[j].status = "absent"     -> "none"
                    [] row[j].status = "queued"     -> "waiting"
                    [] row[j].status = "processing" -> "leased"
                    [] OTHER                        -> "settled"]
LeaseTries == [j \in Jobs |-> row[j].attempts]

Lease == INSTANCE JobLease WITH state <- LeaseState, tries <- LeaseTries
ImplementsJobLease == Lease!Spec
=============================================================================
