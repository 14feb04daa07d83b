----------------------------- MODULE DastWorker -----------------------------
(***************************************************************************)
(* The life of a DAST job: queue_scan_job, the route that starts a machine *)
(* for it, the pipeline that scans the target, inserts the findings in     *)
(* batches and commits the run on the target, the user who cancels, and    *)
(* the recovery cron.  Unlike an extraction, a DAST job is retried, and    *)
(* the pipeline writes the row itself, by id alone.                        *)
(***************************************************************************)
EXTENDS ScanQueue

CONSTANTS
  ProjectOf,     \* ProjectOf[j]; SlotOf[j] is the project with the engine type
  TargetOf,      \* TargetOf[j]: target_id
  DryRuns,       \* the jobs of type dast_zap_dry_run (Test-login)
  DastPerOrg,    \* the 5 of queue_scan_job
  Batches        \* how many chunks of findings a scan inserts

ASSUME DastAssumption ==
  /\ DryRuns \subseteq Jobs
  /\ DastPerOrg \in Nat \ {0}
  /\ Batches \in Nat \ {0}

VARIABLES
  call,          \* call[j]: where the request that queues j stands
  findings,      \* the batches in project_dast_findings: <<run, number>>
  active,        \* active[t]: active_dast_run_id of target t
  previous,      \* previous[t]: previous_dast_run_id
  doomed         \* the machines the recovery cron is about to stop

vars == <<row, wk, call, findings, active, previous, doomed>>

Targets == {TargetOf[j] : j \in Jobs}

(* dastRunId is a fresh uuid per execution; an execution is a claimed run_id *)
RunId == Jobs \X Nat
RunOf(m) == <<wk[m].job, wk[m].run>>
BatchesOf(r) == {f[2] : f \in {g \in findings : g[1] = r}}

WorkerPcs == {"setup", "scan", "abort", "insert", "commit", "finalize", "fail"}

TypeOK ==
  /\ row \in [Jobs -> RowType]
  /\ wk \in [Machines -> WorkerType(WorkerPcs)]
  /\ call \in [Jobs -> {"none", "checked", "queued", "closed"}]
  /\ findings \subseteq RunId \X (1..Batches)
  /\ active \in [Targets -> RunId \cup {Null}]
  /\ previous \in [Targets -> RunId \cup {Null}]
  /\ doomed \subseteq Machines

Init ==
  /\ QueueInit
  /\ call = [j \in Jobs |-> "none"]
  /\ findings = {} /\ doomed = {}
  /\ active = [t \in Targets |-> Null]
  /\ previous = [t \in Targets |-> Null]

store  == <<findings, active, previous>>
others == <<call, store, doomed>>

-----------------------------------------------------------------------------
(* queue_scan_job counts the live scans of the project and of the org, then *)
(* inserts: two statements of one READ COMMITTED transaction.               *)
ProjectBusy(p) == \E k \in Jobs : ProjectOf[k] = p /\ row[k].status \in Active
OrgLoad(o) == Cardinality({k \in Jobs : OrgOf[k] = o /\ row[k].status \in Active})

QueueCount(j) ==
  /\ call[j] = "none"
  /\ call' = [call EXCEPT ![j] =
                IF ~ProjectBusy(ProjectOf[j]) /\ OrgLoad(OrgOf[j]) < DastPerOrg
                THEN "checked" ELSE "closed"]
  /\ UNCHANGED <<row, wk, store, doomed>>

QueueInsert(j) ==
  /\ call[j] = "checked"
  /\ IF SlotFree(j)
     THEN InsertRow(j) /\ call' = [call EXCEPT ![j] = "queued"]
     ELSE UNCHANGED row /\ call' = [call EXCEPT ![j] = "closed"]
  /\ UNCHANGED <<wk, store, doomed>>

(* startDastMachine: the machine itself is BootMachine.  When the call      *)
(* fails, the test route deletes the row by id, the scan route leaves it.   *)
StartCall(j) ==
  /\ call[j] = "queued"
  /\ call' = [call EXCEPT ![j] = "closed"]
  /\ \/ UNCHANGED row
     \/ j \in DryRuns /\ row' = [row EXCEPT ![j].status = "deleted"]
  /\ UNCHANGED <<wk, store, doomed>>

(* POST .../cancel: cancel_scan_job is one guarded update.                  *)
CancelScan(j) ==
  /\ row[j].status \in Active
  /\ SetStatus(j, "cancelled")
  /\ UNCHANGED <<wk, others>>

-----------------------------------------------------------------------------
BootMachine(m)   == Boot(m) /\ UNCHANGED others
ExitIdle(m)      == IdleExit(m) /\ UNCHANGED others
ClaimJob(m)      == Claim(m, "setup") /\ UNCHANGED others
SendHeartbeat(m) == Heartbeat(m) /\ UNCHANGED others
Age(j)           == HeartbeatAges(j) /\ UNCHANGED others
Crash(m)         == Busy(m) /\ PowerOff(m) /\ UNCHANGED <<row, others>>

(* The soft-stall handler writes under its claim while the main flow may go *)
(* on; the exit that follows is Crash.                                      *)
SoftStall(m) ==
  /\ Busy(m)
  /\ SetStatusOwned(wk[m].job, m, wk[m].run, "failed")
  /\ UNCHANGED <<wk, others>>

-----------------------------------------------------------------------------
(* runDastPipeline.  An abort is written with recordJobError, by id; if     *)
(* that update fails it is only logged.  Then the worker's catch runs.      *)
At(m, p) == wk[m].pc = p
Move(m, p) == Goto(m, p) /\ UNCHANGED others

SetupDone(m)   == At(m, "setup") /\ Move(m, "scan")  /\ UNCHANGED row
SetupAborts(m) == At(m, "setup") /\ Move(m, "abort") /\ UNCHANGED row
SetupThrows(m) == At(m, "setup") /\ Move(m, "fail")  /\ UNCHANGED row

(* pollOnce: a heartbeat by id, then the cancellation.                      *)
PollHeartbeat(m) ==
  /\ At(m, "scan")
  /\ row' = [row EXCEPT ![wk[m].job].stale = FALSE]
  /\ UNCHANGED <<wk, others>>

(* Mutant: every aborted scan goes on to its finalize, as a dry run does.   *)
ScanAbortsFinalize(m) == At(m, "scan") /\ Move(m, "finalize") /\ UNCHANGED row

(* The engine stops: cancelled, timed out or crashed.  A dry run reports    *)
(* this as its result and completes.                                        *)
ScanAborts(m) ==
  /\ At(m, "scan")
  /\ Move(m, IF wk[m].job \in DryRuns THEN "finalize" ELSE "abort")
  /\ UNCHANGED row

ScanCancelled(m) ==
  /\ At(m, "scan") /\ row[wk[m].job].status = "cancelled"
  /\ ScanAborts(m)

ScanFails(m) == ScanAborts(m)

ScanDone(m) ==
  /\ At(m, "scan")
  /\ Move(m, IF wk[m].job \in DryRuns THEN "finalize" ELSE "insert")
  /\ UNCHANGED row

RecordAbort(m) ==
  /\ At(m, "abort")
  /\ SetStatus(wk[m].job, "failed") \/ UNCHANGED row
  /\ Move(m, "fail")

(* Mutants: one chunk too many; an insert that failed is only logged.       *)
InsertBatchOneMore(m) ==
  /\ At(m, "insert")
  /\ LET n == Cardinality(BatchesOf(RunOf(m))) + 1 IN
       /\ findings' = findings \cup {<<RunOf(m), n>>}
       /\ Goto(m, IF n > Batches THEN "commit" ELSE "insert")
  /\ UNCHANGED <<row, call, active, previous, doomed>>

StoreErrorLogged(m) ==
  /\ wk[m].pc \in {"insert", "commit"}
  /\ Move(m, IF wk[m].pc = "insert" THEN "commit" ELSE "finalize")
  /\ UNCHANGED row

(* insertFindings: one insert per chunk, an error throws between two.       *)
InsertBatch(m) ==
  /\ At(m, "insert")
  /\ LET n == Cardinality(BatchesOf(RunOf(m))) + 1 IN
       /\ findings' = findings \cup {<<RunOf(m), n>>}
       /\ Goto(m, IF n = Batches THEN "commit" ELSE "insert")
  /\ UNCHANGED <<row, call, active, previous, doomed>>

StoreThrows(m) ==
  /\ wk[m].pc \in {"insert", "commit"}
  /\ Move(m, "fail")
  /\ UNCHANGED row

(* commit_dast_target_run.                                                  *)
Commit(m) ==
  /\ At(m, "commit")
  /\ LET t == TargetOf[wk[m].job] IN
       /\ previous' = [previous EXCEPT ![t] = active[t]]
       /\ active' = [active EXCEPT ![t] = RunOf(m)]
  /\ Goto(m, "finalize")
  /\ UNCHANGED <<row, call, findings, doomed>>

(* finalizeJob and finalizeDryRunJob, by id; a failed update throws.  When  *)
(* the login was lost during a scan, recordJobError instead.                *)
Finalize(m) ==
  /\ At(m, "finalize")
  /\ SetStatus(wk[m].job, "completed")
  /\ Release(m)
  /\ UNCHANGED others

FinalizeAuthLost(m) ==
  /\ At(m, "finalize") /\ wk[m].job \notin DryRuns
  /\ SetStatus(wk[m].job, "failed") \/ UNCHANGED row
  /\ Release(m)
  /\ UNCHANGED others

FinalizeThrows(m) == At(m, "finalize") /\ Move(m, "fail") /\ UNCHANGED row

(* The catch block of processJob.                                           *)
WriteFailed(m) ==
  /\ At(m, "fail")
  /\ SetStatusOwned(wk[m].job, m, wk[m].run, "failed") \/ UNCHANGED row
  /\ Release(m)
  /\ UNCHANGED others

-----------------------------------------------------------------------------
(* The recovery cron: requeue, fail, then stop the machines of the failed.  *)
CronRecover ==
  /\ RecoverStuck
  /\ UNCHANGED <<wk, others>>

CronFail ==
  /\ doomed = {} /\ Exhausted # {}
  /\ FailExhausted
  /\ doomed' = {row[j].machine : j \in Exhausted}
  /\ UNCHANGED <<wk, call, store>>

(* A stop that fails, or is never reached because the backend died, leaves  *)
(* the machine on.                                                          *)
CronStop(m) ==
  /\ m \in doomed
  /\ doomed' = doomed \ {m}
  /\ PowerOff(m) \/ UNCHANGED wk
  /\ UNCHANGED <<row, call, store>>

-----------------------------------------------------------------------------
WorkerStep(m) ==
  \/ SetupDone(m) \/ SetupAborts(m) \/ SetupThrows(m) \/ ScanCancelled(m)
  \/ ScanFails(m) \/ ScanDone(m) \/ RecordAbort(m) \/ InsertBatch(m)
  \/ StoreThrows(m) \/ Commit(m) \/ Finalize(m) \/ FinalizeAuthLost(m)
  \/ FinalizeThrows(m) \/ WriteFailed(m)

MachineStep(m) ==
  \/ BootMachine(m) \/ ExitIdle(m) \/ ClaimJob(m) \/ SendHeartbeat(m) \/ Crash(m)
  \/ PollHeartbeat(m) \/ SoftStall(m) \/ WorkerStep(m) \/ CronStop(m)

JobStep(j) ==
  QueueCount(j) \/ QueueInsert(j) \/ StartCall(j) \/ CancelScan(j) \/ Age(j)

Next ==
  \/ \E j \in Jobs : JobStep(j)
  \/ \E m \in Machines : MachineStep(m)
  \/ CronRecover \/ CronFail

Spec == Init /\ [][Next]_vars

(* The drain cron boots machines for queued scans, a running worker goes on *)
(* (an engine has a timeout), and the recovery cron fires.                  *)
Fairness ==
  /\ \A m \in Machines : /\ WF_vars(BootMachine(m))
                         /\ WF_vars(ClaimJob(m))
                         /\ WF_vars(WorkerStep(m))
                         /\ WF_vars(CronStop(m))
  /\ \A j \in Jobs : WF_vars(Age(j))
  /\ WF_vars(CronRecover) /\ WF_vars(CronFail)

FairSpec == Spec /\ Fairness
-----------------------------------------------------------------------------
(* Properties; those of ScanQueue hold here too.                            *)

(* Whatever a reader finds under active_dast_run_id, or can roll back to,   *)
(* is a whole run: the commit follows the last batch, and two attempts of   *)
(* one job never write under the same run id.                               *)
ActiveRunIsWhole ==
  \A t \in Targets :
    \A r \in {active[t], previous[t]} \ {Null} : BatchesOf(r) = 1..Batches

(* A scan that reads 'completed' has findings of a whole run of its own:    *)
(* the row may be completed by an attempt that recovery had given up, and   *)
(* while another attempt of the job is half way through its batches.        *)
CompletedMeansInserted ==
  \A j \in Jobs \ DryRuns :
    row[j].status = "completed" =>
      \E r \in 0..row[j].run : BatchesOf(<<j, r>>) = 1..Batches

(* Every queued or running scan ends: a live attempt that keeps the row of  *)
(* a dead one fresh ends too, and then the cron sees the row.               *)
EveryScanSettles ==
  \A j \in Jobs :
    row[j].status \in Active ~> row[j].status \in Terminal \cup {"deleted"}
=============================================================================
