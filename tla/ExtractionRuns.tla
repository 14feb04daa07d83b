--------------------------- MODULE ExtractionRuns ---------------------------
(***************************************************************************)
(* The generations of findings of one project.  A pipeline streams its     *)
(* rows under its own run id, which is its job's id; finalize_extraction   *)
(* makes the run the visible one and reaps what is neither visible nor its *)
(* predecessor; the recovery cron reaps what dead runs have left; a user   *)
(* ignores findings of the run that is visible.  The dependency rows the   *)
(* findings hang on are shared by all runs.  Claims, heartbeats and the    *)
(* requests that queue a job are in ExtractionWorker; here a job that      *)
(* recovery has failed may have a worker that goes on.                     *)
(***************************************************************************)
EXTENDS FiniteSets

CONSTANTS
  Runs,          \* extraction jobs of the project; also their run ids
  Deps,          \* (name, version, is_direct, source), each with one advisory
  None

ASSUME RunsAssumption == None \notin Runs

VARIABLES
  status,        \* status[j]: scan_jobs.status
  pc,            \* pc[j]: the step the pipeline of job j takes next
  seen,          \* seen[d]: last_seen_extraction_run_id; None: there is no row
  removed,       \* the dependencies with removed_at set
  finding,       \* finding[j][d]: the project_dependency_findings row
  active,        \* projects.active_extraction_run_id
  previous,      \* projects.previous_extraction_run_id
  triage,        \* the request that ignores a finding
  decided,       \* history: the advisories the user was told are ignored
  slipped        \* history: those of them whose decision the visible run may
                 \* lack, by one of the windows that DecisionKept names

runsVars == <<status, pc, seen, removed, finding, active, previous,
              triage, decided, slipped>>

jobState == <<status, pc>>
rows     == <<seen, removed, finding>>
pointers == <<active, previous>>
user     == <<triage, decided, slipped>>

Pending == {"queued", "processing"}
Ended    == {"completed", "failed", "cancelled"}
NoTriage == [run |-> None, dep |-> None]

RunsTypeOK ==
  /\ status \in [Runs -> {"absent"} \cup Pending \cup Ended]
  /\ pc \in [Runs -> {"off", "sync", "scan", "finalize", "report"}]
  /\ seen \in [Deps -> Runs \cup {None}]
  /\ removed \subseteq {d \in Deps : seen[d] # None}
  /\ finding \in [Runs -> [Deps -> {"none", "open", "ignored"}]]
  /\ \A j \in Runs, d \in Deps : seen[d] = None => finding[j][d] = "none"
  /\ active \in Runs \cup {None} /\ previous \in Runs \cup {None}
  /\ triage \in [run : Runs \cup {None}, dep : Deps \cup {None}]
  /\ slipped \subseteq decided /\ decided \subseteq Deps

RunsInit ==
  /\ status = [j \in Runs |-> "absent"]
  /\ pc = [j \in Runs |-> "off"]
  /\ seen = [d \in Deps |-> None] /\ removed = {}
  /\ finding = [j \in Runs |-> [d \in Deps |-> "none"]]
  /\ active = None /\ previous = None
  /\ triage = NoTriage /\ decided = {} /\ slipped = {}

-----------------------------------------------------------------------------
(* The job: the unique index admits one that is queued or processing, and   *)
(* max_attempts = 1 has it claimed at most once.                            *)
Queue(j) ==
  /\ status[j] = "absent"
  /\ \A k \in Runs : status[k] \notin Pending
  /\ status' = [status EXCEPT ![j] = "queued"]
  /\ UNCHANGED <<pc, rows, pointers, user>>

ClaimRun(j) ==
  /\ status[j] = "queued"
  /\ status' = [status EXCEPT ![j] = "processing"]
  /\ pc' = [pc EXCEPT ![j] = "sync"]
  /\ UNCHANGED <<rows, pointers, user>>

Cancel(j) ==
  /\ status[j] \in Pending
  /\ status' = [status EXCEPT ![j] = "cancelled"]
  /\ UNCHANGED <<pc, rows, pointers, user>>

(* Mutant: a second attempt, as a job with max_attempts above one has.      *)
FailRunRetry(j) ==
  /\ status[j] = "processing"
  /\ status' = [status EXCEPT ![j] = "queued"]
  /\ UNCHANGED <<pc, rows, pointers, user>>

(* fail_exhausted_scan_jobs: the worker is dead, or silent for five minutes. *)
FailRun(j) ==
  /\ status[j] = "processing"
  /\ status' = [status EXCEPT ![j] = "failed"]
  /\ UNCHANGED <<pc, rows, pointers, user>>

PipelineCrash(j) ==
  /\ pc[j] # "off"
  /\ pc' = [pc EXCEPT ![j] = "off"]
  /\ UNCHANGED <<status, rows, pointers, user>>

(* A stage throws, or a look at the row says 'cancelled': the worker writes *)
(* 'failed' under its claim, which every end of the job leaves in place;    *)
(* the write may fail.                                                      *)
Abort(j) ==
  /\ pc[j] \in {"sync", "scan", "finalize"}
  /\ pc' = [pc EXCEPT ![j] = "off"]
  /\ \E s \in {status[j], "failed"} : status' = [status EXCEPT ![j] = s]
  /\ UNCHANGED <<rows, pointers, user>>

-----------------------------------------------------------------------------
(* The pipeline.  A look at the row precedes every step, but it is not part *)
(* of it, and it lets any status other than 'cancelled' pass.               *)

Stamp(j, D) ==
  /\ seen' = [d \in Deps |-> IF d \in D THEN j ELSE seen[d]]
  /\ removed' = removed \ D

(* doDepsSync upserts what the repository depends on; a chunk that fails    *)
(* throws and leaves the chunks before it.                                  *)
DepsSync(j) ==
  /\ pc[j] = "sync"
  /\ \E D \in SUBSET Deps : Stamp(j, D)
  /\ pc' = [pc EXCEPT ![j] = "scan"]
  /\ UNCHANGED <<status, finding, pointers, user>>

(* The scanners insert findings on the rows stamped with this run.          *)
Scan(j) ==
  /\ pc[j] = "scan"
  /\ \E D \in SUBSET {d \in Deps : seen[d] = j} :
       finding' = [finding EXCEPT ![j] =
                     [d \in Deps |-> IF d \in D THEN "open" ELSE @[d]]]
  /\ pc' = [pc EXCEPT ![j] = "finalize"]
  /\ UNCHANGED <<status, seen, removed, pointers, user>>

(* finalize_extraction.  What the user has decided is carried by dependency *)
(* name and advisory, on the rows that are stamped with the new run.        *)
CarriedNothing(j, d) == finding[j][d]      \* mutant: no carry-forward

Carried(j, d) ==
  IF finding[j][d] # "none" /\ seen[d] = j
     /\ active # None /\ finding[active][d] # "none"
  THEN finding[active][d] ELSE finding[j][d]

(* reap_old_extractions, by the pointers of before and after the flip.      *)
KeptVisibleOnly(j) == {j}                  \* mutant: no way to roll back

Kept(j) == {j, active}

(* The decisions that the flip does not find: the displaced run has no such *)
(* finding, or the new one has it on a row another pipeline stamped since.  *)
Missed(j) ==
  {d \in decided :
     finding[active][d] = "none" \/ (finding[j][d] # "none" /\ seen[d] # j)}

(* One transaction; it asks neither for the job's status nor for its claim. *)
Finalize(j) ==
  /\ pc[j] = "finalize"
  /\ removed' = {d \in Deps : seen[d] \notin {None, j}}
  /\ active' = j
  /\ previous' = active
  /\ finding' = [k \in Runs |-> [d \in Deps |->
                   IF k \notin Kept(j) THEN "none"
                   ELSE IF k = j THEN Carried(j, d) ELSE finding[k][d]]]
  /\ slipped' = slipped \cup Missed(j)
  /\ pc' = [pc EXCEPT ![j] = "report"]
  /\ UNCHANGED <<status, seen, triage, decided>>

(* doFinalize marks a job that is processing; processExtractionJob asks for *)
(* a cancel and writes under the claim.  Each write may fail.               *)
Report(j) ==
  /\ pc[j] = "report"
  /\ pc' = [pc EXCEPT ![j] = "off"]
  /\ \E s \in {status[j], "completed"} \cup
               (IF status[j] = "cancelled" THEN {"failed"} ELSE {}) :
       status' = [status EXCEPT ![j] = s]
  /\ UNCHANGED <<rows, pointers, user>>

-----------------------------------------------------------------------------
(* reap_orphaned_extractions.  A job is more than 24 hours old when it is   *)
(* reaped, and no pipeline lives that long.  Deleting a dependency row      *)
(* deletes the findings that refer to it, whatever run they belong to.      *)
OrphansFailedOnly ==                       \* mutant: cancelled runs forgotten
  {j \in Runs : status[j] = "failed" /\ pc[j] = "off" /\ j \notin {active, previous}}

Orphans ==
  {j \in Runs : status[j] \in {"failed", "cancelled"} /\ pc[j] = "off"
                /\ j \notin {active, previous}}

(* Mutant: the findings of other runs stay behind the deleted rows.         *)
ReapOrphansNoCascade ==
  /\ \A j \in Runs : status[j] \notin Pending
  /\ LET Gone == {d \in Deps : seen[d] \in Orphans} IN
       /\ finding' = [k \in Runs |-> [d \in Deps |->
                        IF k \in Orphans THEN "none" ELSE finding[k][d]]]
       /\ seen' = [d \in Deps |-> IF d \in Gone THEN None ELSE seen[d]]
       /\ removed' = removed \ Gone
  /\ UNCHANGED <<jobState, pointers, user>>

ReapOrphans ==
  /\ \A j \in Runs : status[j] \notin Pending
  /\ LET Gone == {d \in Deps : seen[d] \in Orphans} IN
       /\ finding' = [k \in Runs |-> [d \in Deps |->
                        IF k \in Orphans \/ d \in Gone THEN "none" ELSE finding[k][d]]]
       /\ seen' = [d \in Deps |-> IF d \in Gone THEN None ELSE seen[d]]
       /\ removed' = removed \ Gone
  /\ UNCHANGED <<jobState, pointers, user>>

-----------------------------------------------------------------------------
(* PATCH .../findings/:type/:key/status: read the visible run, then update  *)
(* the finding of that run.                                                 *)
TriageRead(d) ==
  /\ triage = NoTriage /\ active # None
  /\ triage' = [run |-> active, dep |-> d]
  /\ UNCHANGED <<jobState, rows, pointers, decided, slipped>>

(* No such row is a 404.  Nothing asks whether the run is still the visible *)
(* one.                                                                     *)
TriageWrite ==
  /\ triage # NoTriage
  /\ triage' = NoTriage
  /\ IF finding[triage.run][triage.dep] = "none"
     THEN UNCHANGED <<finding, decided, slipped>>
     ELSE /\ finding' = [finding EXCEPT ![triage.run][triage.dep] = "ignored"]
          /\ decided' = decided \cup {triage.dep}
          /\ slipped' = IF triage.run = active THEN slipped \ {triage.dep}
                        ELSE slipped \cup {triage.dep}
  /\ UNCHANGED <<jobState, seen, removed, pointers>>

-----------------------------------------------------------------------------
PipelineStep(j) ==
  DepsSync(j) \/ Scan(j) \/ Finalize(j) \/ Report(j) \/ Abort(j) \/ PipelineCrash(j)

JobStep(j) == Queue(j) \/ ClaimRun(j) \/ Cancel(j) \/ FailRun(j) \/ PipelineStep(j)

RunsNext ==
  \/ \E j \in Runs : JobStep(j)
  \/ ReapOrphans
  \/ \E d \in Deps : TriageRead(d)
  \/ TriageWrite

RunsSpec == RunsInit /\ [][RunsNext]_runsVars

(* Machines are dispatched for queued jobs, pipelines end, the crons fire:  *)
(* a job that is not over is moved on by one of them.                       *)
MovedOn(j) == ClaimRun(j) \/ PipelineStep(j) \/ FailRun(j)

RunsFairness == WF_runsVars(ReapOrphans) /\ \A j \in Runs : WF_runsVars(MovedOn(j))

RunsFairSpec == RunsSpec /\ RunsFairness
-----------------------------------------------------------------------------
(* Properties.                                                              *)

(* There is a generation to roll back to: the pointers never name the same  *)
(* run, because no run is finalized twice, whatever dies or is cancelled.   *)
PointersDistinct == active # None => active # previous

(* reap_old_extractions and reap_orphaned_extractions delete nothing that   *)
(* is in use.  A finding of the visible run or of its predecessor goes only *)
(* with the dependency row it hangs on, one that a dead run stamped last.   *)
(* A pipeline still at work loses its findings to the flip of another only  *)
(* if one of the two jobs is already over: its own was given up, or one     *)
(* that was given up finalizes late.                                        *)
AtWork(g)  == pc[g] \notin {"off", "report"}
DeadRun(r) == r \in Runs /\ status[r] \in {"failed", "cancelled"} /\ pc[r] = "off"

Spared(g, d) ==
  \/ /\ g \notin {active', previous'}
     /\ AtWork(g) => active' # active /\ (status[g] \in Ended \/ status[active'] \in Ended)
  \/ DeadRun(seen[d]) /\ seen[d] \notin {active, previous}

FindingsKept ==
  [][\A g \in Runs, d \in Deps :
       finding[g][d] # "none" /\ finding'[g][d] = "none" => Spared(g, d)]_runsVars

(* A decision survives rescans, whatever dies, is cancelled or finalizes    *)
(* late: what the user was told is ignored is not open in the visible run,  *)
(* except through two windows, both contrary to IgnoreReasonDialog.tsx.     *)
(* The write named a run that was displaced after it was read; or a flip    *)
(* missed the decision (Missed): a run in between did not have the finding, *)
(* or another pipeline re-stamped the row before the flip.  A new decision  *)
(* on the visible run mends it.                                             *)
DecisionKept ==
  active # None => \A d \in decided \ slipped : finding[active][d] # "open"

(* Nothing leaks: the rows of a run that is over are reaped unless the run  *)
(* is the visible one or its predecessor.                                   *)
Clean(j) == \A d \in Deps : finding[j][d] = "none"
OrphansReaped ==
  \A j \in Runs : status[j] \in Ended /\ pc[j] = "off"
                   ~> j \in {active, previous} \/ Clean(j)

-----------------------------------------------------------------------------
(* A claim of the comments that the code does not keep.                     *)

(* phase19_5: the orphan reaper never touches rows of the visible run.      *)
VisibleRowsStay ==
  [][active # None /\ active' = active
       => \A d \in Deps : finding[active][d] # "none" => finding'[active][d] # "none"]_runsVars
=============================================================================
