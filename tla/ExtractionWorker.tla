-------------------------- MODULE ExtractionWorker --------------------------
(***************************************************************************)
(* The life of an extraction job: the request that queues it, the worker   *)
(* that runs the pipeline, its stall watchdog, the user who cancels, and   *)
(* the recovery cron.  The steps of these processes interleave on the      *)
(* scan_jobs row and on the project's project_repositories.status.         *)
(***************************************************************************)
EXTENDS ScanQueue

VARIABLES
  call,       \* call[j]: where queueExtractionJob stands for row j
  repo,       \* repo[p]: project_repositories.status of project p
  committed,  \* the jobs whose finalize_extraction RPC has succeeded
  stall,      \* stall[m]: the soft-stall handler running on machine m
  stalled,    \* the jobs a soft-stall handler has written 'failed' on
  canc,       \* canc[p]: the cancelExtractionJob request of project p
  cron        \* the recovery cron's request

vars == <<row, wk, call, repo, committed, stall, stalled, canc, cron>>

Projects == {SlotOf[j] : j \in Jobs}

WorkerPcs == {"start", "clone", "stages", "finalize", "mark", "repo", "post",
              "done", "fail"}
RepoStatus == {"initializing", "extracting", "settled", "error", "cancelled"}

NoStall  == [job |-> Null, run |-> 0, wrote |-> FALSE]
NoCancel == [pc |-> "none", job |-> Null, machine |-> Null]

TypeOK ==
  /\ row \in [Jobs -> RowType]
  /\ wk \in [Machines -> WorkerType(WorkerPcs)]
  /\ call \in [Jobs -> {"none", "checked", "closed"}]
  /\ repo \in [Projects -> RepoStatus]
  /\ committed \subseteq Jobs
  /\ stall \in [Machines -> [job : Jobs \cup {Null}, run : Nat, wrote : BOOLEAN]]
  /\ stalled \subseteq Jobs
  /\ canc \in [Projects -> [pc : {"none", "write", "repo", "stop"},
                            job : Jobs \cup {Null},
                            machine : Machines \cup {Null}]]
  /\ cron \in [pc : {"idle", "fail", "notify"}, todo : SUBSET Jobs]

Init ==
  /\ QueueInit
  /\ call = [j \in Jobs |-> "none"]
  /\ repo = [p \in Projects |-> "initializing"]
  /\ committed = {} /\ stalled = {}
  /\ stall = [m \in Machines |-> NoStall]
  /\ canc = [p \in Projects |-> NoCancel]
  /\ cron = [pc |-> "idle", todo |-> {}]

others == <<call, repo, committed, stall, stalled, canc, cron>>

-----------------------------------------------------------------------------
(* queueExtractionJob: look for an active job of the project, then insert;  *)
(* a second request that looked at the same time meets the unique index.    *)
QueueCheck(j) ==
  /\ call[j] = "none"
  /\ call' = [call EXCEPT ![j] = IF SlotFree(j) THEN "checked" ELSE "closed"]
  /\ UNCHANGED <<row, wk, repo, committed, stall, stalled, canc, cron>>

(* Mutant: no unique index behind the pre-check.                            *)
QueueInsertNoIndex(j) ==
  /\ call[j] = "checked"
  /\ InsertRow(j)
  /\ call' = [call EXCEPT ![j] = "closed"]
  /\ UNCHANGED <<wk, repo, committed, stall, stalled, canc, cron>>

QueueInsert(j) ==
  /\ call[j] = "checked"
  /\ IF SlotFree(j) THEN InsertRow(j) ELSE UNCHANGED row
  /\ call' = [call EXCEPT ![j] = "closed"]
  /\ UNCHANGED <<wk, repo, committed, stall, stalled, canc, cron>>

-----------------------------------------------------------------------------
(* The machine and the claim loop.                                          *)
BootMachine(m) == Boot(m) /\ UNCHANGED others
ExitIdle(m)    == stall[m] = NoStall /\ IdleExit(m) /\ UNCHANGED others
ClaimJob(m)    == Claim(m, "start") /\ UNCHANGED others
SendHeartbeat(m) == Heartbeat(m) /\ UNCHANGED others
Age(j)         == HeartbeatAges(j) /\ UNCHANGED others

(* SIGKILL by the watchdog, out of memory, preemption, a lost host.         *)
Crash(m) ==
  /\ Busy(m)
  /\ PowerOff(m)
  /\ stall' = [stall EXCEPT ![m] = NoStall]
  /\ UNCHANGED <<row, call, repo, committed, stalled, canc, cron>>

-----------------------------------------------------------------------------
(* The pipeline.  checkCancelled reads the row between any two stages; a    *)
(* failed query answers with the last known value.                          *)
Answers(m) == {row[wk[m].job].status = "cancelled", wk[m].known}

CheckCancelled(m, next) ==
  /\ \E c \in Answers(m) :
       wk' = [wk EXCEPT ![m].known = c, ![m].pc = IF c THEN "post" ELSE next]
  /\ UNCHANGED <<row, others>>

Start(m)  == wk[m].pc = "start"  /\ CheckCancelled(m, "clone")
Stages(m) == wk[m].pc = "stages" /\ CheckCancelled(m, "finalize")

SetRepo(p, s) == repo' = [repo EXCEPT ![p] = s]

(* updateStep('cloning', 'extracting'), then the clone itself.              *)
Clone(m) ==
  /\ wk[m].pc = "clone"
  /\ SetRepo(SlotOf[wk[m].job], "extracting")
  /\ Goto(m, "stages")
  /\ UNCHANGED <<row, call, committed, stall, stalled, canc, cron>>

(* A critical stage throws: setError, and the worker's catch block.         *)
StageThrows(m) ==
  /\ wk[m].pc \in {"clone", "stages", "finalize"}
  /\ SetRepo(SlotOf[wk[m].job], "error")
  /\ Goto(m, "fail")
  /\ UNCHANGED <<row, call, committed, stall, stalled, canc, cron>>

(* doFinalize: the RPC commits the run, then the job is marked completed    *)
(* only if it is still processing (and only when no dependency is left to   *)
(* populate), and the repository status is written last.                    *)
FinalizeRpc(m) ==
  /\ wk[m].pc = "finalize"
  /\ committed' = committed \cup {wk[m].job}
  /\ Goto(m, "mark")
  /\ UNCHANGED <<row, call, repo, stall, stalled, canc, cron>>

Mark(m) ==
  /\ wk[m].pc = "mark"
  /\ LET j == wk[m].job IN
       \/ row' = [row EXCEPT ![j].status = IF @ = "processing" THEN "completed" ELSE @]
       \/ UNCHANGED row
  /\ Goto(m, "repo")
  /\ UNCHANGED others

RepoWrite(m) ==
  /\ wk[m].pc = "repo"
  /\ SetRepo(SlotOf[wk[m].job], "settled")   \* 'ready' or 'analyzing'
  /\ Goto(m, "post")
  /\ UNCHANGED <<row, call, committed, stall, stalled, canc, cron>>

(* Mutant: the second look at the row is left out.                          *)
PostNoLook(m) == wk[m].pc = "post" /\ Goto(m, "done") /\ UNCHANGED <<row, others>>

(* processExtractionJob after the pipeline: ask again, then write.          *)
Post(m) ==
  /\ wk[m].pc = "post"
  /\ \E c \in Answers(m) :
       wk' = [wk EXCEPT ![m].known = c, ![m].pc = IF c THEN "fail" ELSE "done"]
  /\ UNCHANGED <<row, others>>

(* updateJobStatus; both tries may fail, and then the row is left alone.    *)
WriteTerminal(m, pc, s) ==
  /\ wk[m].pc = pc
  /\ \/ SetStatusOwned(wk[m].job, m, wk[m].run, s)
     \/ UNCHANGED row
  /\ Release(m)
  /\ UNCHANGED others

WriteCompleted(m) == WriteTerminal(m, "done", "completed")
WriteFailed(m)    == WriteTerminal(m, "fail", "failed")

-----------------------------------------------------------------------------
(* The watchdog's soft stall: the handler writes 'failed' under the claim   *)
(* it was armed for and exits within ten seconds, while the main flow may   *)
(* go on.                                                                   *)
SoftStall(m) ==
  /\ Busy(m)
  /\ stall[m] = NoStall
  /\ stall' = [stall EXCEPT ![m] = [job |-> wk[m].job, run |-> wk[m].run,
                                    wrote |-> FALSE]]
  /\ UNCHANGED <<row, wk, call, repo, committed, stalled, canc, cron>>

StallWrite(m) ==
  /\ stall[m].job # Null /\ ~stall[m].wrote
  /\ SetStatusOwned(stall[m].job, m, stall[m].run, "failed")
  /\ stall' = [stall EXCEPT ![m].wrote = TRUE]
  /\ stalled' = stalled \cup {stall[m].job}
  /\ UNCHANGED <<wk, call, repo, committed, canc, cron>>

StallExit(m) ==
  /\ stall[m].job # Null
  /\ PowerOff(m)
  /\ stall' = [stall EXCEPT ![m] = NoStall]
  /\ UNCHANGED <<row, call, repo, committed, stalled, canc, cron>>

-----------------------------------------------------------------------------
(* cancelExtractionJob: select the active job and its machine, update the   *)
(* row by id, then the repository, then stop the machine that was read.     *)
CancelChoose(p) ==
  /\ canc[p].pc = "none"
  /\ \E j \in Jobs :
       /\ SlotOf[j] = p /\ row[j].status \in Active
       /\ canc' = [canc EXCEPT ![p] = [pc |-> "write", job |-> j,
                                       machine |-> row[j].machine]]
  /\ UNCHANGED <<row, wk, call, repo, committed, stall, stalled, cron>>

(* Mutant: a spelling the status check of the table does not admit.         *)
CancelWriteMisspelt(p) ==
  /\ canc[p].pc = "write"
  /\ SetStatus(canc[p].job, "canceled")
  /\ canc' = [canc EXCEPT ![p].pc = "repo"]
  /\ UNCHANGED <<wk, call, repo, committed, stall, stalled, cron>>

CancelWrite(p) ==
  /\ canc[p].pc = "write"
  /\ SetStatus(canc[p].job, "cancelled")
  /\ canc' = [canc EXCEPT ![p].pc = "repo"]
  /\ UNCHANGED <<wk, call, repo, committed, stall, stalled, cron>>

CancelRepo(p) ==
  /\ canc[p].pc = "repo"
  /\ SetRepo(p, "cancelled")
  /\ canc' = IF canc[p].machine = Null THEN [canc EXCEPT ![p] = NoCancel]
                                       ELSE [canc EXCEPT ![p].pc = "stop"]
  /\ UNCHANGED <<row, wk, call, committed, stall, stalled, cron>>

(* Fly stops the machine, or the call fails and is only logged.             *)
StopMachine(m) == PowerOff(m) /\ stall' = [stall EXCEPT ![m] = NoStall]

CancelStop(p) ==
  /\ canc[p].pc = "stop"
  /\ StopMachine(canc[p].machine) \/ UNCHANGED <<wk, stall>>
  /\ canc' = [canc EXCEPT ![p] = NoCancel]
  /\ UNCHANGED <<row, call, repo, committed, stalled, cron>>

(* The backend dies between two of these steps.                             *)
CancelLost(p) ==
  /\ canc[p].pc # "none"
  /\ canc' = [canc EXCEPT ![p] = NoCancel]
  /\ UNCHANGED <<row, wk, call, repo, committed, stall, stalled, cron>>

-----------------------------------------------------------------------------
(* POST /recovery/extraction-jobs: requeue, fail, then one notification per *)
(* failed row from the rows the statement returned.                         *)
CronRecover ==
  /\ cron.pc = "idle"
  /\ RecoverStuck
  /\ cron' = [cron EXCEPT !.pc = "fail"]
  /\ UNCHANGED <<wk, call, repo, committed, stall, stalled, canc>>

(* An RPC that errors is logged and the request goes on.                    *)
CronSkip ==
  /\ cron.pc \in {"idle", "fail"}
  /\ cron' = [cron EXCEPT !.pc = IF @ = "idle" THEN "fail" ELSE "idle"]
  /\ UNCHANGED <<row, wk, call, repo, committed, stall, stalled, canc>>

CronFail ==
  /\ cron.pc = "fail"
  /\ FailExhausted
  /\ cron' = IF Exhausted = {} THEN [pc |-> "idle", todo |-> {}]
                               ELSE [pc |-> "notify", todo |-> Exhausted]
  /\ UNCHANGED <<wk, call, repo, committed, stall, stalled, canc>>

CronNotify(j) ==
  /\ j \in cron.todo
  /\ SetRepo(SlotOf[j], "error")
  /\ \/ row[j].machine # Null /\ StopMachine(row[j].machine)
     \/ UNCHANGED <<wk, stall>>
  /\ cron' = IF cron.todo = {j} THEN [pc |-> "idle", todo |-> {}]
                                ELSE [cron EXCEPT !.todo = @ \ {j}]
  /\ UNCHANGED <<row, call, committed, stalled, canc>>

(* The backend dies in the request: nobody else holds the returned rows.    *)
CronLost ==
  /\ cron.pc # "idle"
  /\ cron' = [pc |-> "idle", todo |-> {}]
  /\ UNCHANGED <<row, wk, call, repo, committed, stall, stalled, canc>>

-----------------------------------------------------------------------------
WorkerStep(m) ==
  \/ Start(m) \/ Clone(m) \/ Stages(m) \/ StageThrows(m) \/ FinalizeRpc(m)
  \/ Mark(m) \/ RepoWrite(m) \/ Post(m) \/ WriteCompleted(m) \/ WriteFailed(m)

Watchdog(m) == SoftStall(m) \/ StallWrite(m) \/ StallExit(m)

MachineStep(m) ==
  \/ BootMachine(m) \/ ExitIdle(m) \/ ClaimJob(m) \/ SendHeartbeat(m) \/ Crash(m)
  \/ WorkerStep(m) \/ Watchdog(m)

CancelStep(p) ==
  \/ CancelChoose(p) \/ CancelWrite(p) \/ CancelRepo(p) \/ CancelStop(p)
  \/ CancelLost(p)

CronStep ==
  \/ CronRecover \/ CronSkip \/ CronFail \/ CronLost
  \/ \E j \in Jobs : CronNotify(j)

Next ==
  \/ \E j \in Jobs : QueueCheck(j) \/ QueueInsert(j) \/ Age(j)
  \/ \E m \in Machines : MachineStep(m)
  \/ \E p \in Projects : CancelStep(p)
  \/ CronStep

Spec == Init /\ [][Next]_vars

(* What the platform keeps doing: the per-minute dispatch boots machines    *)
(* for queued work, a running worker goes on, the heartbeat of a silent one *)
(* grows old, and QStash fires the recovery cron every five minutes.        *)
Fairness ==
  /\ \A m \in Machines : /\ WF_vars(BootMachine(m))
                         /\ WF_vars(ClaimJob(m))
                         /\ WF_vars(WorkerStep(m))
                         /\ WF_vars(StallExit(m))
  /\ \A j \in Jobs : WF_vars(Age(j)) /\ WF_vars(CronNotify(j))
  /\ SF_vars(CronRecover) /\ SF_vars(CronFail)

FairSpec == Spec /\ Fairness
-----------------------------------------------------------------------------
(* Properties; those of ScanQueue hold here too.                            *)

(* A job reads 'completed' only if its finalize RPC committed the run: no   *)
(* error, early return or cancellation path reports success without data.   *)
(* The one exception is a soft stall whose write hid a cancellation from    *)
(* the worker's last look at the row.                                       *)
CompletedMeansCommitted ==
  \A j \in Jobs : row[j].status = "completed" => j \in committed \cup stalled

(* No queued or running extraction is stranded: whatever dies, the worker,  *)
(* the watchdog or the recovery cron ends it.                               *)
EveryJobSettles ==
  \A j \in Jobs : row[j].status \in Active ~> row[j].status \in Terminal

-----------------------------------------------------------------------------
(* A claim of the comments that the code does not keep.                     *)

(* cancelExtractionJob stops the machine claimed by the job it cancels.     *)
StopsOnlyItsJob ==
  [][\A p \in Projects :
       canc[p].pc = "stop" /\ canc'[p].pc = "none" =>
         LET m == canc[p].machine IN
         wk'[m] # wk[m] => wk[m].job \in {Null, canc[p].job}]_vars
=============================================================================
