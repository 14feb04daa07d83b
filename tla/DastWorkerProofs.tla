-------------------------- MODULE DastWorkerProofs --------------------------
(***************************************************************************)
(* Proofs about DastWorker, for any jobs, machines, targets and number of  *)
(* batches: types, the properties of ScanQueue, JobLease, and that only    *)
(* whole runs of findings become visible.                                  *)
(***************************************************************************)
EXTENDS DastWorker, ScanQueueProofs, FiniteSetTheorems

-----------------------------------------------------------------------------
(* Types.  That no scan inserts more than Batches batches is not a matter   *)
(* of types: it is part of Batching below.                                  *)
PointersTyped ==
  /\ active \in [Targets -> RunId \cup {Null}]
  /\ previous \in [Targets -> RunId \cup {Null}]

CallTyped == call \in [Jobs -> {"none", "checked", "queued", "closed"}]

Typed ==
  /\ RowTyped /\ WorkersTyped(WorkerPcs)
  /\ CallTyped /\ PointersTyped /\ doomed \subseteq Machines

(* A claimed row names a machine: the cron stops the machines of rows.      *)
Leased == \A j \in Jobs : row[j].status = "processing" => row[j].machine \in Machines

(* A request that has not inserted yet has no row; one that has, has.       *)
Requests ==
  \A j \in Jobs : /\ call[j] \in {"none", "checked"} => row[j].status = "absent"
                  /\ call[j] = "queued" => row[j].status # "absent"

(* The part of the invariant that does not look at the findings.            *)
QInv == Typed /\ QueueInv /\ Leased /\ Requests

LEMMA Counters == WorkerPcs \cap {"off", "idle"} = {}
BY DEF WorkerPcs

LEMMA QInvInit == Init => QInv
<1> SUFFICES ASSUME Init PROVE QInv
  OBVIOUS
<1>1. RowTyped
  BY QueueAssumption DEF Init, QueueInit, NoRow, RowTyped, RowType, Status
<1>2. WorkersTyped(WorkerPcs)
  BY Counters DEF Init, QueueInit, Resting, WorkersTyped, WorkerType
<1>3. CallTyped /\ PointersTyped /\ doomed \subseteq Machines
  BY DEF Init, CallTyped, PointersTyped
<1>4. QueueInv
  BY QueueInitInv DEF Init
<1>5. Leased /\ Requests
  BY DEF Init, QueueInit, NoRow, Leased, Requests
<1> QED BY <1>1, <1>2, <1>3, <1>4, <1>5 DEF QInv, Typed

LEMMA TypedQueue == Typed => QueueTyped
BY WorkersTypedClaim DEF Typed, QueueTyped

(* What a worker in the pipeline knows of its job.                          *)
LEMMA AtWork ==
  ASSUME QInv, NEW m \in Machines, wk[m].pc \in WorkerPcs
  PROVE  /\ wk[m].job \in Jobs /\ wk[m].run \in Nat /\ Busy(m)
         /\ row[wk[m].job].status # "absent"
         /\ wk[m].run <= row[wk[m].job].run
         /\ TargetOf[wk[m].job] \in Targets
         /\ RunOf(m) \in RunId
<1>1. wk[m].job \in Jobs /\ wk[m].run \in Nat /\ Busy(m)
  BY QueueAssumption DEF QInv, Typed, WorkersTyped, WorkerType, Busy
<1>2. ClaimOf(m)
  BY <1>1 DEF QInv, QueueInv, Claims
<1> QED BY <1>1, <1>2 DEF ClaimOf, Targets, RunOf, RunId

LEMMA BusyWork ==
  ASSUME QInv, NEW m \in Machines, Busy(m)
  PROVE  wk[m].job \in Jobs /\ row[wk[m].job].status # "absent"
BY DEF QInv, Typed, WorkersTyped, WorkerType, Busy, QueueInv, Claims, ClaimOf

-----------------------------------------------------------------------------
(* Quiet steps: everything but insert, claim and requeue.                   *)
RestKeeps ==
  /\ CallTyped' /\ PointersTyped' /\ doomed' \subseteq Machines
  /\ \A j \in Jobs : /\ call'[j] \in {"none", "checked"} => call[j] \in {"none", "checked"}
                     /\ call'[j] = "queued" => call[j] = "queued"

Quiet ==
  /\ RowTyped' /\ RowsQuiet
  /\ WorkersTyped(WorkerPcs)' /\ WorkersQuiet
  /\ RestKeeps

LEMMA QuietKeeps ==
  ASSUME QInv, Quiet
  PROVE  QInv' /\ \E S \in SUBSET Jobs : Lease!Settle(S)
<1>1. Typed'
  BY DEF Quiet, RestKeeps, Typed
<1>2. QueueTyped /\ QueueTyped'
  BY <1>1, TypedQueue
     DEF QInv, Typed, QueueTyped, ClaimTyped, WorkersTyped, WorkerType, RowTyped
<1>3. QueueInv' /\ \E S \in SUBSET Jobs : Lease!Settle(S)
  BY <1>2, QuietStep, QuietLease DEF QInv, Quiet
<1>4. Leased'
  BY DEF Quiet, RowsQuiet, RowQuiet, QInv, Leased, Terminal
<1>5. Requests'
  BY DEF Quiet, RestKeeps, RowsQuiet, RowQuiet, QInv, Requests, Terminal
<1> QED BY <1>1, <1>3, <1>4, <1>5 DEF QInv

LEMMA SameRest ==
  ASSUME QInv, UNCHANGED others
  PROVE  RestKeeps
BY DEF RestKeeps, others, store, QInv, Typed, CallTyped, PointersTyped

LEMMA SameStore ==
  ASSUME QInv, UNCHANGED store
  PROVE  PointersTyped'
BY DEF store, QInv, Typed, PointersTyped

LEMMA SameRows ==
  ASSUME QInv, UNCHANGED row
  PROVE  RowTyped' /\ RowsQuiet
BY SameQuiet DEF QInv, Typed, RowTyped

LEMMA SameWorkers ==
  ASSUME QInv, UNCHANGED wk
  PROVE  WorkersTyped(WorkerPcs)' /\ WorkersQuiet
BY DEF QInv, Typed, WorkersTyped, WorkersQuiet, WorkerType

LEMMA Rests ==
  ASSUME QInv, NEW m, NEW p \in {"off", "idle"}, wk' = [wk EXCEPT ![m] = Resting(p)]
  PROVE  WorkersTyped(WorkerPcs)' /\ WorkersQuiet
<1>1. WorkersTyped(WorkerPcs)'
  BY Counters, RestTyped DEF QInv, Typed
<1>2. WorkersQuiet
  BY RestQuiet DEF QInv, Typed
<1> QED BY <1>1, <1>2

LEMMA Moves ==
  ASSUME QInv, NEW m \in Machines, wk[m].pc \in WorkerPcs, NEW p \in WorkerPcs, Goto(m, p)
  PROVE  WorkersTyped(WorkerPcs)' /\ WorkersQuiet
<1>1. WorkersTyped(WorkerPcs)'
  BY AtWork, GotoTyped DEF QInv, Typed
<1>2. WorkersQuiet
  BY GotoQuiet DEF QInv, Typed
<1> QED BY <1>1, <1>2

LEMMA StatusById ==
  ASSUME QInv, NEW j \in Jobs, NEW s \in Terminal, row[j].status # "absent", SetStatus(j, s)
  PROVE  RowTyped' /\ RowsQuiet
<1>1. s \in Status
  BY DEF Status
<1> QED BY <1>1, SetStatusTyped, SetStatusQuiet DEF QInv, Typed

LEMMA StatusByClaim ==
  ASSUME QInv, NEW j, NEW m \in Machines, NEW r, NEW s \in Terminal, SetStatusOwned(j, m, r, s)
  PROVE  RowTyped' /\ RowsQuiet
<1>1. s \in Status
  BY DEF Status
<1> QED BY <1>1, OwnedTyped, OwnedQuiet DEF QInv, Typed

LEMMA Freshness ==
  ASSUME QInv, NEW j \in Jobs, NEW b \in BOOLEAN, row[j].status # "absent",
         row' = [row EXCEPT ![j].stale = b]
  PROVE  RowTyped' /\ RowsQuiet
BY StaleTyped, StaleQuiet DEF QInv, Typed

LEMMA QuietRequests ==
  ASSUME QInv, NEW j \in Jobs, QueueCount(j) \/ StartCall(j) \/ CancelScan(j) \/ Age(j)
  PROVE  Quiet
<1>1. CASE QueueCount(j)
  <2>1. UNCHANGED row /\ UNCHANGED wk /\ UNCHANGED store /\ UNCHANGED doomed
    BY <1>1 DEF QueueCount
  <2>2. RestKeeps
    BY <1>1, <2>1, SameStore DEF QueueCount, QInv, Typed, CallTyped, RestKeeps
  <2> QED BY <2>1, <2>2, SameRows, SameWorkers DEF Quiet
<1>2. CASE StartCall(j)
  <2>1. UNCHANGED wk /\ UNCHANGED store /\ UNCHANGED doomed /\ row[j].status # "absent"
    BY <1>2 DEF StartCall, QInv, Requests
  <2>2. RestKeeps
    BY <1>2, <2>1, SameStore DEF StartCall, QInv, Typed, CallTyped, RestKeeps
  <2>3. ASSUME row' = [row EXCEPT ![j].status = "deleted"]
        PROVE  RowTyped' /\ RowsQuiet
    <3>1. "deleted" \in Status
      BY DEF Status
    <3> QED BY <2>1, <2>3, <3>1, StatusTyped, StatusQuiet DEF QInv, Typed
  <2>4. RowTyped' /\ RowsQuiet
    BY <1>2, <2>3, SameRows DEF StartCall
  <2> QED BY <2>1, <2>2, <2>4, SameWorkers DEF Quiet
<1>3. CASE CancelScan(j)
  <2>1. UNCHANGED wk /\ UNCHANGED others /\ SetStatus(j, "cancelled")
        /\ row[j].status # "absent"
    BY <1>3 DEF CancelScan, Active
  <2> QED BY <2>1, StatusById, SameRest, SameWorkers DEF Quiet, Terminal
<1>4. CASE Age(j)
  BY <1>4, Freshness, SameRest, SameWorkers DEF Age, HeartbeatAges, Quiet
<1> QED BY <1>1, <1>2, <1>3, <1>4

LEMMA QuietMachines ==
  ASSUME QInv, NEW m \in Machines,
         \/ BootMachine(m) \/ ExitIdle(m) \/ SendHeartbeat(m) \/ Crash(m)
         \/ PollHeartbeat(m) \/ SoftStall(m)
  PROVE  Quiet
<1>1. CASE BootMachine(m)
  BY <1>1, Rests, SameRows, SameRest DEF BootMachine, Boot, Quiet
<1>2. CASE ExitIdle(m)
  BY <1>2, Rests, SameRows, SameRest DEF ExitIdle, IdleExit, PowerOff, Quiet
<1>3. CASE SendHeartbeat(m)
  <2>1. wk[m].job \in Jobs /\ row[wk[m].job].status # "absent"
    BY <1>3, BusyWork DEF SendHeartbeat, Heartbeat
  <2> QED BY <1>3, <2>1, Freshness, SameRest, SameWorkers DEF SendHeartbeat, Heartbeat, Quiet
<1>4. CASE Crash(m)
  BY <1>4, Rests, SameRows, SameRest DEF Crash, PowerOff, Quiet
<1>5. CASE PollHeartbeat(m)
  <2>1. wk[m].job \in Jobs /\ row[wk[m].job].status # "absent"
    BY <1>5, AtWork DEF PollHeartbeat, At, WorkerPcs
  <2> QED BY <1>5, <2>1, Freshness, SameRest, SameWorkers DEF PollHeartbeat, Quiet
<1>6. CASE SoftStall(m)
  BY <1>6, StatusByClaim, SameRest, SameWorkers DEF SoftStall, Quiet, Terminal
<1> QED BY <1>1, <1>2, <1>3, <1>4, <1>5, <1>6

(* The worker moves within the pipeline and writes no row.                  *)
PipelineMove(m) ==
  \/ SetupDone(m) \/ SetupAborts(m) \/ SetupThrows(m) \/ ScanAborts(m) \/ ScanDone(m)
  \/ StoreThrows(m) \/ FinalizeThrows(m)

LEMMA QuietPipeline ==
  ASSUME QInv, NEW m \in Machines, PipelineMove(m)
  PROVE  Quiet
<1>1. /\ UNCHANGED row /\ UNCHANGED others /\ wk[m].pc \in WorkerPcs
      /\ \E p \in WorkerPcs : Goto(m, p)
  BY DEF PipelineMove, SetupDone, SetupAborts, SetupThrows, ScanAborts, ScanDone, StoreThrows,
         FinalizeThrows, At, Move, WorkerPcs
<1> QED BY <1>1, Moves, SameRows, SameRest DEF Quiet

LEMMA QuietStore ==
  ASSUME QInv, NEW m \in Machines, InsertBatch(m) \/ Commit(m)
  PROVE  Quiet
<1>1. /\ UNCHANGED row /\ UNCHANGED call /\ UNCHANGED doomed /\ wk[m].pc \in WorkerPcs
      /\ \E p \in WorkerPcs : Goto(m, p)
  BY DEF InsertBatch, Commit, At, WorkerPcs
<1>2. PointersTyped'
  <2>1. CASE InsertBatch(m)
    BY <2>1 DEF InsertBatch, QInv, Typed, PointersTyped
  <2>2. CASE Commit(m)
    BY <1>1, <2>2, AtWork DEF Commit, QInv, Typed, PointersTyped
  <2> QED BY <2>1, <2>2
<1>3. RestKeeps
  BY <1>1, <1>2 DEF RestKeeps, QInv, Typed, CallTyped
<1> QED BY <1>1, <1>3, Moves, SameRows DEF Quiet

LEMMA QuietWrites ==
  ASSUME QInv, NEW m \in Machines,
         RecordAbort(m) \/ Finalize(m) \/ FinalizeAuthLost(m) \/ WriteFailed(m)
  PROVE  Quiet
<1>1. /\ wk[m].pc \in WorkerPcs /\ UNCHANGED others
      /\ (\E p \in WorkerPcs : Goto(m, p)) \/ Release(m)
      /\ \/ \E s \in Terminal : SetStatus(wk[m].job, s)
         \/ \E s \in Terminal : SetStatusOwned(wk[m].job, m, wk[m].run, s)
         \/ UNCHANGED row
  BY DEF RecordAbort, Finalize, FinalizeAuthLost, WriteFailed, At, Move, WorkerPcs, Terminal
<1>2. RowTyped' /\ RowsQuiet
  BY <1>1, AtWork, StatusById, StatusByClaim, SameRows
<1>3. WorkersTyped(WorkerPcs)' /\ WorkersQuiet
  BY <1>1, Moves, Rests DEF Release
<1> QED BY <1>1, <1>2, <1>3, SameRest DEF Quiet

LEMMA QuietCron ==
  ASSUME QInv, CronFail \/ \E m \in Machines : CronStop(m)
  PROVE  Quiet
<1>1. CASE CronFail
  <2>1. RowTyped' /\ RowsQuiet
    BY <1>1, FailTyped, FailQuiet DEF CronFail, QInv, Typed
  <2>2. doomed' \subseteq Machines
    BY <1>1 DEF CronFail, Exhausted, Stuck, QInv, Leased
  <2>3. RestKeeps
    BY <1>1, <2>2, SameStore DEF CronFail, RestKeeps, QInv, Typed, CallTyped
  <2> QED BY <1>1, <2>1, <2>3, SameWorkers DEF CronFail, Quiet
<1>2. ASSUME NEW m \in Machines, CronStop(m) PROVE Quiet
  <2>1. RestKeeps
    BY <1>2, SameStore DEF CronStop, RestKeeps, QInv, Typed, CallTyped
  <2>2. WorkersTyped(WorkerPcs)' /\ WorkersQuiet
    BY <1>2, Rests, SameWorkers DEF CronStop, PowerOff
  <2> QED BY <1>2, <2>1, <2>2, SameRows DEF CronStop, Quiet
<1> QED BY <1>1, <1>2

(* Every action is quiet, or is one of the three others.                    *)
LEMMA QuietActions ==
  ASSUME QInv, [Next]_vars
  PROVE  \/ Quiet
         \/ \E j \in Jobs : QueueInsert(j)
         \/ \E m \in Machines : ClaimJob(m)
         \/ CronRecover
<1>1. ASSUME NEW j \in Jobs, JobStep(j) PROVE Quiet \/ QueueInsert(j)
  BY <1>1, QuietRequests DEF JobStep
<1>2. ASSUME NEW m \in Machines, MachineStep(m) PROVE Quiet \/ ClaimJob(m)
  <2>1. CASE WorkerStep(m)
    BY <2>1, QuietPipeline, QuietStore, QuietWrites
       DEF WorkerStep, PipelineMove, ScanCancelled, ScanFails
  <2> QED BY <1>2, <2>1, QuietMachines, QuietCron DEF MachineStep
<1>3. CASE CronFail
  BY <1>3, QuietCron
<1>4. CASE UNCHANGED vars
  <2>1. UNCHANGED row /\ UNCHANGED wk /\ UNCHANGED others
    BY <1>4 DEF vars, others, store
  <2> QED BY <2>1, SameRows, SameWorkers, SameRest DEF Quiet
<1> QED BY <1>1, <1>2, <1>3, <1>4 DEF Next

LEMMA QInvNext ==
  ASSUME QInv, [Next]_vars
  PROVE  QInv' /\ [Lease!Next]_(Lease!leaseVars)
<1>1. QueueTyped
  BY TypedQueue DEF QInv
<1>2. CASE Quiet
  BY <1>2, QuietKeeps DEF Lease!Next
<1>3. ASSUME NEW j \in Jobs, QueueInsert(j)
      PROVE  QInv' /\ [Lease!Next]_(Lease!leaseVars)
  <2>1. /\ row[j].status = "absent" /\ UNCHANGED wk /\ UNCHANGED store /\ UNCHANGED doomed
        /\ call[j] = "checked"
    BY <1>3 DEF QueueInsert, QInv, Requests
  <2>2. CASE SlotFree(j)
    <3>1. InsertRow(j) /\ call' = [call EXCEPT ![j] = "queued"]
      BY <1>3, <2>2 DEF QueueInsert
    <3>2. QueueInv' /\ Lease!Submit(j)
      BY <1>1, <2>1, <2>2, <3>1, InsertStep, InsertLease DEF QInv
    <3>3. RowTyped'
      BY <3>1, InsertTyped DEF QInv, Typed
    <3>4. Typed'
      BY <2>1, <3>1, <3>3, SameStore, SameWorkers DEF QInv, Typed, CallTyped
    <3>5. Leased' /\ Requests'
      BY <3>1 DEF InsertRow, NoRow, QInv, Typed, RowTyped, CallTyped, Leased, Requests
    <3> QED BY <3>2, <3>4, <3>5 DEF QInv, Lease!Next
  <2>3. CASE ~SlotFree(j)
    <3>1. UNCHANGED row /\ call' = [call EXCEPT ![j] = "closed"]
      BY <1>3, <2>3 DEF QueueInsert
    <3>2. RestKeeps
      BY <2>1, <3>1, SameStore DEF RestKeeps, QInv, Typed, CallTyped
    <3>3. Quiet
      BY <2>1, <3>1, <3>2, SameRows, SameWorkers DEF Quiet
    <3> QED BY <3>3, QuietKeeps DEF Lease!Next
  <2> QED BY <2>2, <2>3
<1>4. ASSUME NEW m \in Machines, ClaimJob(m)
      PROVE  QInv' /\ [Lease!Next]_(Lease!leaseVars)
  <2>1. PICK j \in Jobs :
          /\ row[j].status = "queued" /\ ClaimRow(j, m)
          /\ wk' = [wk EXCEPT ![m] = [pc |-> "setup", job |-> j, run |-> row[j].run,
                                      known |-> FALSE]]
    BY <1>4 DEF ClaimJob, Claim, Claimable
  <2>2. /\ wk'[m].job = j /\ wk'[m].run = row[j].run
        /\ \A n \in Machines \ {m} : wk'[n] = wk[n]
    BY <2>1 DEF QInv, Typed, WorkersTyped
  <2>3. QueueInv' /\ Lease!Grant(j)
    BY <1>1, <2>1, <2>2, ClaimStep, ClaimLease DEF QInv
  <2>4. RowTyped'
    BY <2>1, ClaimRowTyped DEF QInv, Typed
  <2>5. WorkersTyped(WorkerPcs)'
    <3>1. "setup" \in WorkerPcs
      BY DEF WorkerPcs
    <3> QED BY <2>1, <3>1, ClaimWorkerTyped DEF QInv, Typed
  <2>6. RestKeeps
    BY <1>4, SameRest DEF ClaimJob
  <2>7. Typed'
    BY <2>4, <2>5, <2>6 DEF Typed, RestKeeps
  <2>8. Leased' /\ Requests'
    BY <2>1, <2>6 DEF ClaimRow, QInv, Typed, RowTyped, RestKeeps, Leased, Requests
  <2> QED BY <2>3, <2>7, <2>8 DEF QInv, Lease!Next
<1>5. CASE CronRecover
  <2>1. QueueInv' /\ Lease!HandBack(Recoverable)
    BY <1>1, <1>5, RecoverStep, RecoverLease DEF CronRecover, QInv
  <2>2. RowTyped' /\ RestKeeps /\ WorkersTyped(WorkerPcs)'
    BY <1>5, RecoverTyped, SameRest, SameWorkers DEF CronRecover, QInv, Typed
  <2>3. Leased' /\ Requests'
    BY <1>5, <2>2 DEF CronRecover, RecoverStuck, Recoverable, Stuck, Requeued, RestKeeps,
                      QInv, Leased, Requests
  <2> QED BY <2>1, <2>2, <2>3 DEF QInv, Typed, RestKeeps, Lease!Next, Recoverable
<1> QED BY <1>2, <1>3, <1>4, <1>5, QuietActions

-----------------------------------------------------------------------------
(* The findings.  A run holds the batches that its only worker has got to:  *)
(* none before it is claimed, all of them once the worker commits.          *)
Whole(r) == BatchesOf(r) = 1..Batches

Written(m) ==
  /\ wk[m].pc \in {"setup", "scan"} => BatchesOf(RunOf(m)) = {}
  /\ wk[m].pc = "insert" => \E k \in 0..Batches - 1 : BatchesOf(RunOf(m)) = 1..k
  /\ wk[m].pc = "commit" => Whole(RunOf(m))
  /\ wk[m].pc = "finalize" /\ wk[m].job \notin DryRuns => Whole(RunOf(m))

(* The runs that no worker has claimed yet.                                 *)
Unused(j, n) ==
  n > row[j].run \/ (n = row[j].run /\ row[j].status \in {"absent", "queued"})

Ahead == \A j \in Jobs, n \in Nat : Unused(j, n) => BatchesOf(<<j, n>>) = {}

FindingsTyped == findings \subseteq RunId \X (1..Batches)

Batching ==
  /\ FindingsTyped /\ Ahead
  /\ \A m \in Machines : Written(m)
  /\ ActiveRunIsWhole /\ CompletedMeansInserted

IInv == QInv /\ Batching

LEMMA IInvInit == Init => IInv
<1> SUFFICES ASSUME Init PROVE IInv
  OBVIOUS
<1>1. \A r : BatchesOf(r) = {}
  BY DEF Init, BatchesOf
<1>2. \A m \in Machines : wk[m].pc = "off"
  BY DEF Init, QueueInit, Resting
<1>3. FindingsTyped /\ Ahead /\ \A m \in Machines : Written(m)
  BY <1>1, <1>2 DEF Init, FindingsTyped, Ahead, Written
<1>4. ActiveRunIsWhole
  BY DEF Init, ActiveRunIsWhole
<1>5. CompletedMeansInserted
  BY DEF Init, QueueInit, NoRow, CompletedMeansInserted
<1> QED BY <1>3, <1>4, <1>5, QInvInit DEF IInv, Batching

(* One more batch of run r leaves the other runs alone.                     *)
LEMMA OneBatch ==
  ASSUME NEW r, NEW n, findings' = findings \cup {<<r, n>>}
  PROVE  /\ BatchesOf(r)' = BatchesOf(r) \cup {n}
         /\ \A q : q # r => BatchesOf(q)' = BatchesOf(q)
<1> DEFINE f == <<r, n>>
<1>1. f[1] = r /\ f[2] = n /\ findings' = findings \cup {f}
  OBVIOUS
<1> HIDE DEF f
<1>2. ASSUME NEW q PROVE {g \in findings' : g[1] = q}
                         = {g \in findings : g[1] = q} \cup (IF q = r THEN {f} ELSE {})
  BY <1>1
<1>3. ASSUME NEW q, q # r PROVE BatchesOf(q)' = BatchesOf(q)
  BY <1>2, <1>3 DEF BatchesOf
<1>4. BatchesOf(r)' = BatchesOf(r) \cup {n}
  BY <1>1, <1>2 DEF BatchesOf
<1> QED BY <1>3, <1>4

LEMMA SameBatches ==
  ASSUME UNCHANGED findings
  PROVE  \A r : BatchesOf(r)' = BatchesOf(r)
BY DEF BatchesOf

LEMMA NextBatch ==
  ASSUME NEW k \in Nat
  PROVE  Cardinality(1..k) + 1 = k + 1 /\ (1..k) \cup {k + 1} = 1..k + 1
<1>1. Cardinality(1..k) = k
  BY FS_Interval
<1> QED BY <1>1

(* No step takes a row back to a run id it has left.                        *)
RowsOnward ==
  \A j \in Jobs, n \in Nat : Unused(j, n)' => Unused(j, n)

LEMMA Onward == ASSUME QInv, [Next]_vars PROVE RowsOnward
<1>1. CASE Quiet
  BY <1>1 DEF Quiet, RowsQuiet, RowQuiet, RowsOnward, Unused, Terminal
<1>2. ASSUME NEW j \in Jobs, QueueInsert(j) PROVE RowsOnward
  BY <1>2 DEF QueueInsert, InsertRow, NoRow, RowsOnward, Unused, QInv, Typed, RowTyped, Requests,
              QueueInv, Unclaimed
<1>3. ASSUME NEW m \in Machines, ClaimJob(m) PROVE RowsOnward
  BY <1>3 DEF ClaimJob, Claim, ClaimRow, RowsOnward, Unused, QInv, Typed, RowTyped
<1>4. CASE CronRecover
  BY <1>4 DEF CronRecover, RecoverStuck, Requeued, RowsOnward, Unused, QInv, Typed, RowTyped,
              RowType
<1> QED BY <1>1, <1>2, <1>3, <1>4, QuietActions

(* What a step that inserts no batch may do to a worker.                    *)
Onwards(p, q, j) ==
  \/ p = "setup" /\ q = "scan"
  \/ p = "scan" /\ q = "insert"
  \/ p = "scan" /\ q = "finalize" /\ j \in DryRuns
  \/ p = "commit" /\ q = "finalize"

WorkerKeeps(m) ==
  \/ wk'[m] = wk[m]
  \/ wk'[m].pc \in {"off", "idle", "abort", "fail"}
  \/ /\ wk'[m].job = wk[m].job /\ wk'[m].run = wk[m].run
     /\ Onwards(wk[m].pc, wk'[m].pc, wk[m].job)
  \/ /\ wk'[m].pc = "setup"
     /\ wk'[m].job \in Jobs /\ wk'[m].run \in Nat /\ Unused(wk'[m].job, wk'[m].run)

WorkersKeep == \A m \in Machines : WorkerKeeps(m)

(* No row is completed by the step.                                         *)
NoneCompletes ==
  \A j \in Jobs : row'[j].status = "completed"
                    => row[j].status = "completed" /\ row'[j].run = row[j].run

LEMMA WrittenKeeps ==
  ASSUME IInv, UNCHANGED findings, NEW m \in Machines, WorkerKeeps(m)
  PROVE  Written(m)'
<1>1. \A r : BatchesOf(r)' = BatchesOf(r)
  BY SameBatches
<1>2. PICK r : r = RunOf(m)'
  OBVIOUS
<1>3. r = <<wk'[m].job, wk'[m].run>>
  BY <1>2 DEF RunOf
<1> SUFFICES /\ wk'[m].pc \in {"setup", "scan"} => BatchesOf(r) = {}
             /\ wk'[m].pc = "insert" => \E k \in 0..Batches - 1 : BatchesOf(r) = 1..k
             /\ wk'[m].pc = "commit" => BatchesOf(r) = 1..Batches
             /\ wk'[m].pc = "finalize" /\ wk'[m].job \notin DryRuns => BatchesOf(r) = 1..Batches
  BY <1>1, <1>2 DEF Written, Whole
<1>4. Written(m)
  BY DEF IInv, Batching
<1>5. CASE wk'[m] = wk[m]
  BY <1>3, <1>4, <1>5 DEF Written, Whole, RunOf
<1>6. CASE wk'[m].pc \in {"off", "idle", "abort", "fail"}
  BY <1>6
<1>7. CASE /\ wk'[m].job = wk[m].job /\ wk'[m].run = wk[m].run
           /\ Onwards(wk[m].pc, wk'[m].pc, wk[m].job)
  <2>1. r = RunOf(m)
    BY <1>3, <1>7 DEF RunOf
  <2>2. 0 \in 0..Batches - 1 /\ 1..0 = {}
    BY DastAssumption
  <2> QED BY <1>4, <1>7, <2>1, <2>2 DEF Onwards, Written, Whole
<1>8. CASE /\ wk'[m].pc = "setup"
           /\ wk'[m].job \in Jobs /\ wk'[m].run \in Nat /\ Unused(wk'[m].job, wk'[m].run)
  BY <1>3, <1>8 DEF IInv, Batching, Ahead
<1> QED BY <1>5, <1>6, <1>7, <1>8 DEF WorkerKeeps

(* A step that inserts no batch, moves no pointer and completes no row.     *)
LEMMA PlainStep ==
  ASSUME IInv, RowsOnward, UNCHANGED findings, WorkersKeep
  PROVE  /\ FindingsTyped' /\ Ahead' /\ \A m \in Machines : Written(m)'
         /\ UNCHANGED <<active, previous>> => ActiveRunIsWhole'
         /\ NoneCompletes => CompletedMeansInserted'
<1>1. \A r : BatchesOf(r)' = BatchesOf(r)
  BY SameBatches
<1>2. FindingsTyped'
  BY DEF IInv, Batching, FindingsTyped
<1>3. Ahead'
  BY <1>1 DEF IInv, Batching, Ahead, RowsOnward
<1>4. \A m \in Machines : Written(m)'
  BY WrittenKeeps DEF WorkersKeep
<1>5. UNCHANGED <<active, previous>> => ActiveRunIsWhole'
  BY <1>1 DEF IInv, Batching, ActiveRunIsWhole
<1>6. NoneCompletes => CompletedMeansInserted'
  BY <1>1 DEF IInv, Batching, CompletedMeansInserted, NoneCompletes
<1> QED BY <1>2, <1>3, <1>4, <1>5, <1>6

Plain == UNCHANGED store /\ WorkersKeep /\ NoneCompletes

LEMMA PlainKeeps ==
  ASSUME IInv, RowsOnward, Plain
  PROVE  Batching'
BY PlainStep DEF Plain, store, Batching

LEMMA SameKeep == ASSUME UNCHANGED wk PROVE WorkersKeep
BY DEF WorkersKeep, WorkerKeeps

LEMMA RestKeep ==
  ASSUME QInv, NEW m, NEW p \in {"off", "idle"}, wk' = [wk EXCEPT ![m] = Resting(p)]
  PROVE  WorkersKeep
BY DEF WorkersKeep, WorkerKeeps, Resting, QInv, Typed, WorkersTyped

LEMMA GotoKeep ==
  ASSUME QInv, NEW m \in Machines, NEW p, Goto(m, p),
         p \in {"abort", "fail"} \/ Onwards(wk[m].pc, p, wk[m].job)
  PROVE  WorkersKeep
<1>1. wk' = [wk EXCEPT ![m].pc = p] /\ wk \in [Machines -> WorkerType(WorkerPcs)]
  BY DEF Goto, QInv, Typed, WorkersTyped
<1>2. wk'[m].pc = p /\ wk'[m].job = wk[m].job /\ wk'[m].run = wk[m].run
  BY <1>1 DEF WorkerType
<1>3. \A n \in Machines \ {m} : wk'[n] = wk[n]
  BY <1>1
<1> QED BY <1>2, <1>3 DEF WorkersKeep, WorkerKeeps

LEMMA NoneByStatus ==
  ASSUME QInv, NEW j, NEW s, s # "completed", row' = [row EXCEPT ![j].status = s]
  PROVE  NoneCompletes
BY DEF NoneCompletes, QInv, Typed, RowTyped, RowType

LEMMA NoneById ==
  ASSUME QInv, NEW j, NEW s \in {"failed", "cancelled"}, SetStatus(j, s)
  PROVE  NoneCompletes
<1>1. (IF row[j].status = "deleted" THEN row[j].status ELSE s) # "completed"
  OBVIOUS
<1> QED BY <1>1, NoneByStatus DEF SetStatus

LEMMA NoneByClaim ==
  ASSUME QInv, NEW j, NEW m, NEW r, SetStatusOwned(j, m, r, "failed")
  PROVE  NoneCompletes
BY DEF SetStatusOwned, NoneCompletes, QInv, Typed, RowTyped, RowType

LEMMA NoneByStale ==
  ASSUME QInv, NEW j, NEW b, row' = [row EXCEPT ![j].stale = b]
  PROVE  NoneCompletes
BY DEF NoneCompletes, QInv, Typed, RowTyped, RowType

LEMMA NoneSame == ASSUME UNCHANGED row PROVE NoneCompletes
BY DEF NoneCompletes

LEMMA PlainRequests == ASSUME QInv, NEW j \in Jobs, JobStep(j) PROVE Plain
<1>1. UNCHANGED store /\ UNCHANGED wk
  BY DEF JobStep, QueueCount, QueueInsert, StartCall, CancelScan, Age, HeartbeatAges, others
<1>2. NoneCompletes
  <2>1. CASE QueueCount(j) \/ StartCall(j)
    BY <2>1, NoneSame, NoneByStatus DEF QueueCount, StartCall
  <2>2. CASE QueueInsert(j)
    BY <2>2, NoneSame DEF QueueInsert, InsertRow, NoRow, NoneCompletes, QInv, Typed, RowTyped
  <2>3. CASE CancelScan(j)
    BY <2>3, NoneById DEF CancelScan
  <2>4. CASE Age(j)
    BY <2>4, NoneByStale DEF Age, HeartbeatAges
  <2> QED BY <2>1, <2>2, <2>3, <2>4 DEF JobStep
<1> QED BY <1>1, <1>2, SameKeep DEF Plain

LEMMA PlainClaim == ASSUME QInv, NEW m \in Machines, ClaimJob(m) PROVE Plain
<1>1. PICK j \in Jobs :
        /\ row[j].status = "queued" /\ ClaimRow(j, m)
        /\ wk' = [wk EXCEPT ![m] = [pc |-> "setup", job |-> j, run |-> row[j].run,
                                    known |-> FALSE]]
  BY DEF ClaimJob, Claim, Claimable
<1>2. NoneCompletes
  BY <1>1 DEF ClaimRow, NoneCompletes, QInv, Typed, RowTyped
<1>3. WorkerKeeps(m)
  <2>1. row[j].run \in Nat /\ row'[j].run = row[j].run
    BY <1>1 DEF ClaimRow, QInv, Typed, RowTyped, RowType
  <2>2. wk'[m] = [pc |-> "setup", job |-> j, run |-> row[j].run, known |-> FALSE]
    BY <1>1 DEF QInv, Typed, WorkersTyped
  <2> QED BY <1>1, <2>1, <2>2 DEF WorkerKeeps, Unused
<1>4. \A n \in Machines \ {m} : WorkerKeeps(n)
  BY <1>1 DEF WorkerKeeps, QInv, Typed, WorkersTyped
<1> QED BY <1>2, <1>3, <1>4 DEF Plain, WorkersKeep, ClaimJob, others

LEMMA PlainMachines ==
  ASSUME QInv, NEW m \in Machines,
         \/ BootMachine(m) \/ ExitIdle(m) \/ SendHeartbeat(m) \/ Crash(m)
         \/ PollHeartbeat(m) \/ SoftStall(m) \/ CronStop(m)
  PROVE  Plain
<1>1. CASE BootMachine(m) \/ ExitIdle(m) \/ Crash(m) \/ CronStop(m)
  BY <1>1, RestKeep, SameKeep, NoneSame
     DEF BootMachine, Boot, ExitIdle, IdleExit, Crash, CronStop, PowerOff, others, Plain
<1>2. CASE SendHeartbeat(m) \/ PollHeartbeat(m)
  BY <1>2, SameKeep, NoneByStale DEF SendHeartbeat, Heartbeat, PollHeartbeat, others, Plain
<1>3. CASE SoftStall(m)
  BY <1>3, SameKeep, NoneByClaim DEF SoftStall, others, Plain
<1> QED BY <1>1, <1>2, <1>3

LEMMA PlainPipeline ==
  ASSUME QInv, NEW m \in Machines,
         PipelineMove(m) \/ RecordAbort(m) \/ FinalizeAuthLost(m) \/ WriteFailed(m)
  PROVE  Plain
<1>1. CASE PipelineMove(m)
  <2>1. UNCHANGED row /\ UNCHANGED store
    BY <1>1 DEF PipelineMove, SetupDone, SetupAborts, SetupThrows, ScanAborts, ScanDone,
                StoreThrows, FinalizeThrows, Move, others
  <2>2. \E p : /\ Goto(m, p)
               /\ p \in {"abort", "fail"} \/ Onwards(wk[m].pc, p, wk[m].job)
    BY <1>1 DEF PipelineMove, SetupDone, SetupAborts, SetupThrows, ScanAborts, ScanDone,
                StoreThrows, FinalizeThrows, At, Move, Onwards
  <2> QED BY <2>1, <2>2, GotoKeep, NoneSame DEF Plain
<1>2. CASE RecordAbort(m)
  BY <1>2, GotoKeep, NoneSame, NoneById DEF RecordAbort, Move, others, Plain
<1>3. CASE FinalizeAuthLost(m)
  BY <1>3, RestKeep, NoneSame, NoneById DEF FinalizeAuthLost, Release, others, Plain
<1>4. CASE WriteFailed(m)
  BY <1>4, RestKeep, NoneSame, NoneByClaim DEF WriteFailed, Release, others, Plain
<1> QED BY <1>1, <1>2, <1>3, <1>4

LEMMA PlainCron == ASSUME QInv, CronRecover \/ CronFail PROVE Plain
<1>1. NoneCompletes
  BY DEF CronRecover, RecoverStuck, Requeued, CronFail, FailExhausted, NoneCompletes,
         QInv, Typed, RowTyped, RowType
<1> QED BY <1>1, SameKeep DEF CronRecover, CronFail, others, Plain

(* The worker that inserts is the only one on its run, and the run is       *)
(* neither unclaimed nor whole.                                             *)
LEMMA OwnRun ==
  ASSUME QInv, NEW m \in Machines, wk[m].pc \in WorkerPcs
  PROVE  /\ ~Unused(wk[m].job, wk[m].run)
         /\ \A n \in Machines \ {m} : wk[n].pc \in WorkerPcs => RunOf(n) # RunOf(m)
<1>1. /\ wk[m].job \in Jobs /\ wk[m].run \in Nat /\ Busy(m) /\ ClaimOf(m)
      /\ row[wk[m].job].run \in Nat
  BY AtWork DEF QInv, QueueInv, Claims, Typed, RowTyped, RowType
<1>2. ~Unused(wk[m].job, wk[m].run)
  BY <1>1, QueueAssumption DEF ClaimOf, Unused, QInv, QueueInv, Unclaimed
<1>3. \A n \in Machines \ {m} : wk[n].pc \in WorkerPcs => RunOf(n) # RunOf(m)
  BY <1>1 DEF QInv, QueueInv, RunsDistinct, RunOf
<1> QED BY <1>2, <1>3

LEMMA InsertBatchStep ==
  ASSUME IInv, RowsOnward, NEW m \in Machines, InsertBatch(m)
  PROVE  Batching'
<1>1. PICK r : r = RunOf(m)
  OBVIOUS
<1>2. PICK k \in 0..Batches - 1 : BatchesOf(r) = 1..k
  BY <1>1 DEF InsertBatch, At, IInv, Batching, Written
<1>3. /\ k \in Nat /\ k < Batches /\ Batches \in Nat
      /\ Cardinality(1..k) + 1 = k + 1 /\ (1..k) \cup {k + 1} = 1..k + 1
      /\ k + 1 \in 1..Batches /\ 1..k # 1..Batches
  <2>1. k \in Nat /\ k < Batches /\ Batches \in Nat
    BY <1>2, DastAssumption
  <2>2. Batches \in 1..Batches /\ Batches \notin 1..k
    BY <2>1, DastAssumption
  <2> QED BY <2>1, <2>2, NextBatch
<1>4. findings' = findings \cup {<<r, k + 1>>}
  BY <1>1, <1>2, <1>3 DEF InsertBatch
<1>5. Goto(m, IF k + 1 = Batches THEN "commit" ELSE "insert")
  BY <1>1, <1>2, <1>3 DEF InsertBatch
<1>6. /\ BatchesOf(r)' = 1..k + 1
      /\ \A q : q # r => BatchesOf(q)' = BatchesOf(q)
  BY <1>2, <1>3, <1>4, OneBatch
<1>7. UNCHANGED <<row, active, previous>> /\ wk[m].pc \in WorkerPcs
  BY DEF InsertBatch, At, WorkerPcs
<1>8. FindingsTyped'
  BY <1>1, <1>3, <1>4, <1>7, AtWork DEF IInv, Batching, FindingsTyped
<1>9. Ahead'
  <2> SUFFICES ASSUME NEW j \in Jobs, NEW n \in Nat, Unused(j, n)'
               PROVE  BatchesOf(<<j, n>>)' = {}
    BY DEF Ahead
  <2>1. Unused(j, n) /\ BatchesOf(<<j, n>>) = {}
    BY DEF RowsOnward, IInv, Batching, Ahead
  <2>2. <<j, n>> # r
    BY <1>1, <1>7, <2>1, OwnRun DEF RunOf, IInv
  <2> QED BY <1>6, <2>1, <2>2
<1>10. ASSUME NEW n \in Machines PROVE Written(n)'
  <2>1. PICK q : q = RunOf(n)
    OBVIOUS
  <2>2. /\ wk'[n].job = wk[n].job /\ wk'[n].run = wk[n].run
        /\ n # m => wk'[n].pc = wk[n].pc
        /\ n = m => wk'[n].pc = IF k + 1 = Batches THEN "commit" ELSE "insert"
    BY <1>5 DEF Goto, IInv, QInv, Typed, WorkersTyped, WorkerType
  <2>3. RunOf(n)' = q
    BY <2>1, <2>2 DEF RunOf
  <2>4. CASE n = m
    <3>1. BatchesOf(q)' = 1..k + 1
      BY <1>1, <1>6, <2>1, <2>4
    <3>2. k + 1 # Batches => k + 1 \in 0..Batches - 1
      BY <1>3
    <3> QED BY <2>2, <2>3, <2>4, <3>1, <3>2 DEF Written, Whole
  <2>5. CASE n # m
    <3>1. wk[n].pc \in WorkerPcs => BatchesOf(q)' = BatchesOf(q)
      BY <1>1, <1>6, <1>7, <2>1, <2>5, OwnRun DEF IInv
    <3>2. Written(n)
      BY DEF IInv, Batching
    <3> QED BY <2>1, <2>2, <2>3, <2>5, <3>1, <3>2 DEF Written, Whole, WorkerPcs
  <2> QED BY <2>4, <2>5
<1>11. \A q : BatchesOf(q) = 1..Batches => BatchesOf(q)' = 1..Batches
  BY <1>2, <1>3, <1>6
<1>12. ActiveRunIsWhole'
  BY <1>7, <1>11 DEF IInv, Batching, ActiveRunIsWhole
<1>13. CompletedMeansInserted'
  BY <1>7, <1>11 DEF IInv, Batching, CompletedMeansInserted
<1> QED BY <1>8, <1>9, <1>10, <1>12, <1>13 DEF Batching

LEMMA CommitStep ==
  ASSUME IInv, RowsOnward, NEW m \in Machines, Commit(m)
  PROVE  Batching'
<1>1. PICK r : r = RunOf(m)
  OBVIOUS
<1>2. BatchesOf(r) = 1..Batches
  BY <1>1 DEF Commit, At, IInv, Batching, Written, Whole
<1>3. UNCHANGED row /\ UNCHANGED findings
  BY DEF Commit
<1>4. WorkersKeep
  BY GotoKeep DEF Commit, At, Onwards, IInv
<1>5. \A t \in Targets : /\ active'[t] \in {active[t], r}
                         /\ previous'[t] \in {active[t], previous[t]}
  BY <1>1 DEF Commit, IInv, QInv, Typed, PointersTyped
<1>6. \A q : BatchesOf(q)' = BatchesOf(q)
  BY <1>3, SameBatches
<1>7. ActiveRunIsWhole'
  BY <1>2, <1>5, <1>6 DEF IInv, Batching, ActiveRunIsWhole
<1> QED BY <1>3, <1>4, <1>7, NoneSame, PlainStep DEF Batching

(* finalizeJob writes by id: the row may be on a later run by then, but the *)
(* run of the worker is whole.                                              *)
LEMMA FinalizeStep ==
  ASSUME IInv, RowsOnward, NEW m \in Machines, Finalize(m)
  PROVE  Batching'
<1>1. PICK j, n : j = wk[m].job /\ n = wk[m].run
  OBVIOUS
<1>2. /\ wk[m].pc = "finalize" /\ SetStatus(j, "completed")
      /\ UNCHANGED <<findings, active, previous>>
  BY <1>1 DEF Finalize, At, others, store
<1>3. j \in Jobs /\ n \in 0..row[j].run
  BY <1>1, <1>2, AtWork DEF WorkerPcs, IInv, QInv, Typed, RowTyped, RowType
<1>4. j \notin DryRuns => BatchesOf(<<j, n>>) = 1..Batches
  BY <1>1, <1>2 DEF IInv, Batching, Written, Whole, RunOf
<1>5. WorkersKeep
  BY RestKeep DEF Finalize, Release, IInv
<1>6. \A q : BatchesOf(q)' = BatchesOf(q)
  BY <1>2, SameBatches
<1>7. /\ row'[j].run = row[j].run
      /\ \A i \in Jobs \ {j} : row'[i] = row[i]
  BY <1>2, <1>3 DEF SetStatus, IInv, QInv, Typed, RowTyped, RowType
<1>8. CompletedMeansInserted'
  BY <1>3, <1>4, <1>6, <1>7 DEF IInv, Batching, CompletedMeansInserted
<1> QED BY <1>2, <1>5, <1>8, PlainStep DEF Batching

LEMMA BatchingNext ==
  ASSUME IInv, [Next]_vars
  PROVE  Batching'
<1>1. QInv /\ RowsOnward
  BY Onward DEF IInv
<1>2. Plain => Batching'
  BY <1>1, PlainKeeps
<1>3. ASSUME NEW j \in Jobs, JobStep(j) PROVE Batching'
  BY <1>1, <1>2, <1>3, PlainRequests
<1>4. ASSUME NEW m \in Machines, MachineStep(m) PROVE Batching'
  <2>1. CASE WorkerStep(m)
    BY <1>1, <1>2, <2>1, PlainPipeline, InsertBatchStep, CommitStep, FinalizeStep
       DEF WorkerStep, PipelineMove, ScanCancelled, ScanFails
  <2>2. CASE ClaimJob(m)
    BY <1>1, <1>2, <2>2, PlainClaim
  <2>3. CASE MachineStep(m) /\ ~WorkerStep(m) /\ ~ClaimJob(m)
    BY <1>1, <1>2, <2>3, PlainMachines DEF MachineStep
  <2> QED BY <1>4, <2>1, <2>2, <2>3
<1>5. CASE CronRecover \/ CronFail
  BY <1>1, <1>2, <1>5, PlainCron
<1>6. CASE UNCHANGED vars
  BY <1>1, <1>2, <1>6, SameKeep, NoneSame DEF vars, store, Plain
<1> QED BY <1>3, <1>4, <1>5, <1>6 DEF Next

LEMMA IInvNext == IInv /\ [Next]_vars => IInv'
BY QInvNext, BatchingNext DEF IInv

LEMMA Invariant == Spec => []IInv
BY IInvInit, IInvNext, PTL DEF Spec

-----------------------------------------------------------------------------
(* Every variable keeps its type; in particular no scan inserts more than   *)
(* its batches, and the cron stops nothing but machines.                    *)
THEOREM TypeCorrect == Spec => []TypeOK
<1>1. IInv => TypeOK
  BY DEF IInv, QInv, Batching, Typed, RowTyped, WorkersTyped, CallTyped, PointersTyped,
         FindingsTyped, TypeOK
<1> QED BY Invariant, <1>1, PTL

(* The unique index and the recovery cron keep one queued or running scan   *)
(* per project and engine, although the pipeline writes rows by id alone.   *)
THEOREM OneActive == Spec => []OneActivePerSlot
<1>1. IInv => OneActivePerSlot
  BY DEF IInv, QInv, QueueInv
<1> QED BY Invariant, <1>1, PTL

(* Two workers on one scan never share a run_id, whatever attempt either of *)
(* them is in.                                                              *)
THEOREM DistinctRuns == Spec => []RunsDistinct
<1>1. IInv => RunsDistinct
  BY DEF IInv, QInv, QueueInv
<1> QED BY Invariant, <1>1, PTL

(* What active_dast_run_id shows, or can be rolled back to, is always a run *)
(* with every batch: commit_dast_target_run follows the last insert, and    *)
(* attempts of one scan that overlap write under run ids of their own.      *)
THEOREM WholeRuns == Spec => []ActiveRunIsWhole
<1>1. IInv => ActiveRunIsWhole
  BY DEF IInv, Batching
<1> QED BY Invariant, <1>1, PTL

(* A scan is reported as completed only when a run of its own is whole,     *)
(* although finalizeJob asks neither for the status nor for the claim.      *)
THEOREM HonestCompletion == Spec => []CompletedMeansInserted
<1>1. IInv => CompletedMeansInserted
  BY DEF IInv, Batching
<1> QED BY Invariant, <1>1, PTL

(* The scan_jobs rows of the DAST worker implement JobLease: by-id writes   *)
(* never open a settled scan again, deletions count as settled.             *)
THEOREM Refinement == Spec => ImplementsJobLease
<1>1. Init => Lease!Init
  BY LeaseInit DEF Init
<1>2. IInv /\ [Next]_vars => [Lease!Next]_(Lease!leaseVars)
  BY QInvNext DEF IInv
<1> QED BY Invariant, <1>1, <1>2, PTL DEF Spec, ImplementsJobLease, Lease!Spec

(* No DAST scan is claimed more often than max_attempts, and one that is    *)
(* queued always has an attempt left: nothing waits for a claim that        *)
(* claim_scan_job would refuse for ever.                                    *)
THEOREM BoundedAttempts == Spec => []QueueKept
BY Refinement, LeaseGivesQueue, PTL DEF ImplementsJobLease

(* A scan that is over, or deleted, stays over, although finalizeJob and    *)
(* the error path write the row by id and ask for neither its status nor    *)
(* its claim.                                                               *)
THEOREM EndsStay == Spec => [][SettledStays]_row
BY Refinement, LeaseGivesEnds, PTL DEF ImplementsJobLease
=============================================================================
