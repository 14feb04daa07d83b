----------------------- MODULE ExtractionWorkerProofs -----------------------
(***************************************************************************)
(* Proofs about ExtractionWorker, for any jobs, machines, MaxAttempts and  *)
(* MaxPerOrg: types, the properties of ScanQueue, and JobLease.  At the    *)
(* end, proofs about the generations of findings that the worker's runs    *)
(* leave (ExtractionRuns), for any number of runs and dependencies.        *)
(***************************************************************************)
EXTENDS ExtractionWorker, ExtractionRuns, ScanQueueProofs

-----------------------------------------------------------------------------
(* Type correctness.  WorkersTyped adds to TypeOK that a worker in the      *)
(* pipeline holds a job.                                                    *)
StallTyped ==
  stall \in [Machines -> [job : Jobs \cup {Null}, run : Nat, wrote : BOOLEAN]]

OthersTyped ==
  /\ call \in [Jobs -> {"none", "checked", "closed"}]
  /\ repo \in [Projects -> RepoStatus]
  /\ committed \subseteq Jobs
  /\ StallTyped
  /\ stalled \subseteq Jobs
  /\ canc \in [Projects -> [pc : {"none", "write", "repo", "stop"},
                            job : Jobs \cup {Null},
                            machine : Machines \cup {Null}]]
  /\ cron \in [pc : {"idle", "fail", "notify"}, todo : SUBSET Jobs]

Typed == RowTyped /\ WorkersTyped(WorkerPcs) /\ OthersTyped

LEMMA TypedTypeOK == Typed => TypeOK
BY DEF Typed, RowTyped, WorkersTyped, OthersTyped, StallTyped, TypeOK

LEMMA TypedInit == Init => Typed
<1> SUFFICES ASSUME Init PROVE Typed
  OBVIOUS
<1>1. RowTyped
  BY DEF Init, QueueInit, RowTyped, RowType, NoRow, Status
<1>2. WorkersTyped(WorkerPcs)
  BY DEF Init, QueueInit, WorkersTyped, WorkerType, WorkerPcs, Resting
<1>3. OthersTyped
  BY DEF Init, OthersTyped, StallTyped, RepoStatus, NoStall, NoCancel
<1> QED BY <1>1, <1>2, <1>3 DEF Typed

LEMMA Counters == WorkerPcs \cap {"off", "idle"} = {}
BY DEF WorkerPcs

LEMMA AnswersBoolean ==
  ASSUME Typed, NEW m \in Machines
  PROVE  Answers(m) \subseteq BOOLEAN
BY DEF Typed, WorkersTyped, WorkerType, Answers

LEMMA MarkTyped ==
  ASSUME Typed, NEW m \in Machines, Mark(m)
  PROVE  RowTyped'
<1> DEFINE j == wk[m].job
           s == IF row[j].status = "processing" THEN "completed" ELSE row[j].status
<1>1. s \in Status \/ j \notin Jobs
  BY DEF Typed, RowTyped, RowType, Status, Terminal
<1>2. row' = row \/ row' = [row EXCEPT ![j].status = s]
  BY DEF Mark
<1> HIDE DEF j, s
<1> QED BY <1>1, <1>2, StatusTyped DEF Typed, RowTyped

LEMMA StopTyped ==
  ASSUME Typed, NEW m, StopMachine(m) \/ UNCHANGED <<wk, stall>>
  PROVE  WorkersTyped(WorkerPcs)' /\ StallTyped'
<1>1. CASE StopMachine(m)
  <2>1. WorkersTyped(WorkerPcs)'
    BY <1>1, Counters, RestTyped DEF Typed, StopMachine, PowerOff
  <2>2. StallTyped'
    BY <1>1 DEF Typed, OthersTyped, StallTyped, StopMachine, NoStall
  <2> QED BY <2>1, <2>2
<1>2. CASE UNCHANGED <<wk, stall>>
  BY <1>2 DEF Typed, OthersTyped, StallTyped, WorkersTyped
<1> QED BY <1>1, <1>2

LEMMA TypedNext == Typed /\ [Next]_vars => Typed'
<1> SUFFICES ASSUME Typed, [Next]_vars PROVE Typed'
  OBVIOUS
<1> USE DEF Typed, others
<1>1. ASSUME NEW j \in Jobs, QueueCheck(j) PROVE Typed'
  BY <1>1 DEF QueueCheck, OthersTyped, StallTyped, RowTyped, WorkersTyped
<1>2. ASSUME NEW j \in Jobs, QueueInsert(j) PROVE Typed'
  <2>1. RowTyped'
    BY <1>2, InsertTyped DEF QueueInsert, RowTyped
  <2> QED BY <1>2, <2>1 DEF QueueInsert, OthersTyped, StallTyped, WorkersTyped
<1>3. ASSUME NEW j \in Jobs, Age(j) PROVE Typed'
  <2>1. RowTyped'
    BY <1>3, StaleTyped DEF Age, HeartbeatAges
  <2> QED BY <1>3, <2>1 DEF Age, OthersTyped, StallTyped, WorkersTyped, HeartbeatAges
<1>4. ASSUME NEW m \in Machines, BootMachine(m) PROVE Typed'
  <2>1. WorkersTyped(WorkerPcs)'
    BY <1>4, Counters, RestTyped DEF BootMachine, Boot
  <2> QED BY <1>4, <2>1 DEF BootMachine, OthersTyped, StallTyped, RowTyped, Boot
<1>5. ASSUME NEW m \in Machines, ExitIdle(m) PROVE Typed'
  <2>1. WorkersTyped(WorkerPcs)'
    BY <1>5, Counters, RestTyped DEF ExitIdle, IdleExit, PowerOff
  <2> QED BY <1>5, <2>1 DEF ExitIdle, OthersTyped, StallTyped, RowTyped, IdleExit
<1>6. ASSUME NEW m \in Machines, ClaimJob(m) PROVE Typed'
  <2>1. RowTyped'
    BY <1>6, ClaimRowTyped DEF ClaimJob, Claim
  <2>2. WorkersTyped(WorkerPcs)'
    BY <1>6, ClaimWorkerTyped DEF ClaimJob, Claim, WorkerPcs
  <2> QED BY <1>6, <2>1, <2>2 DEF ClaimJob, OthersTyped, StallTyped
<1>7. ASSUME NEW m \in Machines, SendHeartbeat(m) PROVE Typed'
  <2>1. RowTyped'
    BY <1>7, StaleTyped DEF SendHeartbeat, Heartbeat
  <2> QED BY <1>7, <2>1 DEF SendHeartbeat, OthersTyped, StallTyped, WorkersTyped, Heartbeat
<1>8. ASSUME NEW m \in Machines, Crash(m) PROVE Typed'
  <2>1. WorkersTyped(WorkerPcs)'
    BY <1>8, Counters, RestTyped DEF Crash, PowerOff
  <2> QED BY <1>8, <2>1 DEF Crash, OthersTyped, StallTyped, RowTyped, NoStall
<1>9. ASSUME NEW m \in Machines, Start(m) PROVE Typed'
  <2>1. WorkersTyped(WorkerPcs)'
    BY <1>9, AnswersBoolean DEF Start, CheckCancelled, WorkerType, WorkersTyped, WorkerPcs
  <2> QED BY <1>9, <2>1 DEF Start, OthersTyped, StallTyped, RowTyped, CheckCancelled
<1>10. ASSUME NEW m \in Machines, Clone(m) PROVE Typed'
  <2>1. WorkersTyped(WorkerPcs)'
    BY <1>10, GotoTyped DEF Clone, WorkersTyped, WorkerPcs
  <2> QED BY <1>10, <2>1 DEF Clone, OthersTyped, StallTyped, RowTyped, SetRepo, RepoStatus
<1>11. ASSUME NEW m \in Machines, Stages(m) PROVE Typed'
  <2>1. WorkersTyped(WorkerPcs)'
    BY <1>11, AnswersBoolean DEF Stages, CheckCancelled, WorkerType, WorkersTyped, WorkerPcs
  <2> QED BY <1>11, <2>1 DEF Stages, OthersTyped, StallTyped, RowTyped, CheckCancelled
<1>12. ASSUME NEW m \in Machines, StageThrows(m) PROVE Typed'
  <2>1. WorkersTyped(WorkerPcs)'
    BY <1>12, GotoTyped DEF StageThrows, WorkersTyped, WorkerPcs
  <2> QED BY <1>12, <2>1 DEF StageThrows, OthersTyped, StallTyped, RowTyped, SetRepo, RepoStatus
<1>13. ASSUME NEW m \in Machines, FinalizeRpc(m) PROVE Typed'
  <2>1. WorkersTyped(WorkerPcs)'
    BY <1>13, GotoTyped DEF FinalizeRpc, WorkersTyped, WorkerPcs
  <2> QED BY <1>13, <2>1 DEF FinalizeRpc, OthersTyped, StallTyped, RowTyped, WorkersTyped, WorkerPcs
<1>14. ASSUME NEW m \in Machines, Mark(m) PROVE Typed'
  <2>1. RowTyped'
    BY <1>14, MarkTyped DEF Mark
  <2>2. WorkersTyped(WorkerPcs)'
    BY <1>14, GotoTyped DEF Mark, WorkersTyped, WorkerPcs
  <2> QED BY <1>14, <2>1, <2>2 DEF Mark, OthersTyped, StallTyped
<1>15. ASSUME NEW m \in Machines, RepoWrite(m) PROVE Typed'
  <2>1. WorkersTyped(WorkerPcs)'
    BY <1>15, GotoTyped DEF RepoWrite, WorkersTyped, WorkerPcs
  <2> QED BY <1>15, <2>1 DEF RepoWrite, OthersTyped, StallTyped, RowTyped, SetRepo, RepoStatus
<1>16. ASSUME NEW m \in Machines, Post(m) PROVE Typed'
  <2>1. WorkersTyped(WorkerPcs)'
    BY <1>16, AnswersBoolean DEF Post, WorkerType, WorkersTyped, WorkerPcs
  <2> QED BY <1>16, <2>1 DEF Post, OthersTyped, StallTyped, RowTyped
<1>17. ASSUME NEW m \in Machines, WriteCompleted(m) PROVE Typed'
  <2>1. RowTyped'
    BY <1>17, OwnedTyped DEF WriteCompleted, WriteTerminal, RowTyped, Status, Terminal
  <2>2. WorkersTyped(WorkerPcs)'
    BY <1>17, Counters, RestTyped DEF WriteCompleted, WriteTerminal, Release
  <2> QED BY <1>17, <2>1, <2>2 DEF WriteCompleted, OthersTyped, StallTyped, WriteTerminal
<1>18. ASSUME NEW m \in Machines, WriteFailed(m) PROVE Typed'
  <2>1. RowTyped'
    BY <1>18, OwnedTyped DEF WriteFailed, WriteTerminal, RowTyped, Status, Terminal
  <2>2. WorkersTyped(WorkerPcs)'
    BY <1>18, Counters, RestTyped DEF WriteFailed, WriteTerminal, Release
  <2> QED BY <1>18, <2>1, <2>2 DEF WriteFailed, OthersTyped, StallTyped, WriteTerminal
<1>19. ASSUME NEW m \in Machines, SoftStall(m) PROVE Typed'
  BY <1>19 DEF SoftStall, OthersTyped, StallTyped, RowTyped, Busy, WorkersTyped, WorkerType
<1>20. ASSUME NEW m \in Machines, StallWrite(m) PROVE Typed'
  <2>1. RowTyped'
    BY <1>20, OwnedTyped DEF StallWrite, Status, Terminal
  <2> QED BY <1>20, <2>1 DEF StallWrite, OthersTyped, StallTyped, WorkersTyped
<1>21. ASSUME NEW m \in Machines, StallExit(m) PROVE Typed'
  <2>1. WorkersTyped(WorkerPcs)'
    BY <1>21, Counters, RestTyped DEF StallExit, PowerOff
  <2> QED BY <1>21, <2>1 DEF StallExit, OthersTyped, StallTyped, RowTyped, NoStall
<1>22. ASSUME NEW p \in Projects, CancelChoose(p) PROVE Typed'
  BY <1>22 DEF CancelChoose, OthersTyped, StallTyped, WorkersTyped, RowTyped, RowType
<1>23. ASSUME NEW p \in Projects, CancelWrite(p) PROVE Typed'
  <2>1. RowTyped'
    BY <1>23, SetStatusTyped DEF CancelWrite, Status, Terminal
  <2> QED BY <1>23, <2>1 DEF CancelWrite, OthersTyped, StallTyped, WorkersTyped
<1>24. ASSUME NEW p \in Projects, CancelRepo(p) PROVE Typed'
  BY <1>24 DEF CancelRepo, OthersTyped, StallTyped, RowTyped, WorkersTyped, SetRepo, RepoStatus, NoCancel
<1>25. ASSUME NEW p \in Projects, CancelStop(p) PROVE Typed'
  <2>1. WorkersTyped(WorkerPcs)' /\ StallTyped'
    BY <1>25, StopTyped DEF CancelStop
  <2> QED BY <1>25, <2>1 DEF CancelStop, OthersTyped, RowTyped, StallTyped, NoCancel
<1>26. ASSUME NEW p \in Projects, CancelLost(p) PROVE Typed'
  BY <1>26 DEF CancelLost, OthersTyped, StallTyped, RowTyped, WorkersTyped, NoCancel
<1>27. CASE CronRecover
  <2>1. RowTyped'
    BY <1>27, RecoverTyped DEF CronRecover
  <2> QED BY <1>27, <2>1 DEF CronRecover, OthersTyped, StallTyped, WorkersTyped
<1>28. CASE CronSkip
  BY <1>28 DEF CronSkip, OthersTyped, StallTyped, RowTyped, WorkersTyped
<1>29. CASE CronFail
  <2>1. RowTyped'
    BY <1>29, FailTyped DEF CronFail
  <2> QED BY <1>29, <2>1 DEF CronFail, OthersTyped, StallTyped, WorkersTyped, Exhausted
<1>30. ASSUME NEW j \in Jobs, CronNotify(j) PROVE Typed'
  <2>1. WorkersTyped(WorkerPcs)' /\ StallTyped'
    BY <1>30, StopTyped DEF CronNotify
  <2> QED BY <1>30, <2>1 DEF CronNotify, OthersTyped, RowTyped, StallTyped, SetRepo, RepoStatus
<1>31. CASE CronLost
  BY <1>31 DEF CronLost, OthersTyped, StallTyped, RowTyped, WorkersTyped
<1>32. CASE UNCHANGED vars
  BY <1>32 DEF vars, RowTyped, WorkersTyped, OthersTyped, StallTyped
<1> QED
  BY <1>1, <1>2, <1>3, <1>4, <1>5, <1>6, <1>7, <1>8, <1>9, <1>10, <1>11, <1>12, <1>13, <1>14,
     <1>15, <1>16, <1>17, <1>18, <1>19, <1>20, <1>21, <1>22, <1>23, <1>24, <1>25, <1>26, <1>27, <1>28,
     <1>29, <1>30, <1>31, <1>32
     DEF Next, MachineStep, WorkerStep, Watchdog, CancelStep, CronStep

-----------------------------------------------------------------------------
(* The invariant of the requests: a request that has not inserted yet has   *)
(* no row, and a cancel writes only a row that exists.                      *)
Requests ==
  /\ \A j \in Jobs : call[j] # "closed" => row[j].status = "absent"
  /\ \A p \in Projects :
       canc[p].pc = "write" => /\ canc[p].job \in Jobs
                               /\ row[canc[p].job].status # "absent"

IInv == Typed /\ QueueInv /\ Requests

RequestsQuiet ==
  /\ \A j \in Jobs : call'[j] # "closed" => call[j] # "closed"
  /\ \A p \in Projects :
       canc'[p].pc = "write" => /\ canc'[p].job \in Jobs
                                /\ row[canc'[p].job].status # "absent"

Quiet == RowsQuiet /\ WorkersQuiet /\ RequestsQuiet

LEMMA IInvInit == Init => IInv
<1> SUFFICES ASSUME Init PROVE IInv
  OBVIOUS
<1>1. Typed /\ QueueInv
  BY TypedInit, QueueInitInv DEF Init
<1>2. Requests
  BY DEF Init, QueueInit, NoRow, NoCancel, Requests
<1> QED BY <1>1, <1>2 DEF IInv

LEMMA TypedQueue == Typed => QueueTyped
BY WorkersTypedClaim DEF Typed, QueueTyped

LEMMA QuietKeeps ==
  ASSUME IInv, Typed', Quiet
  PROVE  IInv' /\ \E S \in SUBSET Jobs : Lease!Settle(S)
<1>1. QueueInv'
  BY TypedQueue, QuietStep DEF IInv, Quiet, Typed, WorkersTyped, QueueTyped, ClaimTyped, RowTyped, WorkerType
<1>2. Requests'
  BY DEF IInv, Quiet, Requests, RequestsQuiet, RowsQuiet, RowQuiet, Terminal
<1>3. \E S \in SUBSET Jobs : Lease!Settle(S)
  BY TypedQueue, QuietLease DEF IInv, Quiet, Typed, WorkersTyped, QueueTyped, ClaimTyped, RowTyped, WorkerType
<1> QED BY <1>1, <1>2, <1>3 DEF IInv

LEMMA HeartbeatQuiet ==
  ASSUME IInv, NEW m \in Machines, Heartbeat(m)
  PROVE  RowsQuiet
<1>1. wk[m].job \in Jobs /\ row[wk[m].job].status # "absent"
  BY QueueAssumption
     DEF Heartbeat, OwnedBy, Busy, IInv, Typed, WorkersTyped, WorkerType, QueueInv, Unclaimed
<1> QED BY <1>1, StaleQuiet DEF Heartbeat, IInv, Typed

LEMMA MarkQuiet ==
  ASSUME IInv, NEW m \in Machines, Mark(m)
  PROVE  RowsQuiet
<1> DEFINE j == wk[m].job
           s == IF row[j].status = "processing" THEN "completed" ELSE row[j].status
<1>1. j \in Jobs => \/ s = row[j].status
                    \/ s \in Terminal /\ row[j].status # "absent"
  BY DEF Terminal
<1>2. row' = row \/ row' = [row EXCEPT ![j].status = s]
  BY DEF Mark
<1> HIDE DEF j, s
<1> QED BY <1>1, <1>2, SameQuiet, StatusQuiet DEF IInv, Typed

(* Every action is quiet, or is one of the three others.                    *)
LEMMA QuietActions ==
  ASSUME IInv, [Next]_vars
  PROVE  \/ Quiet
         \/ \E j \in Jobs : QueueInsert(j)
         \/ \E m \in Machines : ClaimJob(m)
         \/ CronRecover
<1> USE DEF IInv, others
<1>1. ASSUME NEW j \in Jobs, QueueCheck(j) PROVE Quiet
  <2>1. RowsQuiet
    BY <1>1, SameQuiet DEF QueueCheck
  <2>2. WorkersQuiet
    BY <1>1 DEF QueueCheck, WorkersQuiet
  <2>3. RequestsQuiet
    BY <1>1 DEF QueueCheck, Typed, OthersTyped, Requests, RequestsQuiet
  <2> QED BY <2>1, <2>2, <2>3 DEF Quiet
<1>2. ASSUME NEW j \in Jobs, Age(j) PROVE Quiet
  <2>1. RowsQuiet
    BY <1>2, StaleQuiet DEF Age, HeartbeatAges, Typed
  <2>2. WorkersQuiet
    BY <1>2 DEF Age, HeartbeatAges, WorkersQuiet
  <2>3. RequestsQuiet
    BY <1>2 DEF Age, HeartbeatAges, Requests, RequestsQuiet
  <2> QED BY <2>1, <2>2, <2>3 DEF Quiet
<1>3. ASSUME NEW m \in Machines, BootMachine(m) PROVE Quiet
  <2>1. RowsQuiet
    BY <1>3, SameQuiet DEF BootMachine, Boot
  <2>2. WorkersQuiet
    BY <1>3, RestQuiet DEF BootMachine, Boot, Typed
  <2>3. RequestsQuiet
    BY <1>3 DEF BootMachine, Boot, Requests, RequestsQuiet
  <2> QED BY <2>1, <2>2, <2>3 DEF Quiet
<1>4. ASSUME NEW m \in Machines, ExitIdle(m) PROVE Quiet
  <2>1. RowsQuiet
    BY <1>4, SameQuiet DEF ExitIdle, IdleExit
  <2>2. WorkersQuiet
    BY <1>4, RestQuiet DEF ExitIdle, IdleExit, PowerOff, Typed
  <2>3. RequestsQuiet
    BY <1>4 DEF ExitIdle, IdleExit, Requests, RequestsQuiet
  <2> QED BY <2>1, <2>2, <2>3 DEF Quiet
<1>5. ASSUME NEW m \in Machines, SendHeartbeat(m) PROVE Quiet
  <2>1. RowsQuiet
    BY <1>5, HeartbeatQuiet DEF SendHeartbeat
  <2>2. WorkersQuiet
    BY <1>5 DEF SendHeartbeat, Heartbeat, WorkersQuiet
  <2>3. RequestsQuiet
    BY <1>5 DEF SendHeartbeat, Heartbeat, Requests, RequestsQuiet
  <2> QED BY <2>1, <2>2, <2>3 DEF Quiet
<1>6. ASSUME NEW m \in Machines, Crash(m) PROVE Quiet
  <2>1. RowsQuiet
    BY <1>6, SameQuiet DEF Crash
  <2>2. WorkersQuiet
    BY <1>6, RestQuiet DEF Crash, PowerOff, Typed
  <2>3. RequestsQuiet
    BY <1>6 DEF Crash, Requests, RequestsQuiet
  <2> QED BY <2>1, <2>2, <2>3 DEF Quiet
<1>7. ASSUME NEW m \in Machines, Start(m) PROVE Quiet
  <2>1. RowsQuiet
    BY <1>7, SameQuiet DEF Start, CheckCancelled
  <2>2. WorkersQuiet
    BY <1>7 DEF Start, CheckCancelled, WorkersQuiet, Typed, WorkersTyped, WorkerType
  <2>3. RequestsQuiet
    BY <1>7 DEF Start, CheckCancelled, Requests, RequestsQuiet
  <2> QED BY <2>1, <2>2, <2>3 DEF Quiet
<1>8. ASSUME NEW m \in Machines, Clone(m) PROVE Quiet
  <2>1. RowsQuiet
    BY <1>8, SameQuiet DEF Clone
  <2>2. WorkersQuiet
    BY <1>8, GotoQuiet DEF Clone, Typed
  <2>3. RequestsQuiet
    BY <1>8 DEF Clone, Requests, RequestsQuiet
  <2> QED BY <2>1, <2>2, <2>3 DEF Quiet
<1>9. ASSUME NEW m \in Machines, Stages(m) PROVE Quiet
  <2>1. RowsQuiet
    BY <1>9, SameQuiet DEF Stages, CheckCancelled
  <2>2. WorkersQuiet
    BY <1>9 DEF Stages, CheckCancelled, WorkersQuiet, Typed, WorkersTyped, WorkerType
  <2>3. RequestsQuiet
    BY <1>9 DEF Stages, CheckCancelled, Requests, RequestsQuiet
  <2> QED BY <2>1, <2>2, <2>3 DEF Quiet
<1>10. ASSUME NEW m \in Machines, StageThrows(m) PROVE Quiet
  <2>1. RowsQuiet
    BY <1>10, SameQuiet DEF StageThrows
  <2>2. WorkersQuiet
    BY <1>10, GotoQuiet DEF StageThrows, Typed
  <2>3. RequestsQuiet
    BY <1>10 DEF StageThrows, Requests, RequestsQuiet
  <2> QED BY <2>1, <2>2, <2>3 DEF Quiet
<1>11. ASSUME NEW m \in Machines, FinalizeRpc(m) PROVE Quiet
  <2>1. RowsQuiet
    BY <1>11, SameQuiet DEF FinalizeRpc
  <2>2. WorkersQuiet
    BY <1>11, GotoQuiet DEF FinalizeRpc, Typed
  <2>3. RequestsQuiet
    BY <1>11 DEF FinalizeRpc, Requests, RequestsQuiet
  <2> QED BY <2>1, <2>2, <2>3 DEF Quiet
<1>12. ASSUME NEW m \in Machines, Mark(m) PROVE Quiet
  <2>1. RowsQuiet
    BY <1>12, MarkQuiet DEF Mark
  <2>2. WorkersQuiet
    BY <1>12, GotoQuiet DEF Mark, Typed
  <2>3. RequestsQuiet
    BY <1>12 DEF Mark, Requests, RequestsQuiet
  <2> QED BY <2>1, <2>2, <2>3 DEF Quiet
<1>13. ASSUME NEW m \in Machines, RepoWrite(m) PROVE Quiet
  <2>1. RowsQuiet
    BY <1>13, SameQuiet DEF RepoWrite
  <2>2. WorkersQuiet
    BY <1>13, GotoQuiet DEF RepoWrite, Typed
  <2>3. RequestsQuiet
    BY <1>13 DEF RepoWrite, Requests, RequestsQuiet
  <2> QED BY <2>1, <2>2, <2>3 DEF Quiet
<1>14. ASSUME NEW m \in Machines, Post(m) PROVE Quiet
  <2>1. RowsQuiet
    BY <1>14, SameQuiet DEF Post
  <2>2. WorkersQuiet
    BY <1>14 DEF Post, WorkersQuiet, Typed, WorkersTyped, WorkerType
  <2>3. RequestsQuiet
    BY <1>14 DEF Post, Requests, RequestsQuiet
  <2> QED BY <2>1, <2>2, <2>3 DEF Quiet
<1>15. ASSUME NEW m \in Machines, WriteCompleted(m) PROVE Quiet
  <2>1. RowsQuiet
    BY <1>15, SameQuiet, OwnedQuiet DEF WriteCompleted, WriteTerminal, Typed, Terminal
  <2>2. WorkersQuiet
    BY <1>15, RestQuiet DEF WriteCompleted, WriteTerminal, Release, Typed
  <2>3. RequestsQuiet
    BY <1>15 DEF WriteCompleted, WriteTerminal, Requests, RequestsQuiet
  <2> QED BY <2>1, <2>2, <2>3 DEF Quiet
<1>16. ASSUME NEW m \in Machines, WriteFailed(m) PROVE Quiet
  <2>1. RowsQuiet
    BY <1>16, SameQuiet, OwnedQuiet DEF WriteFailed, WriteTerminal, Typed, Terminal
  <2>2. WorkersQuiet
    BY <1>16, RestQuiet DEF WriteFailed, WriteTerminal, Release, Typed
  <2>3. RequestsQuiet
    BY <1>16 DEF WriteFailed, WriteTerminal, Requests, RequestsQuiet
  <2> QED BY <2>1, <2>2, <2>3 DEF Quiet
<1>17. ASSUME NEW m \in Machines, SoftStall(m) PROVE Quiet
  <2>1. RowsQuiet
    BY <1>17, SameQuiet DEF SoftStall
  <2>2. WorkersQuiet
    BY <1>17 DEF SoftStall, WorkersQuiet
  <2>3. RequestsQuiet
    BY <1>17 DEF SoftStall, Requests, RequestsQuiet
  <2> QED BY <2>1, <2>2, <2>3 DEF Quiet
<1>18. ASSUME NEW m \in Machines, StallWrite(m) PROVE Quiet
  <2>1. RowsQuiet
    BY <1>18, OwnedQuiet DEF StallWrite, Typed, Terminal
  <2>2. WorkersQuiet
    BY <1>18 DEF StallWrite, WorkersQuiet
  <2>3. RequestsQuiet
    BY <1>18 DEF StallWrite, Requests, RequestsQuiet
  <2> QED BY <2>1, <2>2, <2>3 DEF Quiet
<1>19. ASSUME NEW m \in Machines, StallExit(m) PROVE Quiet
  <2>1. RowsQuiet
    BY <1>19, SameQuiet DEF StallExit
  <2>2. WorkersQuiet
    BY <1>19, RestQuiet DEF StallExit, PowerOff, Typed
  <2>3. RequestsQuiet
    BY <1>19 DEF StallExit, Requests, RequestsQuiet
  <2> QED BY <2>1, <2>2, <2>3 DEF Quiet
<1>20. ASSUME NEW p \in Projects, CancelChoose(p) PROVE Quiet
  <2>1. RowsQuiet
    BY <1>20, SameQuiet DEF CancelChoose
  <2>2. WorkersQuiet
    BY <1>20 DEF CancelChoose, WorkersQuiet
  <2>3. RequestsQuiet
    BY <1>20 DEF CancelChoose, Typed, OthersTyped, NoCancel, Active, Requests, RequestsQuiet
  <2> QED BY <2>1, <2>2, <2>3 DEF Quiet
<1>21. ASSUME NEW p \in Projects, CancelWrite(p) PROVE Quiet
  <2>1. RowsQuiet
    BY <1>21, SetStatusQuiet DEF CancelWrite, Requests, Typed, Terminal
  <2>2. WorkersQuiet
    BY <1>21 DEF CancelWrite, WorkersQuiet
  <2>3. RequestsQuiet
    BY <1>21 DEF CancelWrite, Typed, OthersTyped, NoCancel, Requests, RequestsQuiet
  <2> QED BY <2>1, <2>2, <2>3 DEF Quiet
<1>22. ASSUME NEW p \in Projects, CancelRepo(p) PROVE Quiet
  <2>1. RowsQuiet
    BY <1>22, SameQuiet DEF CancelRepo
  <2>2. WorkersQuiet
    BY <1>22 DEF CancelRepo, WorkersQuiet
  <2>3. RequestsQuiet
    BY <1>22 DEF CancelRepo, Typed, OthersTyped, NoCancel, Requests, RequestsQuiet
  <2> QED BY <2>1, <2>2, <2>3 DEF Quiet
<1>23. ASSUME NEW p \in Projects, CancelStop(p) PROVE Quiet
  <2>1. RowsQuiet
    BY <1>23, SameQuiet DEF CancelStop
  <2>2. WorkersQuiet
    BY <1>23, RestQuiet DEF CancelStop, StopMachine, PowerOff, Typed, WorkersQuiet
  <2>3. RequestsQuiet
    BY <1>23 DEF CancelStop, Typed, OthersTyped, NoCancel, Requests, RequestsQuiet
  <2> QED BY <2>1, <2>2, <2>3 DEF Quiet
<1>24. ASSUME NEW p \in Projects, CancelLost(p) PROVE Quiet
  <2>1. RowsQuiet
    BY <1>24, SameQuiet DEF CancelLost
  <2>2. WorkersQuiet
    BY <1>24 DEF CancelLost, WorkersQuiet
  <2>3. RequestsQuiet
    BY <1>24 DEF CancelLost, Typed, OthersTyped, NoCancel, Requests, RequestsQuiet
  <2> QED BY <2>1, <2>2, <2>3 DEF Quiet
<1>25. CASE CronSkip
  <2>1. RowsQuiet
    BY <1>25, SameQuiet DEF CronSkip
  <2>2. WorkersQuiet
    BY <1>25 DEF CronSkip, WorkersQuiet
  <2>3. RequestsQuiet
    BY <1>25 DEF CronSkip, Requests, RequestsQuiet
  <2> QED BY <2>1, <2>2, <2>3 DEF Quiet
<1>26. CASE CronFail
  <2>1. RowsQuiet
    BY <1>26, FailQuiet DEF CronFail, Typed
  <2>2. WorkersQuiet
    BY <1>26 DEF CronFail, WorkersQuiet
  <2>3. RequestsQuiet
    BY <1>26 DEF CronFail, Requests, RequestsQuiet
  <2> QED BY <2>1, <2>2, <2>3 DEF Quiet
<1>27. ASSUME NEW j \in Jobs, CronNotify(j) PROVE Quiet
  <2>1. RowsQuiet
    BY <1>27, SameQuiet DEF CronNotify
  <2>2. WorkersQuiet
    BY <1>27, RestQuiet DEF CronNotify, StopMachine, PowerOff, Typed, WorkersQuiet
  <2>3. RequestsQuiet
    BY <1>27 DEF CronNotify, Requests, RequestsQuiet
  <2> QED BY <2>1, <2>2, <2>3 DEF Quiet
<1>28. CASE CronLost
  <2>1. RowsQuiet
    BY <1>28, SameQuiet DEF CronLost
  <2>2. WorkersQuiet
    BY <1>28 DEF CronLost, WorkersQuiet
  <2>3. RequestsQuiet
    BY <1>28 DEF CronLost, Requests, RequestsQuiet
  <2> QED BY <2>1, <2>2, <2>3 DEF Quiet
<1>29. CASE UNCHANGED vars
  BY <1>29, SameQuiet DEF vars, Quiet, WorkersQuiet, Requests, RequestsQuiet
<1> QED
  BY <1>1, <1>2, <1>3, <1>4, <1>5, <1>6, <1>7, <1>8, <1>9, <1>10, <1>11, <1>12,
     <1>13, <1>14, <1>15, <1>16, <1>17, <1>18, <1>19, <1>20, <1>21, <1>22, <1>23, <1>24,
     <1>25, <1>26, <1>27, <1>28, <1>29
     DEF Next, MachineStep, WorkerStep, Watchdog, CancelStep, CronStep

LEMMA IInvNext ==
  ASSUME IInv, [Next]_vars
  PROVE  IInv' /\ [Lease!Next]_(Lease!leaseVars)
<1>1. Typed'
  BY TypedNext DEF IInv
<1>2. QueueTyped
  BY TypedQueue DEF IInv
<1>3. CASE Quiet
  BY <1>1, <1>3, QuietKeeps DEF Lease!Next
<1>4. ASSUME NEW j \in Jobs, QueueInsert(j)
      PROVE  IInv' /\ [Lease!Next]_(Lease!leaseVars)
  <2>1. row[j].status = "absent"
    BY <1>4 DEF QueueInsert, IInv, Requests
  <2>2. CASE SlotFree(j)
    <3>1. InsertRow(j) /\ wk' = wk
      BY <1>4, <2>2 DEF QueueInsert
    <3>2. QueueInv' /\ Lease!Submit(j)
      BY <1>2, <2>1, <2>2, <3>1, InsertStep, InsertLease DEF IInv
    <3>3. Requests'
      BY <1>4, <3>1 DEF QueueInsert, InsertRow, NoRow, IInv, Typed, RowTyped, OthersTyped, Requests
    <3> QED BY <1>1, <3>2, <3>3 DEF IInv, Lease!Next
  <2>3. CASE ~SlotFree(j)
    <3>1. Quiet
      BY <1>4, <2>3, SameQuiet
         DEF QueueInsert, Quiet, WorkersQuiet, RequestsQuiet, IInv, Requests, Typed, OthersTyped
    <3> QED BY <1>1, <3>1, QuietKeeps DEF Lease!Next
  <2> QED BY <2>2, <2>3
<1>5. ASSUME NEW m \in Machines, ClaimJob(m)
      PROVE  IInv' /\ [Lease!Next]_(Lease!leaseVars)
  <2>1. PICK j \in Jobs :
          /\ row[j].status = "queued" /\ ClaimRow(j, m)
          /\ wk' = [wk EXCEPT ![m] = [pc |-> "start", job |-> j, run |-> row[j].run,
                                      known |-> FALSE]]
    BY <1>5 DEF ClaimJob, Claim, Claimable
  <2>2. /\ wk'[m].job = j /\ wk'[m].run = row[j].run
        /\ \A n \in Machines \ {m} : wk'[n] = wk[n]
    BY <2>1 DEF IInv, Typed, WorkersTyped
  <2>3. QueueInv' /\ Lease!Grant(j)
    BY <1>2, <2>1, <2>2, ClaimStep, ClaimLease DEF IInv
  <2>4. Requests'
    BY <1>5, <2>1 DEF ClaimJob, ClaimRow, others, IInv, Typed, RowTyped, Requests
  <2> QED BY <1>1, <2>3, <2>4 DEF IInv, Lease!Next
<1>6. CASE CronRecover
  <2>1. QueueInv' /\ Lease!HandBack(Recoverable)
    BY <1>2, <1>6, RecoverStep, RecoverLease DEF CronRecover, IInv
  <2>2. Requests'
    BY <1>6 DEF CronRecover, RecoverStuck, Recoverable, Stuck, Requeued, IInv, Requests
  <2> QED BY <1>1, <2>1, <2>2 DEF IInv, Lease!Next, Recoverable
<1> QED BY <1>3, <1>4, <1>5, <1>6, QuietActions

-----------------------------------------------------------------------------
(* CompletedMeansCommitted.  A worker on the way to 'completed' has the     *)
(* commit of its job behind it, or a soft stall has written on the row, or  *)
(* recovery has moved the row on to another run_id; or the row is cancelled *)
(* and the worker knows it, so that its last look will say so again.        *)
Backed(m) ==
  wk[m].job \in committed \cup stalled \/ wk[m].run < row[wk[m].job].run
Verdict(m) ==
  /\ wk[m].pc \in {"start", "clone", "stages", "finalize"} => ~wk[m].known
  /\ wk[m].pc \in {"mark", "repo"} => wk[m].job \in committed
  /\ wk[m].pc = "post" => Backed(m) \/ (row[wk[m].job].status = "cancelled" /\ wk[m].known)
  /\ wk[m].pc = "done" => Backed(m)
Verdicts == CompletedMeansCommitted /\ \A m \in Machines : Verdict(m)

(* What a step does to the rows that the verdicts rest on.                  *)
RowsKeep ==
  \A j \in Jobs :
    /\ row[j].run <= row'[j].run
    /\ row[j].status = "cancelled" => row'[j].status = "cancelled" \/ j \in stalled'
    /\ row'[j].status = "completed" => row[j].status = "completed" \/ j \in committed'
Growing == committed \subseteq committed' /\ stalled \subseteq stalled'

LEMMA SameKeep == ASSUME RowTyped, UNCHANGED row PROVE RowsKeep
BY DEF RowTyped, RowType, RowsKeep

LEMMA VerdictStays ==
  ASSUME Typed, NEW m \in Machines, Verdict(m), wk'[m] = wk[m], RowsKeep, Growing,
         row' \in [Jobs -> RowType]
  PROVE  Verdict(m)'
<1>1. CASE wk[m].pc \notin WorkerPcs
  BY <1>1 DEF Verdict, WorkerPcs
<1>2. CASE wk[m].pc \in WorkerPcs
  <2>1. wk[m].job \in Jobs /\ wk[m].run \in Nat
    BY <1>2 DEF Typed, WorkersTyped, WorkerType
  <2>2. row[wk[m].job].run \in Nat /\ row'[wk[m].job].run \in Nat
    BY <2>1 DEF Typed, RowTyped, RowType
  <2>3. Backed(m) => Backed(m)'
    BY <2>1, <2>2 DEF Backed, RowsKeep, Growing
  <2>4. row[wk[m].job].status = "cancelled" => Backed(m)' \/ row'[wk[m].job].status = "cancelled"
    BY <2>1 DEF Backed, RowsKeep
  <2> QED BY <2>3, <2>4 DEF Verdict, Growing
<1> QED BY <1>1, <1>2

(* A step that moves at most one worker.                                    *)
LEMMA OneMoves ==
  ASSUME Typed, Typed', Verdicts, RowsKeep, Growing, NEW m,
         \A n \in Machines \ {m} : wk'[n] = wk[n],
         m \in Machines => Verdict(m)'
  PROVE  Verdicts'
<1>1. \A n \in Machines : Verdict(n)'
  BY VerdictStays DEF Verdicts, Typed, RowTyped
<1>2. CompletedMeansCommitted'
  BY DEF Verdicts, CompletedMeansCommitted, RowsKeep, Growing
<1> QED BY <1>1, <1>2 DEF Verdicts

LEMMA NoneMoves ==
  ASSUME Typed, Typed', Verdicts, RowsKeep, Growing, UNCHANGED wk
  PROVE  Verdicts'
<1>1. \A n \in Machines : Verdict(n)'
  BY VerdictStays DEF Verdicts, Typed, RowTyped
<1>2. CompletedMeansCommitted'
  BY DEF Verdicts, CompletedMeansCommitted, RowsKeep, Growing
<1> QED BY <1>1, <1>2 DEF Verdicts

LEMMA OneRests ==
  ASSUME Typed, Typed', Verdicts, RowsKeep, Growing, NEW m, NEW p \in {"off", "idle"},
         wk' = [wk EXCEPT ![m] = Resting(p)]
  PROVE  Verdicts'
<1>1. \A n \in Machines \ {m} : wk'[n] = wk[n]
  BY DEF Typed, WorkersTyped
<1>2. m \in Machines => Verdict(m)'
  BY DEF Typed, WorkersTyped, Resting, Verdict
<1> QED BY <1>1, <1>2, OneMoves

(* Requests and the cron: no worker takes a step of the pipeline.           *)
LEMMA VerdictsRequests ==
  ASSUME IInv, Typed', Verdicts,
         \/ \E j \in Jobs : QueueCheck(j) \/ QueueInsert(j) \/ Age(j)
         \/ \E p \in Projects : CancelStep(p)
         \/ CronStep
  PROVE  Verdicts'
<1>1. Typed /\ RowTyped /\ Growing
  BY DEF QueueCheck, QueueInsert, Age, CancelStep, CancelChoose, CancelWrite, CancelRepo,
     CancelStop, CancelLost, CronStep, CronRecover, CronSkip, CronFail, CronLost, CronNotify,
     others, Growing, IInv, Typed
<1>2. RowsKeep
  <2>1. CASE UNCHANGED row
    BY <1>1, <2>1, SameKeep
  <2>2. ASSUME NEW j \in Jobs, QueueInsert(j), row' # row PROVE RowsKeep
    <3>1. row[j] = NoRow
      BY <2>2 DEF QueueInsert, IInv, Requests, QueueInv, Unclaimed
    <3>2. \A k \in Jobs : row[k].run \in Nat
      BY <1>1 DEF RowTyped, RowType
    <3> QED BY <1>1, <2>2, <3>1, <3>2 DEF QueueInsert, InsertRow, RowTyped, NoRow, RowsKeep
  <2>3. ASSUME NEW j \in Jobs, Age(j) PROVE RowsKeep
    BY <1>1, <2>3 DEF Age, HeartbeatAges, RowTyped, RowType, RowsKeep
  <2>4. ASSUME NEW p \in Projects, CancelWrite(p) PROVE RowsKeep
    BY <1>1, <2>4 DEF CancelWrite, SetStatus, RowTyped, RowType, RowsKeep
  <2>5. CASE CronRecover
    BY <1>1, <2>5 DEF CronRecover, RecoverStuck, Recoverable, Stuck, Requeued, RowTyped, RowType,
       RowsKeep
  <2>6. CASE CronFail
    BY <1>1, <2>6 DEF CronFail, FailExhausted, Exhausted, Stuck, RowTyped, RowType, RowsKeep
  <2> QED BY <2>1, <2>2, <2>3, <2>4, <2>5, <2>6
          DEF QueueCheck, CancelStep, CancelChoose, CancelRepo, CancelStop, CancelLost,
              CronStep, CronSkip, CronLost, CronNotify
<1>3. CASE UNCHANGED wk
  BY <1>1, <1>2, <1>3, NoneMoves
<1>4. CASE \E m : StopMachine(m)
  BY <1>1, <1>2, <1>4, OneRests DEF StopMachine, PowerOff
<1> QED BY <1>3, <1>4
        DEF QueueCheck, QueueInsert, Age, HeartbeatAges, CancelStep, CancelChoose, CancelWrite,
            CancelRepo, CancelStop, CancelLost, CronStep, CronRecover, CronSkip, CronFail,
            CronLost, CronNotify

(* The machine, its claim and its watchdog.                                 *)
LEMMA VerdictsMachine ==
  ASSUME IInv, Typed', Verdicts, NEW m \in Machines,
         \/ BootMachine(m) \/ ExitIdle(m) \/ ClaimJob(m) \/ SendHeartbeat(m) \/ Crash(m)
         \/ Watchdog(m)
  PROVE  Verdicts'
<1>1. Typed /\ RowTyped /\ Growing
  BY DEF BootMachine, ExitIdle, ClaimJob, SendHeartbeat, Crash, Watchdog, SoftStall, StallWrite,
     StallExit, others, Growing, IInv, Typed
<1>2. CASE BootMachine(m) \/ ExitIdle(m) \/ Crash(m) \/ StallExit(m)
  <2>1. RowsKeep
    BY <1>1, <1>2, SameKeep DEF BootMachine, Boot, ExitIdle, IdleExit, Crash, StallExit
  <2> QED BY <1>1, <1>2, <2>1, OneRests
          DEF BootMachine, Boot, ExitIdle, IdleExit, Crash, StallExit, PowerOff
<1>3. CASE SendHeartbeat(m)
  <2>1. RowsKeep
    BY <1>1, <1>3 DEF SendHeartbeat, Heartbeat, RowTyped, RowType, RowsKeep
  <2> QED BY <1>1, <1>3, <2>1, NoneMoves DEF SendHeartbeat, Heartbeat
<1>4. CASE SoftStall(m)
  BY <1>1, <1>4, SameKeep, NoneMoves DEF SoftStall
<1>5. CASE StallWrite(m)
  <2>1. RowsKeep
    BY <1>1, <1>5 DEF StallWrite, SetStatusOwned, RowTyped, RowType, RowsKeep
  <2> QED BY <1>1, <1>5, <2>1, NoneMoves DEF StallWrite
<1>6. CASE ClaimJob(m)
  <2>1. PICK j \in Jobs :
          /\ row[j].status = "queued" /\ ClaimRow(j, m)
          /\ wk' = [wk EXCEPT ![m] = [pc |-> "start", job |-> j, run |-> row[j].run,
                                      known |-> FALSE]]
    BY <1>6 DEF ClaimJob, Claim, Claimable
  <2>2. RowsKeep
    BY <1>1, <2>1 DEF ClaimRow, RowTyped, RowType, RowsKeep
  <2>3. Verdict(m)' /\ \A n \in Machines \ {m} : wk'[n] = wk[n]
    BY <1>1, <2>1 DEF Typed, WorkersTyped, Verdict
  <2> QED BY <1>1, <2>2, <2>3, OneMoves
<1> QED BY <1>2, <1>3, <1>4, <1>5, <1>6 DEF Watchdog

(* A look at the row: 'cancelled' is what the row says, or what it said.    *)
LEMMA VerdictsLook ==
  ASSUME IInv, Typed', Verdicts, NEW m \in Machines, Start(m) \/ Stages(m) \/ Post(m)
  PROVE  Verdicts'
<1>1. /\ Typed /\ RowTyped /\ Growing /\ RowsKeep
      /\ UNCHANGED <<row, committed, stalled>>
  BY SameKeep DEF Start, Stages, Post, CheckCancelled, others, Growing, IInv, Typed
<1>2. PICK c \in Answers(m), p \in {"clone", "finalize", "post", "fail", "done"} :
        /\ wk' = [wk EXCEPT ![m].known = c, ![m].pc = p]
        /\ p = "post" => c
        /\ p \in {"clone", "finalize", "done"} => ~c
        /\ wk[m].pc \in {"start", "stages"} => p \in {"clone", "finalize", "post"}
        /\ wk[m].pc = "post" => p \in {"fail", "done"}
        /\ wk[m].pc \in {"start", "stages", "post"}
  <2>1. CASE Start(m)
    BY <2>1 DEF Start, CheckCancelled
  <2>2. CASE Stages(m)
    BY <2>2 DEF Stages, CheckCancelled
  <2>3. CASE Post(m)
    BY <2>3 DEF Post
  <2> QED BY <2>1, <2>2, <2>3
<1>3. wk[m] \in WorkerType(WorkerPcs) /\ c \in BOOLEAN
  BY <1>1, AnswersBoolean DEF Typed, WorkersTyped
<1>4. /\ wk'[m].pc = p /\ wk'[m].known = c
      /\ wk'[m].job = wk[m].job /\ wk'[m].run = wk[m].run
      /\ \A n \in Machines \ {m} : wk'[n] = wk[n]
  BY <1>1, <1>2, <1>3 DEF Typed, WorkersTyped, WorkerType
<1>5. Verdict(m) /\ (Backed(m) => Backed(m)')
  BY <1>1, <1>4 DEF Verdicts, Backed
<1>6. Verdict(m)'
  <2>1. CASE wk[m].pc \in {"start", "stages"}
    <3>1. ~wk[m].known
      BY <1>5, <2>1 DEF Verdict
    <3>2. p = "post" => row[wk[m].job].status = "cancelled"
      BY <1>2, <3>1 DEF Answers
    <3> QED BY <1>1, <1>2, <1>3, <1>4, <2>1, <3>2 DEF Verdict
  <2>2. CASE wk[m].pc = "post"
    <3>1. p = "done" => Backed(m)
      BY <1>2, <1>5, <2>2 DEF Verdict, Answers
    <3> QED BY <1>2, <1>3, <1>4, <1>5, <2>2, <3>1 DEF Verdict
  <2> QED BY <1>2, <2>1, <2>2
<1> QED BY <1>1, <1>4, <1>6, OneMoves

(* The stages, finalize_extraction and the writes after it.                 *)
LEMMA VerdictsStage ==
  ASSUME IInv, Typed', Verdicts, NEW m \in Machines,
         Clone(m) \/ StageThrows(m) \/ FinalizeRpc(m) \/ Mark(m) \/ RepoWrite(m)
  PROVE  Verdicts'
<1>1. Typed /\ RowTyped /\ Growing /\ Verdict(m)
  BY DEF Clone, StageThrows, FinalizeRpc, Mark, RepoWrite, others, Growing, IInv, Typed, Verdicts
<1>2. PICK p \in {"stages", "fail", "mark", "repo", "post"} :
        /\ Goto(m, p)
        /\ wk[m].pc \in WorkerPcs
        /\ p = "stages" => wk[m].pc = "clone"
        /\ p = "mark" => wk[m].job \in committed'
        /\ p \in {"repo", "post"} => wk[m].pc \in {"mark", "repo"}
  <2>1. CASE Clone(m)
    BY <2>1 DEF Clone, WorkerPcs
  <2>2. CASE StageThrows(m)
    BY <2>2 DEF StageThrows, WorkerPcs
  <2>3. CASE FinalizeRpc(m)
    BY <2>3 DEF FinalizeRpc, WorkerPcs
  <2>4. CASE Mark(m) \/ RepoWrite(m)
    BY <2>4 DEF Mark, RepoWrite, WorkerPcs
  <2> QED BY <2>1, <2>2, <2>3, <2>4
<1>3. /\ wk'[m].pc = p /\ wk'[m].known = wk[m].known
      /\ wk'[m].job = wk[m].job /\ wk'[m].run = wk[m].run
      /\ \A n \in Machines \ {m} : wk'[n] = wk[n]
  BY <1>1, <1>2 DEF Goto, Typed, WorkersTyped, WorkerType
<1>4. RowsKeep
  <2>1. CASE Mark(m)
    <3>1. wk[m].job \in committed
      BY <1>1, <2>1 DEF Mark, Verdict
    <3>2. UNCHANGED committed
      BY <2>1 DEF Mark, others
    <3> QED BY <1>1, <2>1, <3>1, <3>2, SameKeep DEF Mark, RowTyped, RowType, RowsKeep
  <2>2. CASE ~Mark(m)
    BY <1>1, <2>2, SameKeep DEF Clone, StageThrows, FinalizeRpc, RepoWrite
  <2> QED BY <2>1, <2>2
<1>5. Verdict(m)'
  <2>1. p \in {"repo", "post"} => wk[m].job \in committed'
    BY <1>1, <1>2 DEF Verdict, Growing
  <2>2. p = "post" => Backed(m)'
    BY <1>3, <2>1 DEF Backed
  <2> QED BY <1>1, <1>2, <1>3, <2>1, <2>2 DEF Verdict
<1> QED BY <1>1, <1>3, <1>4, <1>5, OneMoves

(* The write under the claim.  Whoever holds the claim has not been         *)
(* overtaken, and nobody else holds it.                                     *)
LEMMA VerdictsWrite ==
  ASSUME IInv, Typed', Verdicts, NEW m \in Machines, WriteCompleted(m) \/ WriteFailed(m)
  PROVE  Verdicts'
<1> DEFINE j == wk[m].job
<1>1. /\ Typed /\ RowTyped /\ Growing /\ Verdict(m)
      /\ UNCHANGED <<committed, stalled>> /\ Release(m)
      /\ wk[m].pc \in {"done", "fail"}
  BY DEF WriteCompleted, WriteFailed, WriteTerminal, others, Growing, IInv, Typed, Verdicts
<1>2. \A n \in Machines \ {m} : wk'[n] = wk[n]
  BY <1>1 DEF Release, Typed, WorkersTyped
<1>3. Verdict(m)'
  BY <1>1 DEF Release, Resting, Verdict, Typed, WorkersTyped
<1>4. j \in Jobs /\ j # Null /\ wk[m].run \in Nat
  BY <1>1, QueueAssumption DEF Typed, WorkersTyped, WorkerType, WorkerPcs
<1>5. PICK s \in {"completed", "failed"} :
        /\ SetStatusOwned(j, m, wk[m].run, s) \/ UNCHANGED row
        /\ s = "completed" => wk[m].pc = "done"
  BY DEF WriteCompleted, WriteFailed, WriteTerminal
<1>6. CASE UNCHANGED row \/ ~OwnedBy(j, m, wk[m].run)
  <2>1. UNCHANGED row
    BY <1>1, <1>4, <1>5, <1>6 DEF SetStatusOwned, RowTyped, RowType
  <2> QED BY <1>1, <1>2, <1>3, <2>1, SameKeep, OneMoves
<1>7. CASE SetStatusOwned(j, m, wk[m].run, s) /\ OwnedBy(j, m, wk[m].run)
  <2>1. /\ row'[j].status = s /\ row'[j].run = row[j].run
        /\ \A k \in Jobs \ {j} : row'[k] = row[k]
        /\ row[j].run = wk[m].run /\ row[j].machine = m
    BY <1>1, <1>4, <1>7 DEF SetStatusOwned, OwnedBy, RowTyped, RowType
  <2>2. s = "completed" => j \in committed \cup stalled
    BY <1>1, <1>4, <1>5, <2>1 DEF Verdict, Backed
  <2>3. \A k \in Jobs : row[k].run \in Nat /\ row'[k].run = row[k].run
    BY <1>1, <2>1 DEF RowTyped, RowType
  <2>4. ASSUME NEW n \in Machines \ {m} PROVE Verdict(n)'
    <3>1. wk'[n] = wk[n] /\ Verdict(n)
      BY <1>2 DEF Verdicts
    <3>2. CASE wk[n].pc \notin WorkerPcs
      BY <3>1, <3>2 DEF Verdict, WorkerPcs
    <3>3. CASE wk[n].pc \in WorkerPcs
      <4>1. wk[n].job \in Jobs /\ wk[n].job # Null /\ wk[n].run \in Nat
        BY <1>1, <3>3, QueueAssumption DEF Typed, WorkersTyped, WorkerType
      <4>2. Backed(n) => Backed(n)'
        BY <1>1, <2>3, <3>1, <4>1 DEF Backed
      <4>3. CASE wk[n].job # j
        <5>1. row'[wk[n].job] = row[wk[n].job]
          BY <2>1, <4>1, <4>3
        <5> QED BY <1>1, <3>1, <4>2, <5>1 DEF Verdict
      <4>4. CASE wk[n].job = j
        <5>1. wk[n].run <= row[j].run /\ wk[n].run # row[j].run
          BY <2>1, <4>1, <4>4 DEF IInv, QueueInv, Claims, ClaimOf, Busy
        <5>2. Backed(n)
          BY <1>4, <2>3, <4>1, <4>4, <5>1 DEF Backed
        <5> QED BY <1>1, <3>1, <4>2, <5>2 DEF Verdict
      <4> QED BY <4>3, <4>4
    <3> QED BY <3>2, <3>3
  <2>5. CompletedMeansCommitted'
    BY <1>1, <2>1, <2>2 DEF Verdicts, CompletedMeansCommitted
  <2> QED BY <1>3, <2>4, <2>5 DEF Verdicts
<1> QED BY <1>5, <1>6, <1>7

LEMMA VerdictsNext == IInv /\ Verdicts /\ [Next]_vars => Verdicts'
<1> SUFFICES ASSUME IInv, Verdicts, [Next]_vars PROVE Verdicts'
  OBVIOUS
<1>1. Typed'
  BY TypedNext DEF IInv
<1>2. ASSUME NEW m \in Machines, MachineStep(m) PROVE Verdicts'
  BY <1>1, <1>2, VerdictsMachine, VerdictsLook, VerdictsStage, VerdictsWrite
     DEF MachineStep, WorkerStep
<1>3. CASE UNCHANGED vars
  BY <1>3 DEF vars, Verdicts, CompletedMeansCommitted, Verdict, Backed
<1> QED BY <1>1, <1>2, <1>3, VerdictsRequests DEF Next

LEMMA VerdictsInit == Init => Verdicts
BY DEF Init, QueueInit, NoRow, Resting, Verdicts, CompletedMeansCommitted, Verdict

-----------------------------------------------------------------------------
LEMMA Invariant == Spec => []IInv
<1>1. IInv /\ [Next]_vars => IInv'
  BY IInvNext
<1> QED BY IInvInit, <1>1, PTL DEF Spec

(* Every variable keeps its type.                                           *)
THEOREM TypeCorrect == Spec => []TypeOK
<1>1. IInv => TypeOK
  BY TypedTypeOK DEF IInv
<1> QED BY Invariant, <1>1, PTL

(* queueExtractionJob: at most one queued or running job per project and    *)
(* type, whatever the requests and the workers do.                          *)
THEOREM OneActive == Spec => []OneActivePerSlot
<1>1. IInv => OneActivePerSlot
  BY DEF IInv, QueueInv
<1> QED BY Invariant, <1>1, PTL

(* recover_stuck_scan_jobs: two workers on one job differ in run_id, for    *)
(* any number of attempts.                                                  *)
THEOREM DistinctRuns == Spec => []RunsDistinct
<1>1. IInv => RunsDistinct
  BY DEF IInv, QueueInv
<1> QED BY Invariant, <1>1, PTL

(* recover_stuck_scan_jobs counts every attempt: two workers on one job are *)
(* in different attempts, and with max_attempts = 1 there is one worker.    *)
THEOREM SingleWorker == Spec => []SoleWorker
<1>1. IInv => SoleWorker
  BY DEF IInv, QueueInv
<1> QED BY Invariant, <1>1, PTL

(* The scan_jobs rows of the extraction worker implement JobLease.          *)
THEOREM Refinement == Spec => ImplementsJobLease
<1>1. Init => Lease!Init
  BY LeaseInit DEF Init
<1>2. IInv /\ [Next]_vars => [Lease!Next]_(Lease!leaseVars)
  BY IInvNext
<1> QED BY Invariant, <1>1, <1>2, PTL DEF Spec, ImplementsJobLease, Lease!Spec

(* No extraction is claimed more often than max_attempts, and one that is   *)
(* queued always has an attempt left: nothing waits for a claim that        *)
(* claim_scan_job would refuse for ever.                                    *)
THEOREM BoundedAttempts == Spec => []QueueKept
BY Refinement, LeaseGivesQueue, PTL DEF ImplementsJobLease

(* A job that is over stays over, whichever of its workers, the cancel      *)
(* request or the cron writes last: a verdict may be overwritten by         *)
(* another verdict, but the job is never run again.                         *)
THEOREM EndsStay == Spec => [][SettledStays]_row
BY Refinement, LeaseGivesEnds, PTL DEF ImplementsJobLease

(* A job reads 'completed' only after the commit of its run, or after a     *)
(* soft stall hid a cancel from the worker: by any path, for any attempts.  *)
THEOREM HonestCompletion == Spec => []CompletedMeansCommitted
<1>1. Spec => [](IInv /\ Verdicts)
  <2>1. IInv /\ Verdicts /\ [Next]_vars => (IInv /\ Verdicts)'
    BY IInvNext, VerdictsNext
  <2> QED BY IInvInit, VerdictsInit, <2>1, PTL DEF Spec
<1>2. Verdicts => CompletedMeansCommitted
  BY DEF Verdicts
<1> QED BY <1>1, <1>2, PTL
-----------------------------------------------------------------------------
(* The generations of findings (ExtractionRuns).                            *)

Findings == [Runs -> [Deps -> {"none", "open", "ignored"}]]

JobsTyped ==
  /\ status \in [Runs -> {"absent"} \cup Pending \cup Ended]
  /\ pc \in [Runs -> {"off", "sync", "scan", "finalize", "report"}]
RowsTyped ==
  /\ seen \in [Deps -> Runs \cup {None}]
  /\ removed \subseteq {d \in Deps : seen[d] # None}
  /\ finding \in Findings
  /\ \A j \in Runs, d \in Deps : seen[d] = None => finding[j][d] = "none"
TriageTyped ==
  /\ active \in Runs \cup {None} /\ previous \in Runs \cup {None}
  /\ triage \in [run : Runs \cup {None}, dep : Deps \cup {None}]
  /\ triage # NoTriage => triage.run \in Runs /\ triage.dep \in Deps /\ active # None
  /\ slipped \subseteq decided /\ decided \subseteq Deps
  /\ active = None => decided = {}

(* A run that has not been finalized is neither visible nor its             *)
(* predecessor, and a job that has not been claimed has no pipeline.        *)
Fresh(j) ==
  /\ status[j] \in {"absent", "queued"} => pc[j] = "off" /\ j \notin {active, previous}
  /\ pc[j] \in {"sync", "scan", "finalize"} => j \notin {active, previous}

OnePending ==
  \A j, k \in Runs : status[j] \in Pending /\ status[k] \in Pending => j = k

RunsIInv ==
  /\ JobsTyped /\ RowsTyped /\ TriageTyped
  /\ \A j \in Runs : Fresh(j)
  /\ OnePending /\ PointersDistinct /\ DecisionKept

LEMMA RunsInitIInv == RunsInit => RunsIInv
BY RunsAssumption DEF RunsInit, RunsIInv, JobsTyped, RowsTyped, TriageTyped, Fresh, PointersDistinct,
   OnePending, DecisionKept, Pending, Ended, Findings, NoTriage

(* A step of one job that leaves rows and pointers, and neither goes back   *)
(* to before the claim nor enters a pipeline it has left.                   *)
LEMMA JobMoves ==
  ASSUME RunsIInv, NEW j \in Runs, UNCHANGED <<rows, pointers, user>>, JobsTyped',
         status'[j] \in Pending =>
           status[j] \in Pending \/ \A k \in Runs : status[k] \notin Pending,
         \A k \in Runs \ {j} : status'[k] = status[k] /\ pc'[k] = pc[k],
         status'[j] \in {"absent", "queued"} =>
           status[j] \in {"absent", "queued"} /\ pc'[j] = "off",
         pc'[j] \in {"sync", "scan", "finalize"} =>
           pc[j] \in {"sync", "scan", "finalize"} \/ status[j] = "queued"
  PROVE  RunsIInv'
<1>1. UNCHANGED <<seen, removed, finding, active, previous, triage, decided, slipped>>
  BY DEF rows, pointers, user
<1>2. \A k \in Runs : Fresh(k)'
  <2>1. Fresh(j)'
    BY <1>1 DEF RunsIInv, Fresh
  <2>2. ASSUME NEW k \in Runs \ {j} PROVE Fresh(k)'
    BY <1>1 DEF RunsIInv, Fresh
  <2> QED BY <2>1, <2>2
<1>3. RowsTyped' /\ TriageTyped' /\ PointersDistinct' /\ DecisionKept'
  BY <1>1 DEF RunsIInv, RowsTyped, TriageTyped, PointersDistinct, DecisionKept
<1>4. OnePending'
  BY DEF RunsIInv, OnePending
<1> QED BY <1>2, <1>3, <1>4 DEF RunsIInv

LEMMA RunsStatusStep ==
  ASSUME RunsIInv, NEW j \in Runs,
         Queue(j) \/ ClaimRun(j) \/ Cancel(j) \/ FailRun(j) \/ PipelineCrash(j) \/ Abort(j) \/ Report(j)
  PROVE  RunsIInv'
<1>1. UNCHANGED <<rows, pointers, user>> /\ JobsTyped /\ Fresh(j)
  BY DEF Queue, ClaimRun, Cancel, FailRun, PipelineCrash, Abort, Report, RunsIInv
<1>2. CASE Queue(j)
  BY <1>1, <1>2, JobMoves DEF Queue, JobsTyped, Pending, Fresh
<1>3. CASE ClaimRun(j)
  BY <1>1, <1>3, JobMoves DEF ClaimRun, JobsTyped, Pending
<1>4. CASE Cancel(j) \/ FailRun(j)
  BY <1>1, <1>4, JobMoves DEF Cancel, FailRun, JobsTyped, Pending, Ended, Fresh
<1>5. CASE PipelineCrash(j)
  BY <1>1, <1>5, JobMoves DEF PipelineCrash, JobsTyped, Fresh
<1>6. CASE Abort(j) \/ Report(j)
  <2>1. PICK s \in {status[j], "failed", "completed"} : status' = [status EXCEPT ![j] = s]
    BY <1>6 DEF Abort, Report
  <2>2. pc' = [pc EXCEPT ![j] = "off"]
    BY <1>6 DEF Abort, Report
  <2> QED BY <1>1, <2>1, <2>2, JobMoves DEF JobsTyped, Ended, Pending
<1> QED BY <1>2, <1>3, <1>4, <1>5, <1>6

LEMMA DepsSyncStep == ASSUME RunsIInv, NEW j \in Runs, DepsSync(j) PROVE RunsIInv'
<1>1. PICK D \in SUBSET Deps : Stamp(j, D)
  BY DEF DepsSync
<1>2. /\ pc[j] = "sync" /\ pc' = [pc EXCEPT ![j] = "scan"]
      /\ UNCHANGED <<status, finding, active, previous, triage, decided, slipped>>
  BY DEF DepsSync, pointers, user
<1>3. RowsTyped'
  BY <1>1, <1>2, RunsAssumption DEF Stamp, RunsIInv, RowsTyped
<1>4. JobsTyped' /\ TriageTyped' /\ OnePending' /\ PointersDistinct' /\ DecisionKept'
  BY <1>2 DEF RunsIInv, JobsTyped, TriageTyped, OnePending, PointersDistinct, DecisionKept
<1>5. \A k \in Runs : Fresh(k)'
  BY <1>2 DEF RunsIInv, Fresh, JobsTyped
<1> QED BY <1>3, <1>4, <1>5 DEF RunsIInv

LEMMA ScanStep == ASSUME RunsIInv, NEW j \in Runs, Scan(j) PROVE RunsIInv'
<1>1. PICK D \in SUBSET {d \in Deps : seen[d] = j} :
        finding' = [finding EXCEPT ![j] = [d \in Deps |-> IF d \in D THEN "open" ELSE finding[j][d]]]
  BY DEF Scan
<1>2. /\ pc[j] = "scan" /\ pc' = [pc EXCEPT ![j] = "finalize"]
      /\ UNCHANGED <<status, seen, removed, active, previous, triage, decided, slipped>>
  BY DEF Scan, pointers, user
<1>3. finding' \in Findings
  BY <1>1 DEF RunsIInv, RowsTyped, Findings
<1>4. \A k \in Runs, d \in Deps : seen[d] = None => finding'[k][d] = "none"
  BY <1>1, RunsAssumption DEF RunsIInv, RowsTyped, Findings
<1>5. RowsTyped'
  BY <1>2, <1>3, <1>4 DEF RunsIInv, RowsTyped
<1>6. JobsTyped' /\ TriageTyped' /\ OnePending' /\ PointersDistinct'
  BY <1>2 DEF RunsIInv, JobsTyped, TriageTyped, OnePending, PointersDistinct
<1>7. \A k \in Runs : Fresh(k)'
  BY <1>2 DEF RunsIInv, Fresh, JobsTyped
<1>8. DecisionKept'
  <2>1. j # active /\ active \in Runs \cup {None} /\ finding \in Findings
    BY <1>2 DEF RunsIInv, Fresh, TriageTyped, RowsTyped
  <2>2. active # None => finding'[active] = finding[active]
    BY <1>1, <2>1 DEF Findings
  <2> QED BY <1>2, <2>2 DEF RunsIInv, DecisionKept
<1> QED BY <1>5, <1>6, <1>7, <1>8 DEF RunsIInv

(* What finalize_extraction leaves of each generation.                      *)
LEMMA FinalizeFindings ==
  ASSUME RunsIInv, NEW j \in Runs, Finalize(j)
  PROVE  /\ finding' \in Findings
         /\ \A d \in Deps : finding'[j][d] = Carried(j, d)
         /\ active # None => finding'[active] = finding[active]
         /\ \A k \in Runs, d \in Deps : finding[k][d] = "none" => finding'[k][d] = "none"
<1>1. finding' = [k \in Runs |-> [d \in Deps |->
                    IF k \notin {j, active} THEN "none"
                    ELSE IF k = j THEN Carried(j, d) ELSE finding[k][d]]]
  BY DEF Finalize, Kept
<1>2. j # active /\ active \in Runs \cup {None} /\ finding \in Findings
  BY DEF Finalize, RunsIInv, Fresh, TriageTyped, RowsTyped
<1>3. \A d \in Deps : Carried(j, d) \in {"none", "open", "ignored"}
  BY <1>2 DEF Carried, Findings
<1>4. \A d \in Deps : finding[j][d] = "none" => Carried(j, d) = "none"
  BY DEF Carried
<1> HIDE DEF Carried
<1>5. finding' \in Findings
  BY <1>1, <1>2, <1>3 DEF Findings
<1>6. ASSUME active # None PROVE finding'[active] = finding[active]
  <2>1. finding'[active] = [d \in Deps |-> finding[active][d]]
    BY <1>1, <1>2, <1>6
  <2> QED BY <1>2, <1>6, <2>1 DEF Findings
<1>7. \A k \in Runs, d \in Deps : finding[k][d] = "none" => finding'[k][d] = "none"
  BY <1>1, <1>4
<1>8. \A d \in Deps : finding'[j][d] = Carried(j, d)
  BY <1>1
<1> QED BY <1>5, <1>6, <1>7, <1>8

LEMMA FinalizeStep == ASSUME RunsIInv, NEW j \in Runs, Finalize(j) PROVE RunsIInv'
<1>1. /\ pc[j] = "finalize" /\ pc' = [pc EXCEPT ![j] = "report"]
      /\ active' = j /\ previous' = active
      /\ removed' = {d \in Deps : seen[d] \notin {None, j}}
      /\ slipped' = slipped \cup Missed(j)
      /\ UNCHANGED <<status, seen, triage, decided>>
  BY DEF Finalize
<1>2. RowsTyped'
  BY <1>1, FinalizeFindings DEF RunsIInv, RowsTyped
<1>3. JobsTyped' /\ TriageTyped'
  BY <1>1, RunsAssumption DEF RunsIInv, JobsTyped, TriageTyped, Missed
<1>4. OnePending' /\ PointersDistinct'
  BY <1>1 DEF RunsIInv, Fresh, OnePending, PointersDistinct
<1>5. \A k \in Runs : Fresh(k)'
  BY <1>1 DEF RunsIInv, Fresh, JobsTyped
<1>6. DecisionKept'
  <2>1. SUFFICES ASSUME NEW d \in Deps, d \in decided, d \notin slipped, d \notin Missed(j)
                 PROVE  Carried(j, d) # "open"
    BY <1>1, FinalizeFindings DEF DecisionKept, RunsIInv, TriageTyped
  <2>2. active # None /\ finding[active][d] \notin {"none", "open"}
    BY <2>1 DEF Missed, RunsIInv, TriageTyped, DecisionKept
  <2>3. finding[j][d] = "none" \/ seen[d] = j
    BY <2>1 DEF Missed
  <2> QED BY <2>2, <2>3 DEF Carried
<1> QED BY <1>2, <1>3, <1>4, <1>5, <1>6 DEF RunsIInv

LEMMA ReapStep == ASSUME RunsIInv, ReapOrphans PROVE RunsIInv'
<1> DEFINE Gone == {d \in Deps : seen[d] \in Orphans}
<1>1. /\ finding' = [k \in Runs |-> [d \in Deps |->
                       IF k \in Orphans \/ d \in Gone THEN "none" ELSE finding[k][d]]]
      /\ seen' = [d \in Deps |-> IF d \in Gone THEN None ELSE seen[d]]
      /\ removed' = removed \ Gone
      /\ UNCHANGED <<status, pc, active, previous, triage, decided, slipped>>
  BY DEF ReapOrphans, jobState, pointers, user
<1> HIDE DEF Gone
<1>2. RowsTyped'
  BY <1>1 DEF RunsIInv, RowsTyped, Findings
<1>3. JobsTyped' /\ TriageTyped' /\ OnePending' /\ PointersDistinct' /\ \A k \in Runs : Fresh(k)'
  BY <1>1 DEF RunsIInv, JobsTyped, TriageTyped, OnePending, PointersDistinct, Fresh
<1>4. DecisionKept'
  BY <1>1 DEF RunsIInv, DecisionKept, TriageTyped
<1> QED BY <1>2, <1>3, <1>4 DEF RunsIInv

LEMMA TriageStep ==
  ASSUME RunsIInv, TriageWrite \/ \E d \in Deps : TriageRead(d)
  PROVE  RunsIInv'
<1>1. UNCHANGED <<status, pc, seen, removed, active, previous>>
  BY DEF TriageWrite, TriageRead, jobState, rows, pointers, user
<1>2. finding' \in Findings
        /\ \A j \in Runs, d \in Deps : finding[j][d] = "none" => finding'[j][d] = "none"
  <2>1. CASE TriageWrite
    <3>1. /\ triage.run \in Runs /\ triage.dep \in Deps /\ finding \in Findings
          /\ \/ finding' = finding
             \/ /\ finding[triage.run][triage.dep] # "none"
                /\ finding' = [finding EXCEPT ![triage.run][triage.dep] = "ignored"]
      BY <2>1 DEF TriageWrite, RunsIInv, TriageTyped, RowsTyped
    <3> QED BY <3>1 DEF Findings
  <2>2. CASE \E d \in Deps : TriageRead(d)
    BY <2>2 DEF TriageRead, rows, RunsIInv, RowsTyped
  <2> QED BY <2>1, <2>2
<1>3. TriageTyped'
  BY <1>1 DEF TriageWrite, TriageRead, RunsIInv, TriageTyped, NoTriage
<1>4. RowsTyped' /\ JobsTyped' /\ OnePending' /\ PointersDistinct' /\ \A k \in Runs : Fresh(k)'
  BY <1>1, <1>2 DEF RunsIInv, RowsTyped, JobsTyped, OnePending, PointersDistinct, Fresh
<1>5. DecisionKept'
  <2>1. CASE TriageWrite /\ finding[triage.run][triage.dep] # "none"
    <3>1. /\ finding' = [finding EXCEPT ![triage.run][triage.dep] = "ignored"]
          /\ decided' = decided \cup {triage.dep}
          /\ slipped' = IF triage.run = active THEN slipped \ {triage.dep}
                        ELSE slipped \cup {triage.dep}
          /\ triage.run \in Runs /\ triage.dep \in Deps /\ finding \in Findings
          /\ active \in Runs
      BY <2>1 DEF TriageWrite, RunsIInv, TriageTyped, RowsTyped
    <3>2. CASE triage.run = active
      <4>1. \A d \in Deps : finding'[active][d] =
                              IF d = triage.dep THEN "ignored" ELSE finding[active][d]
        BY <3>1, <3>2 DEF Findings
      <4> QED BY <1>1, <3>1, <3>2, <4>1 DEF DecisionKept, RunsIInv, TriageTyped
    <3>3. CASE triage.run # active
      <4>1. finding'[active] = finding[active]
        BY <3>1, <3>3 DEF Findings
      <4> QED BY <1>1, <3>1, <3>3, <4>1 DEF DecisionKept, RunsIInv
    <3> QED BY <3>2, <3>3
  <2>2. CASE finding' = finding /\ UNCHANGED <<decided, slipped>>
    BY <1>1, <2>2 DEF DecisionKept, RunsIInv
  <2> QED BY <2>1, <2>2 DEF TriageWrite, TriageRead, rows
<1> QED BY <1>3, <1>4, <1>5 DEF RunsIInv

LEMMA RunsStepIInv == RunsIInv /\ [RunsNext]_runsVars => RunsIInv'
<1> SUFFICES ASSUME RunsIInv, [RunsNext]_runsVars PROVE RunsIInv'
  OBVIOUS
<1>1. ASSUME NEW j \in Runs, JobStep(j) PROVE RunsIInv'
  BY <1>1, RunsStatusStep, DepsSyncStep, ScanStep, FinalizeStep DEF JobStep, PipelineStep
<1>2. CASE ReapOrphans
  BY <1>2, ReapStep
<1>3. CASE TriageWrite \/ \E d \in Deps : TriageRead(d)
  BY <1>3, TriageStep
<1>4. CASE UNCHANGED runsVars
  BY <1>4 DEF runsVars, RunsIInv, JobsTyped, RowsTyped, TriageTyped, OnePending,
              PointersDistinct, DecisionKept, Fresh
<1> QED BY <1>1, <1>2, <1>3, <1>4 DEF RunsNext

LEMMA RunsInvariance == RunsSpec => []RunsIInv
BY RunsInitIInv, RunsStepIInv, PTL DEF RunsSpec

-----------------------------------------------------------------------------
(* The rows keep their types, and no finding outlives its dependency row.   *)
THEOREM RunsTypeCorrect == RunsSpec => []RunsTypeOK
<1>1. RunsIInv => RunsTypeOK
  BY DEF RunsIInv, JobsTyped, RowsTyped, TriageTyped, Findings, RunsTypeOK
<1> QED BY <1>1, RunsInvariance, PTL

(* There is always another generation to roll back to: no run is finalized  *)
(* twice, although recovery and cancel end jobs whose worker goes on.       *)
THEOREM DistinctPointers == RunsSpec => []PointersDistinct
<1>1. RunsIInv => PointersDistinct
  BY DEF RunsIInv
<1> QED BY <1>1, RunsInvariance, PTL

(* A flip takes findings from a run that leaves the pointers, and a         *)
(* pipeline at work that meets it belongs to another job than the one that  *)
(* finalizes: only one of the two can be queued or processing.              *)
LEMMA KeptByFinalize ==
  ASSUME RunsIInv, NEW j \in Runs, Finalize(j), NEW g \in Runs, NEW d \in Deps,
         finding[g][d] # "none", finding'[g][d] = "none"
  PROVE  Spared(g, d)
<1>1. /\ active' = j /\ previous' = active /\ pc[j] = "finalize"
      /\ j # active /\ active \in Runs \cup {None}
  BY DEF Finalize, RunsIInv, Fresh, TriageTyped
<1>2. finding'[j][d] = Carried(j, d) /\ (active # None => finding'[active] = finding[active])
  BY FinalizeFindings
<1>3. g # active
  BY <1>2, RunsAssumption
<1>4. g # j
  BY <1>2 DEF Carried
<1>5. status[g] \notin Pending \/ status[j] \notin Pending
  BY <1>4 DEF RunsIInv, OnePending
<1>6. AtWork(g) => status[g] # "absent" /\ status[j] # "absent"
  BY <1>1 DEF AtWork, RunsIInv, JobsTyped, Fresh
<1>7. AtWork(g) => status[g] \in Ended \/ status[j] \in Ended
  BY <1>5, <1>6 DEF RunsIInv, JobsTyped
<1> QED BY <1>1, <1>3, <1>4, <1>7 DEF Spared

(* The reapers and the flips delete no finding that is in use: the two      *)
(* generations of the pointers lose one only with a dependency row that a   *)
(* dead run stamped, and a pipeline at work only to a flip after one of the *)
(* two jobs was given up.                                                   *)
THEOREM KeepsFindings == RunsSpec => FindingsKept
<1>1. ASSUME RunsIInv, [RunsNext]_runsVars, NEW g \in Runs, NEW d \in Deps,
             finding[g][d] # "none", finding'[g][d] = "none"
      PROVE  Spared(g, d)
  <2>1. ASSUME NEW j \in Runs, Finalize(j) PROVE Spared(g, d)
    BY <1>1, <2>1, KeptByFinalize
  <2>2. CASE ReapOrphans
    <3>1. UNCHANGED pointers /\ (g \in Orphans \/ seen[d] \in Orphans)
      BY <1>1, <2>2 DEF ReapOrphans
    <3> QED BY <3>1 DEF Spared, Orphans, DeadRun, AtWork, pointers
  <2>3. ASSUME NEW j \in Runs, Scan(j) PROVE FALSE
    BY <1>1, <2>3 DEF Scan, RunsIInv, RowsTyped, Findings
  <2>4. CASE TriageWrite
    BY <1>1, <2>4 DEF TriageWrite, RunsIInv, TriageTyped, RowsTyped, Findings
  <2>5. CASE UNCHANGED finding
    BY <1>1, <2>5
  <2> QED BY <1>1, <2>1, <2>2, <2>3, <2>4, <2>5
          DEF RunsNext, runsVars, JobStep, PipelineStep, Queue, ClaimRun, Cancel, FailRun,
              PipelineCrash, Abort, DepsSync, Report, TriageRead, rows
<1>2. RunsIInv /\ [RunsNext]_runsVars
        => [\A g \in Runs, d \in Deps :
              finding[g][d] # "none" /\ finding'[g][d] = "none" => Spared(g, d)]_runsVars
  BY <1>1
<1> QED BY <1>2, RunsInvariance, PTL DEF RunsSpec, FindingsKept

(* What the user was told is ignored is not open in the visible generation, *)
(* over any number of rescans, deaths, cancels and late pipelines, unless   *)
(* its decision slipped through one of the windows that DecisionKept names. *)
THEOREM KeepsDecisions == RunsSpec => []DecisionKept
<1>1. RunsIInv => DecisionKept
  BY DEF RunsIInv
<1> QED BY <1>1, RunsInvariance, PTL

-----------------------------------------------------------------------------
(* What a generation that is gone has left behind.                          *)
Reported(j) == pc[j] = "report" \/ status[j] = "completed"

Swept ==
  \A j \in Runs :
    /\ status[j] = "completed" => pc[j] \in {"off", "report"}
    /\ Reported(j) => j \in {active, previous} \/ Clean(j)

(* A step that neither flips the pointers nor adds findings to a run that   *)
(* has been finalized.                                                      *)
LEMMA SweptStays ==
  ASSUME Swept, UNCHANGED pointers,
         \A k \in Runs : Reported(k)' => Reported(k) /\ pc'[k] \in {"off", "report"},
         \A k \in Runs, d \in Deps :
           Reported(k) /\ finding[k][d] = "none" => finding'[k][d] = "none"
  PROVE  Swept'
BY DEF Swept, Reported, Clean, pointers

LEMMA SweptJob ==
  ASSUME RunsIInv, Swept, NEW j \in Runs, JobStep(j), ~Finalize(j)
  PROVE  Swept'
<1>1. UNCHANGED pointers
  BY DEF JobStep, PipelineStep, Queue, ClaimRun, Cancel, FailRun, PipelineCrash, Abort, DepsSync,
         Scan, Report
<1>2. \A k \in Runs \ {j} : status'[k] = status[k] /\ pc'[k] = pc[k]
  BY DEF JobStep, PipelineStep, Queue, ClaimRun, Cancel, FailRun, PipelineCrash, Abort, DepsSync,
         Scan, Report, RunsIInv, JobsTyped
<1>3. Reported(j)' => Reported(j) /\ pc'[j] \in {"off", "report"}
  <2>1. CASE Queue(j) \/ ClaimRun(j) \/ Cancel(j) \/ FailRun(j) \/ PipelineCrash(j)
    BY <2>1 DEF Queue, ClaimRun, Cancel, FailRun, PipelineCrash, RunsIInv, JobsTyped, Fresh,
                Reported, Swept, Pending
  <2>2. CASE DepsSync(j) \/ Scan(j) \/ Abort(j) \/ Report(j)
    BY <2>2 DEF DepsSync, Scan, Abort, Report, RunsIInv, JobsTyped, Reported, Swept
  <2> QED BY <2>1, <2>2 DEF JobStep, PipelineStep
<1>4. \A k \in Runs, d \in Deps :
        Reported(k) /\ finding[k][d] = "none" => finding'[k][d] = "none"
  <2>1. CASE Scan(j)
    <3>1. ~Reported(j)
      BY <2>1 DEF Scan, Reported, Swept
    <3>2. \A k \in Runs \ {j} : finding'[k] = finding[k]
      BY <2>1 DEF Scan, RunsIInv, RowsTyped, Findings
    <3> QED BY <3>1, <3>2
  <2>2. CASE ~Scan(j)
    <3>1. finding' = finding
      BY <2>2 DEF JobStep, PipelineStep, Queue, ClaimRun, Cancel, FailRun, PipelineCrash, Abort,
                  DepsSync, Report, rows
    <3> QED BY <3>1
  <2> QED BY <2>1, <2>2
<1>5. \A k \in Runs : Reported(k)' => Reported(k) /\ pc'[k] \in {"off", "report"}
  BY <1>2, <1>3 DEF Reported, Swept
<1> QED BY <1>1, <1>4, <1>5, SweptStays

(* The run that finalize_extraction drops from the pointers loses its rows. *)
LEMMA SweptFinalize ==
  ASSUME RunsIInv, Swept, NEW j \in Runs, Finalize(j)
  PROVE  Swept'
<1>1. /\ active' = j /\ previous' = active /\ status' = status
      /\ pc[j] = "finalize" /\ pc' = [pc EXCEPT ![j] = "report"]
  BY DEF Finalize
<1>2. ASSUME NEW k \in Runs, k \notin {j, active} PROVE Clean(k)'
  BY <1>2 DEF Finalize, Kept, Clean
<1> QED BY <1>1, <1>2 DEF Swept, Reported, RunsIInv, JobsTyped

LEMMA SweptNext == RunsIInv /\ Swept /\ [RunsNext]_runsVars => Swept'
<1> SUFFICES ASSUME RunsIInv, Swept, [RunsNext]_runsVars PROVE Swept'
  OBVIOUS
<1>1. ASSUME NEW j \in Runs, JobStep(j) PROVE Swept'
  BY <1>1, SweptJob, SweptFinalize
<1>2. CASE ReapOrphans
  <2>1. UNCHANGED <<status, pc, pointers>>
    BY <1>2 DEF ReapOrphans, jobState
  <2>2. \A k \in Runs, d \in Deps : finding[k][d] = "none" => finding'[k][d] = "none"
    BY <1>2 DEF ReapOrphans
  <2> QED BY <2>1, <2>2, SweptStays DEF Reported, Swept
<1>3. CASE TriageWrite \/ \E d \in Deps : TriageRead(d)
  <2>1. UNCHANGED <<status, pc, pointers>>
    BY <1>3 DEF TriageWrite, TriageRead, jobState
  <2>2. CASE TriageWrite
    BY <2>1, <2>2, SweptStays
       DEF TriageWrite, Reported, Swept, RunsIInv, TriageTyped, RowsTyped, Findings
  <2>3. CASE \E d \in Deps : TriageRead(d)
    BY <2>1, <2>3, SweptStays DEF TriageRead, rows, Reported, Swept
  <2> QED BY <1>3, <2>2, <2>3
<1>4. CASE UNCHANGED runsVars
  BY <1>4, SweptStays DEF runsVars, pointers, Reported, Swept
<1> QED BY <1>1, <1>2, <1>3, <1>4 DEF RunsNext

(* What a run that is over has left, and nobody can see or roll back to, is *)
(* what reap_orphaned_extractions selects: a completed run loses its rows   *)
(* when it leaves the pointers and gets none after that, whatever its       *)
(* pipeline, the reapers and the user do.                                   *)
LeftoversSelected ==
  \A j \in Runs :
    status[j] \in Ended /\ pc[j] = "off" /\ j \notin {active, previous} /\ ~Clean(j)
      => j \in Orphans

THEOREM SelectsLeftovers == RunsSpec => []LeftoversSelected
<1>1. RunsInit => Swept
  BY DEF RunsInit, Swept, Reported
<1>2. Swept => LeftoversSelected
  BY DEF Swept, Reported, LeftoversSelected, Ended, Orphans
<1> QED BY <1>1, <1>2, SweptNext, RunsInvariance, PTL DEF RunsSpec
=============================================================================
