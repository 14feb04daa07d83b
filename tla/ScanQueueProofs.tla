--------------------------- MODULE ScanQueueProofs --------------------------
(***************************************************************************)
(* What every step on scan_jobs preserves, whoever takes it: the proofs    *)
(* about ExtractionWorker, DastWorker and Fleet classify their actions as  *)
(* one of four kinds of step and use these lemmas.  At the end, what       *)
(* JobLease promises to every module that implements it.                   *)
(***************************************************************************)
EXTENDS ScanQueue, TLAPS

RowTyped == row \in [Jobs -> RowType]

(* The fields of workers that the invariant speaks of.                      *)
ClaimTyped ==
  /\ DOMAIN wk = Machines
  /\ \A m \in Machines : wk[m].job \in Jobs \cup {Null} /\ wk[m].run \in Nat

-----------------------------------------------------------------------------
(* Types of rows.                                                           *)
LEMMA RecordUpdate ==
  ASSUME NEW r \in RowType
  PROVE  /\ \A s \in Status : [r EXCEPT !.status = s] \in RowType
         /\ \A b \in BOOLEAN : [r EXCEPT !.stale = b] \in RowType
         /\ Requeued(r) \in RowType
<1>1. \A s \in Status : [r EXCEPT !.status = s] \in RowType
  BY DEF RowType
<1>2. \A b \in BOOLEAN : [r EXCEPT !.stale = b] \in RowType
  BY DEF RowType
<1>3. Requeued(r) \in RowType
  BY DEF RowType, Requeued, Status, Active
<1> QED BY <1>1, <1>2, <1>3

LEMMA InsertTyped ==
  ASSUME RowTyped, NEW j \in Jobs, InsertRow(j)
  PROVE  RowTyped'
<1>1. [NoRow EXCEPT !.status = "queued"] \in RowType
  BY DEF NoRow, RowType, Status, Active
<1> QED BY <1>1 DEF InsertRow, RowTyped

LEMMA StatusTyped ==
  ASSUME RowTyped, NEW j, NEW s, j \in Jobs => s \in Status,
         row' = [row EXCEPT ![j].status = s]
  PROVE  RowTyped'
BY RecordUpdate DEF RowTyped

LEMMA StaleTyped ==
  ASSUME RowTyped, NEW j, NEW b \in BOOLEAN, row' = [row EXCEPT ![j].stale = b]
  PROVE  RowTyped'
BY RecordUpdate DEF RowTyped

LEMMA ClaimRowTyped ==
  ASSUME RowTyped, NEW j \in Jobs, NEW m \in Machines, ClaimRow(j, m)
  PROVE  RowTyped'
BY DEF RowTyped, ClaimRow, RowType, Status, Active

LEMMA RecoverTyped == RowTyped /\ RecoverStuck => RowTyped'
BY RecordUpdate DEF RowTyped, RecoverStuck

LEMMA FailTyped == RowTyped /\ FailExhausted => RowTyped'
<1>1. "failed" \in Status
  BY DEF Status, Terminal
<1> QED BY <1>1, RecordUpdate DEF RowTyped, FailExhausted

LEMMA SetStatusTyped ==
  ASSUME RowTyped, NEW j, NEW s \in Status, SetStatus(j, s)
  PROVE  RowTyped'
<1>1. j \in Jobs => (IF row[j].status = "deleted" THEN row[j].status ELSE s) \in Status
  BY DEF RowTyped, RowType
<1> QED BY <1>1, StatusTyped DEF SetStatus

LEMMA OwnedTyped ==
  ASSUME RowTyped, NEW j, NEW m, NEW r, NEW s \in Status, SetStatusOwned(j, m, r, s)
  PROVE  RowTyped'
<1>1. j \in Jobs => (IF OwnedBy(j, m, r) THEN s ELSE row[j].status) \in Status
  BY DEF RowTyped, RowType
<1> QED BY <1>1, StatusTyped DEF SetStatusOwned

-----------------------------------------------------------------------------
(* Types of workers, for any set of pipeline counters.  A worker that is in *)
(* the pipeline holds a job; without this its writes are not well typed.    *)
WorkersTyped(pcs) ==
  /\ wk \in [Machines -> WorkerType(pcs)]
  /\ \A m \in Machines : wk[m].pc \in pcs => wk[m].job \in Jobs

LEMMA WorkersTypedClaim ==
  ASSUME NEW pcs, WorkersTyped(pcs)
  PROVE  ClaimTyped
BY DEF WorkersTyped, ClaimTyped, WorkerType

LEMMA GotoTyped ==
  ASSUME NEW pcs, WorkersTyped(pcs), NEW m \in Machines, wk[m].job \in Jobs,
         NEW p \in pcs, Goto(m, p)
  PROVE  WorkersTyped(pcs)'
BY DEF WorkersTyped, WorkerType, Goto

LEMMA RestTyped ==
  ASSUME NEW pcs, pcs \cap {"off", "idle"} = {}, WorkersTyped(pcs),
         NEW m, NEW p \in {"off", "idle"}, wk' = [wk EXCEPT ![m] = Resting(p)]
  PROVE  WorkersTyped(pcs)'
<1>1. Resting(p) \in WorkerType(pcs) /\ Resting(p).pc \notin pcs
  BY DEF Resting, WorkerType
<1> QED BY <1>1 DEF WorkersTyped

LEMMA ClaimWorkerTyped ==
  ASSUME NEW pcs, RowTyped, WorkersTyped(pcs), NEW p \in pcs, NEW m \in Machines,
         NEW j \in Jobs,
         wk' = [wk EXCEPT ![m] = [pc |-> p, job |-> j, run |-> row[j].run,
                                  known |-> FALSE]]
  PROVE  WorkersTyped(pcs)'
<1>1. row[j].run \in Nat
  BY DEF RowTyped, RowType
<1> QED BY <1>1 DEF WorkersTyped, WorkerType

-----------------------------------------------------------------------------
(* The inductive invariant.  OneActivePerSlot, RunsDistinct and SoleWorker  *)
(* need to know what a worker's claim says about its row: the row has been  *)
(* leased, has not moved back to an earlier run_id, and while it is still   *)
(* on the worker's run_id it names the worker's machine.                    *)
Unclaimed ==
  \A j \in Jobs :
    /\ row[j].status \in {"absent", "queued"} => row[j].machine = Null
    /\ row[j].status = "absent" => row[j] = NoRow

Budget ==
  \A j \in Jobs :
    /\ row[j].attempts <= MaxAttempts
    /\ row[j].status = "queued" => row[j].attempts < MaxAttempts

ClaimOf(m) ==
  LET r == row[wk[m].job] IN
  /\ r.status # "absent"
  /\ r.attempts >= 1
  /\ wk[m].run <= r.run
  /\ wk[m].run = r.run => r.machine = m

Claims == \A m \in Machines : Busy(m) => ClaimOf(m)

QueueInv ==
  /\ Unclaimed /\ Budget /\ Claims
  /\ OneActivePerSlot /\ RunsDistinct /\ SoleWorker

QueueTyped == RowTyped /\ ClaimTyped

(* A quiet step settles rows that exist or changes their heartbeat, and     *)
(* lets workers drop their jobs: everything but insert, claim and requeue.  *)
RowQuiet(j) ==
  /\ row'[j].status \in Terminal \cup {"deleted", row[j].status}
  /\ row[j].status = "absent" => row'[j] = row[j]
  /\ row'[j].machine = row[j].machine
  /\ row'[j].run = row[j].run
  /\ row'[j].attempts = row[j].attempts

RowsQuiet == \A j \in Jobs : RowQuiet(j)

WorkersQuiet ==
  \A m \in Machines :
    \/ wk'[m].job = Null
    \/ wk'[m].job = wk[m].job /\ wk'[m].run = wk[m].run

LEMMA SameQuiet == row' = row => RowsQuiet
BY DEF RowsQuiet, RowQuiet

LEMMA StatusQuiet ==
  ASSUME RowTyped, NEW j, NEW s, row' = [row EXCEPT ![j].status = s],
         j \in Jobs => \/ s = row[j].status
                       \/ s \in Terminal \cup {"deleted"} /\ row[j].status # "absent"
  PROVE  RowsQuiet
<1>1. ASSUME NEW k \in Jobs PROVE RowQuiet(k)
  <2>1. CASE k # j
    BY <2>1 DEF RowQuiet, RowTyped
  <2>2. CASE k = j
    <3>1. row'[k] = [row[k] EXCEPT !.status = s] /\ row[k] \in RowType
      BY <2>2 DEF RowTyped
    <3>2. row'[k].status = s /\ (s = row[k].status => row'[k] = row[k])
      BY <3>1 DEF RowType
    <3> QED BY <2>2, <3>1, <3>2 DEF RowQuiet, RowType
  <2> QED BY <2>1, <2>2
<1> QED BY <1>1 DEF RowsQuiet

LEMMA SetStatusQuiet ==
  ASSUME RowTyped, NEW j, NEW s \in Terminal, SetStatus(j, s),
         j \in Jobs => row[j].status # "absent"
  PROVE  RowsQuiet
BY StatusQuiet DEF SetStatus

(* A row that names a machine has been claimed.                             *)
LEMMA OwnedQuiet ==
  ASSUME RowTyped, QueueInv, NEW j, NEW m \in Machines, NEW r, NEW s \in Terminal,
         SetStatusOwned(j, m, r, s)
  PROVE  RowsQuiet
<1>1. j \in Jobs /\ OwnedBy(j, m, r) => row[j].status # "absent"
  BY QueueAssumption DEF OwnedBy, QueueInv, Unclaimed
<1> DEFINE t == IF OwnedBy(j, m, r) THEN s ELSE row[j].status
<1>2. row' = [row EXCEPT ![j].status = t]
  BY DEF SetStatusOwned
<1>3. j \in Jobs => \/ t = row[j].status
                    \/ t \in Terminal /\ row[j].status # "absent"
  BY <1>1
<1> HIDE DEF t
<1> QED BY <1>2, <1>3, StatusQuiet

LEMMA StaleQuiet ==
  ASSUME RowTyped, NEW j \in Jobs, NEW b \in BOOLEAN, row[j].status # "absent",
         row' = [row EXCEPT ![j].stale = b]
  PROVE  RowsQuiet
BY DEF RowsQuiet, RowQuiet, RowTyped, RowType

LEMMA FailQuiet == RowTyped /\ FailExhausted => RowsQuiet
BY DEF RowsQuiet, RowQuiet, RowTyped, RowType, FailExhausted, Exhausted, Stuck, Terminal

LEMMA RestQuiet ==
  ASSUME NEW pcs, WorkersTyped(pcs), NEW m, NEW p, wk' = [wk EXCEPT ![m] = Resting(p)]
  PROVE  WorkersQuiet
BY DEF WorkersTyped, WorkersQuiet, Resting

LEMMA GotoQuiet ==
  ASSUME NEW pcs, WorkersTyped(pcs), NEW m, NEW p, Goto(m, p)
  PROVE  WorkersQuiet
BY DEF WorkersTyped, WorkerType, WorkersQuiet, Goto

LEMMA QueueInitInv == QueueInit => QueueInv
<1> SUFFICES ASSUME QueueInit PROVE QueueInv
  OBVIOUS
<1>1. \A j \in Jobs : /\ row[j] = NoRow /\ row[j].status = "absent"
                       /\ row[j].machine = Null /\ row[j].attempts = 0
  BY DEF QueueInit, NoRow
<1>2. \A m \in Machines : ~Busy(m)
  BY DEF QueueInit, Busy, Resting
<1>3. Unclaimed /\ OneActivePerSlot
  BY <1>1 DEF Unclaimed, OneActivePerSlot, Active
<1>4. Budget
  BY <1>1, QueueAssumption DEF Budget
<1>5. Claims /\ RunsDistinct /\ SoleWorker
  BY <1>2 DEF Claims, RunsDistinct, SoleWorker
<1> QED BY <1>3, <1>4, <1>5 DEF QueueInv

LEMMA QuietStep ==
  ASSUME QueueTyped, QueueTyped', QueueInv, RowsQuiet, WorkersQuiet
  PROVE  QueueInv'
<1>1. ASSUME NEW j \in Jobs, row'[j].status \in Active
      PROVE  row[j].status = row'[j].status
  BY <1>1 DEF RowsQuiet, RowQuiet, Active, Terminal
<1>2. ASSUME NEW m \in Machines, Busy(m)'
      PROVE  Busy(m) /\ wk'[m].job = wk[m].job /\ wk'[m].run = wk[m].run
  BY <1>2 DEF WorkersQuiet, Busy
<1>3. Unclaimed'
  BY DEF QueueInv, Unclaimed, RowsQuiet, RowQuiet, Terminal
<1>4. Budget'
  BY <1>1 DEF QueueInv, Budget, RowsQuiet, RowQuiet, Active
<1>5. Claims'
  <2> SUFFICES ASSUME NEW m \in Machines, Busy(m)' PROVE ClaimOf(m)'
    BY DEF Claims
  <2>1. wk[m].job \in Jobs
    BY <1>2 DEF QueueTyped, ClaimTyped, Busy
  <2>2. RowQuiet(wk[m].job) /\ ClaimOf(m)
    BY <1>2, <2>1 DEF RowsQuiet, QueueInv, Claims
  <2> QED BY <1>2, <2>2 DEF ClaimOf, RowQuiet, Terminal
<1>6. OneActivePerSlot'
  BY <1>1 DEF QueueInv, OneActivePerSlot
<1>7. RunsDistinct'
  BY <1>2 DEF QueueInv, RunsDistinct, Busy
<1>8. SoleWorker'
  <2> SUFFICES ASSUME NEW m \in Machines, NEW n \in Machines, m # n, Busy(m)',
                      wk'[m].job = wk'[n].job
               PROVE  row'[wk'[m].job].attempts > 1
    BY DEF SoleWorker
  <2>1. /\ wk'[m].job = wk[m].job /\ wk[m].job = wk[n].job /\ Busy(m)
        /\ wk[m].job \in Jobs
    BY <1>2 DEF Busy, QueueTyped, ClaimTyped
  <2>2. row'[wk[m].job].attempts = row[wk[m].job].attempts
    BY <2>1 DEF RowsQuiet, RowQuiet
  <2> QED BY <2>1, <2>2 DEF QueueInv, SoleWorker
<1> QED BY <1>3, <1>4, <1>5, <1>6, <1>7, <1>8 DEF QueueInv

LEMMA InsertStep ==
  ASSUME QueueTyped, QueueInv, NEW j \in Jobs, row[j].status = "absent",
         SlotFree(j), InsertRow(j), wk' = wk
  PROVE  QueueInv'
<1>1. /\ row'[j] = [NoRow EXCEPT !.status = "queued"]
      /\ \A k \in Jobs \ {j} : row'[k] = row[k]
  BY DEF InsertRow, QueueTyped, RowTyped
<1>2. Unclaimed'
  BY <1>1 DEF QueueInv, Unclaimed, NoRow
<1>3. Budget'
  BY <1>1, QueueAssumption DEF QueueInv, Budget, NoRow
<1>4. \A m \in Machines : Busy(m) => wk[m].job \in Jobs \ {j}
  BY DEF QueueInv, Claims, ClaimOf, QueueTyped, ClaimTyped, Busy
<1>5. Claims'
  BY <1>1, <1>4 DEF QueueInv, Claims, ClaimOf, Busy
<1>6. OneActivePerSlot'
  BY <1>1 DEF QueueInv, OneActivePerSlot, SlotFree
<1>7. RunsDistinct' /\ SoleWorker'
  BY <1>1, <1>4 DEF QueueInv, RunsDistinct, SoleWorker, Busy
<1> QED BY <1>2, <1>3, <1>5, <1>6, <1>7 DEF QueueInv

(* The worker that claims joins a row no worker of that run_id is on.       *)
LEMMA ClaimStep ==
  ASSUME QueueTyped, QueueInv, NEW m \in Machines, NEW j \in Jobs,
         row[j].status = "queued", ClaimRow(j, m),
         wk'[m].job = j, wk'[m].run = row[j].run,
         \A n \in Machines \ {m} : wk'[n] = wk[n]
  PROVE  QueueInv'
<1>1. /\ row'[j] = [status |-> "processing", machine |-> m, run |-> row[j].run,
                    attempts |-> row[j].attempts + 1, stale |-> FALSE]
      /\ \A k \in Jobs \ {j} : row'[k] = row[k]
  BY DEF ClaimRow, QueueTyped, RowTyped
<1>2. row[j].attempts \in Nat /\ row[j].run \in Nat
  BY DEF QueueTyped, RowTyped, RowType
<1>3. ASSUME NEW n \in Machines, Busy(n), wk[n].job = j
      PROVE  wk[n].run < row[j].run /\ row[j].attempts >= 1
  <2>1. ClaimOf(n) /\ row[j].machine = Null
    BY <1>3 DEF QueueInv, Claims, Unclaimed
  <2>2. wk[n].run \in Nat
    BY DEF QueueTyped, ClaimTyped
  <2>3. wk[n].run # row[j].run
    BY <1>3, <2>1, QueueAssumption DEF ClaimOf
  <2> QED BY <1>2, <1>3, <2>1, <2>2, <2>3 DEF ClaimOf
<1>4. Unclaimed'
  BY <1>1 DEF QueueInv, Unclaimed
<1>5. Budget'
  BY <1>1, <1>2, QueueAssumption DEF QueueInv, Budget
<1>6. Claims'
  <2> SUFFICES ASSUME NEW n \in Machines, Busy(n)' PROVE ClaimOf(n)'
    BY DEF Claims
  <2>1. CASE n = m
    BY <1>1, <1>2, <2>1 DEF ClaimOf
  <2>2. CASE n # m
    <3>1. Busy(n) /\ ClaimOf(n) /\ wk[n].job \in Jobs /\ wk[n].run \in Nat
      BY <2>2 DEF Busy, QueueInv, Claims, QueueTyped, ClaimTyped
    <3>2. CASE wk[n].job = j
      BY <1>1, <1>2, <1>3, <2>2, <3>1, <3>2 DEF ClaimOf
    <3>3. CASE wk[n].job # j
      BY <1>1, <2>2, <3>1, <3>3 DEF ClaimOf
    <3> QED BY <3>2, <3>3
  <2> QED BY <2>1, <2>2
<1>7. OneActivePerSlot'
  BY <1>1 DEF QueueInv, OneActivePerSlot, Active
<1>8. RunsDistinct'
  BY <1>2, <1>3, QueueAssumption DEF QueueInv, RunsDistinct, Busy, QueueTyped, ClaimTyped
<1>9. SoleWorker'
  <2> SUFFICES ASSUME NEW k \in Machines, NEW n \in Machines, k # n, Busy(k)',
                      wk'[k].job = wk'[n].job
               PROVE  row'[wk'[k].job].attempts > 1
    BY DEF SoleWorker
  <2>1. CASE wk'[k].job = j
    <3>1. \E i \in {k, n} : i # m
      OBVIOUS
    <3>2. PICK i \in Machines : i # m /\ Busy(i) /\ wk[i].job = j
      BY <2>1, <3>1, QueueAssumption DEF Busy
    <3> QED BY <1>1, <1>2, <1>3, <2>1, <3>2
  <2>2. CASE wk'[k].job # j
    <3>1. k # m /\ n # m
      BY <2>2
    <3>2. Busy(k) /\ wk[k].job = wk[n].job /\ wk[k].job \in Jobs \ {j}
      BY <2>2, <3>1 DEF Busy, QueueTyped, ClaimTyped
    <3> QED BY <1>1, <3>1, <3>2 DEF QueueInv, SoleWorker
  <2> QED BY <2>1, <2>2
<1> QED BY <1>4, <1>5, <1>6, <1>7, <1>8, <1>9 DEF QueueInv

(* A requeued row leaves its worker on an older run_id.                     *)
LEMMA RecoverStep ==
  ASSUME QueueTyped, QueueInv, RecoverStuck, wk' = wk
  PROVE  QueueInv'
<1>1. \A j \in Jobs :
        \/ row'[j] = row[j]
        \/ /\ row[j].status = "processing" /\ row[j].attempts < MaxAttempts
           /\ row'[j].status = "queued" /\ row'[j].machine = Null
           /\ row'[j].run = row[j].run + 1 /\ row'[j].attempts = row[j].attempts
  BY DEF RecoverStuck, Recoverable, Stuck, Requeued
<1>2. Unclaimed' /\ Budget'
  BY <1>1 DEF QueueInv, Unclaimed, Budget
<1>3. Claims'
  <2> SUFFICES ASSUME NEW m \in Machines, Busy(m) PROVE ClaimOf(m)'
    BY DEF Claims, Busy
  <2>1. /\ ClaimOf(m) /\ wk[m].job \in Jobs /\ wk[m].run \in Nat
        /\ row[wk[m].job].run \in Nat
    BY DEF QueueInv, Claims, QueueTyped, ClaimTyped, RowTyped, RowType, Busy
  <2>2. CASE row'[wk[m].job] = row[wk[m].job]
    BY <2>1, <2>2 DEF ClaimOf
  <2>3. CASE row'[wk[m].job] # row[wk[m].job]
    BY <1>1, <2>1, <2>3 DEF ClaimOf
  <2> QED BY <2>2, <2>3
<1>4. OneActivePerSlot'
  BY <1>1 DEF QueueInv, OneActivePerSlot, Active
<1>5. RunsDistinct'
  BY DEF QueueInv, RunsDistinct, Busy
<1>6. SoleWorker'
  <2>1. \A m \in Machines : Busy(m) => wk[m].job \in Jobs
    BY DEF Busy, QueueTyped, ClaimTyped
  <2>2. \A j \in Jobs : row'[j].attempts = row[j].attempts
    BY <1>1
  <2> QED BY <2>1, <2>2 DEF QueueInv, SoleWorker, Busy
<1> QED BY <1>2, <1>3, <1>4, <1>5, <1>6 DEF QueueInv

-----------------------------------------------------------------------------
(* The four kinds of step as steps of JobLease.                             *)
LeaseOf(r) ==
  CASE r.status = "absent"     -> "none"
    [] r.status = "queued"     -> "waiting"
    [] r.status = "processing" -> "leased"
    [] OTHER                   -> "settled"

LEMMA LeaseByRow ==
  /\ LeaseState = [j \in Jobs |-> LeaseOf(row[j])]
  /\ LeaseState' = [j \in Jobs |-> LeaseOf(row'[j])]
BY DEF LeaseState, LeaseOf

LEMMA LeaseInit == QueueInit => Lease!Init
<1> SUFFICES ASSUME QueueInit PROVE Lease!Init
  OBVIOUS
<1>1. \A j \in Jobs : row[j].status = "absent" /\ row[j].attempts = 0
  BY DEF QueueInit, NoRow
<1> QED BY <1>1, LeaseByRow DEF Lease!Init, LeaseOf, LeaseTries

LEMMA QuietLease ==
  ASSUME QueueTyped, QueueTyped', RowsQuiet
  PROVE  \E S \in SUBSET Jobs : Lease!Settle(S)
<1> DEFINE S == {j \in Jobs : row[j].status \in Active /\ row'[j].status \notin Active}
<1>1. LeaseTries' = LeaseTries
  BY DEF LeaseTries, RowsQuiet, RowQuiet
<1>2. \A j \in S : LeaseOf(row[j]) \in Lease!Open
  BY DEF LeaseOf, Lease!Open, Active
<1>3. \A j \in S : LeaseOf(row'[j]) = "settled"
  BY DEF LeaseOf, RowsQuiet, RowQuiet, Terminal, Active
<1>4. ASSUME NEW j \in Jobs \ S PROVE LeaseOf(row'[j]) = LeaseOf(row[j])
  <2>1. RowQuiet(j) /\ row[j].status \in Status
    BY DEF RowsQuiet, QueueTyped, RowTyped, RowType
  <2> QED BY <2>1 DEF LeaseOf, RowQuiet, Status, Active, Terminal
<1>5. Lease!Settle(S)
  BY <1>1, <1>2, <1>3, <1>4, LeaseByRow DEF Lease!Settle
<1> QED BY <1>5

LEMMA InsertLease ==
  ASSUME QueueTyped, NEW j \in Jobs, row[j].status = "absent", QueueInv,
         SlotFree(j), InsertRow(j)
  PROVE  Lease!Submit(j)
<1>1. /\ row'[j].status = "queued" /\ row'[j].attempts = row[j].attempts
      /\ \A k \in Jobs \ {j} : row'[k] = row[k]
  BY DEF InsertRow, NoRow, QueueTyped, RowTyped, QueueInv, Unclaimed
<1>2. LeaseTries' = LeaseTries
  BY <1>1 DEF LeaseTries
<1>3. \A k \in Jobs : SlotOf[k] = SlotOf[j] => LeaseOf(row[k]) \notin Lease!Open
  BY DEF SlotFree, LeaseOf, Lease!Open, Active
<1>4. LeaseOf(row[j]) = "none" /\ LeaseOf(row'[j]) = "waiting"
  BY <1>1 DEF LeaseOf
<1> QED BY <1>1, <1>2, <1>3, <1>4, LeaseByRow DEF Lease!Submit

LEMMA ClaimLease ==
  ASSUME QueueTyped, QueueInv, NEW m \in Machines, NEW j \in Jobs,
         row[j].status = "queued", ClaimRow(j, m)
  PROVE  Lease!Grant(j)
<1>1. /\ row'[j].status = "processing" /\ row'[j].attempts = row[j].attempts + 1
      /\ \A k \in Jobs \ {j} : row'[k] = row[k]
  BY DEF ClaimRow, QueueTyped, RowTyped
<1>2. LeaseTries' = [LeaseTries EXCEPT ![j] = LeaseTries[j] + 1]
  BY <1>1 DEF LeaseTries
<1>3. LeaseTries[j] < MaxAttempts
  BY DEF QueueInv, Budget, LeaseTries
<1>4. LeaseOf(row[j]) = "waiting" /\ LeaseOf(row'[j]) = "leased"
  BY <1>1 DEF LeaseOf
<1> QED BY <1>1, <1>2, <1>3, <1>4, LeaseByRow DEF Lease!Grant

LEMMA RecoverLease ==
  ASSUME QueueTyped, RecoverStuck
  PROVE  Lease!HandBack(Recoverable)
<1>1. \A j \in Jobs :
        /\ j \in Recoverable => row'[j].status = "queued"
        /\ j \notin Recoverable => row'[j] = row[j]
        /\ row'[j].attempts = row[j].attempts
  BY DEF RecoverStuck, Requeued
<1>2. LeaseTries' = LeaseTries
  BY <1>1 DEF LeaseTries
<1>3. \A j \in Recoverable : LeaseOf(row[j]) = "leased" /\ LeaseOf(row'[j]) = "waiting"
  BY <1>1 DEF Recoverable, Stuck, LeaseOf
<1>4. Recoverable \subseteq Jobs /\ \A j \in Recoverable : LeaseTries[j] < MaxAttempts
  BY DEF Recoverable, LeaseTries
<1> QED BY <1>1, <1>2, <1>3, <1>4, LeaseByRow DEF Lease!HandBack

-----------------------------------------------------------------------------
(* What JobLease promises, read on the rows.                                *)

(* The unique index, and the accounting of attempts: no row is claimed more *)
(* often than max_attempts, and one that is queued has an attempt left, so  *)
(* that it never waits for a claim that claim_scan_job cannot give.         *)
QueueKept ==
  /\ OneActivePerSlot
  /\ \A j \in Jobs :
       /\ row[j].attempts <= MaxAttempts
       /\ row[j].status = "queued" => row[j].attempts < MaxAttempts

(* A row that is over is never queued or processing again.                  *)
Settled(j) == row[j].status \notin Active \cup {"absent"}
SettledStays == \A j \in Jobs : Settled(j) => Settled(j)'

LeaseStages == {"none", "waiting", "leased", "settled"}
LEMMA LeaseWords ==
  /\ LeaseState \in [Jobs -> LeaseStages]
  /\ \A j \in Jobs : /\ LeaseState[j] \in Lease!Open <=> row[j].status \in Active
                     /\ LeaseState[j] = "waiting" <=> row[j].status = "queued"
                     /\ LeaseState[j] = "settled" <=> Settled(j)
                     /\ LeaseTries[j] = row[j].attempts
BY DEF LeaseState, LeaseTries, Lease!Open, Active, Settled, LeaseStages

LeaseKept ==
  /\ LeaseState \in [Jobs -> LeaseStages] /\ LeaseTries \in [Jobs -> Nat]
  /\ \A j, k \in Jobs : LeaseState[j] \in Lease!Open /\ LeaseState[k] \in Lease!Open
                        /\ SlotOf[j] = SlotOf[k] => j = k
  /\ \A j \in Jobs : /\ LeaseTries[j] <= MaxAttempts
                     /\ LeaseState[j] \in {"none", "waiting"} => LeaseTries[j] < MaxAttempts

LEMMA LeaseKeeps == LeaseKept /\ [Lease!Next]_(Lease!leaseVars) => LeaseKept'
<1> SUFFICES ASSUME LeaseKept, [Lease!Next]_(Lease!leaseVars) PROVE LeaseKept'
  OBVIOUS
<1> USE QueueAssumption DEF LeaseKept, LeaseStages, Lease!Open
<1>1. ASSUME NEW j \in Jobs, Lease!Submit(j) PROVE LeaseKept'
  <2>1. /\ LeaseState'[j] = "waiting" /\ LeaseState[j] = "none"
        /\ \A k \in Jobs \ {j} : LeaseState'[k] = LeaseState[k]
        /\ LeaseTries' = LeaseTries
    BY <1>1 DEF Lease!Submit
  <2>2. \A k \in Jobs : SlotOf[k] = SlotOf[j] => LeaseState[k] \notin Lease!Open
    BY <1>1 DEF Lease!Submit
  <2>3. LeaseTries[j] < MaxAttempts
    BY <2>1
  <2> QED BY <1>1, <2>1, <2>2, <2>3 DEF Lease!Submit
<1>2. ASSUME NEW j \in Jobs, Lease!Grant(j) PROVE LeaseKept'
  BY <1>2 DEF Lease!Grant
<1>3. ASSUME NEW S \in SUBSET Jobs, Lease!HandBack(S) PROVE LeaseKept'
  BY <1>3 DEF Lease!HandBack
<1>4. ASSUME NEW S \in SUBSET Jobs, Lease!Settle(S) PROVE LeaseKept'
  BY <1>4 DEF Lease!Settle
<1>5. CASE UNCHANGED Lease!leaseVars
  BY <1>5 DEF Lease!leaseVars
<1> QED BY <1>1, <1>2, <1>3, <1>4, <1>5 DEF Lease!Next

LEMMA LeaseSettles ==
  [Lease!Next]_(Lease!leaseVars) =>
    \A j \in Jobs : LeaseState[j] = "settled" => LeaseState'[j] = "settled"
BY LeaseWords
   DEF Lease!Next, Lease!Submit, Lease!Grant, Lease!HandBack, Lease!Settle, Lease!Open,
       Lease!leaseVars

(* Whatever implements JobLease keeps the queue: one open row per slot,     *)
(* bounded attempts, and no claimable row without an attempt left.          *)
THEOREM LeaseGivesQueue == Lease!Spec => []QueueKept
<1>1. Lease!Init => LeaseKept
  BY QueueAssumption DEF Lease!Init, LeaseKept, LeaseStages, Lease!Open
<1>2. ASSUME LeaseKept PROVE QueueKept
  <2>1. OneActivePerSlot
    BY <1>2, LeaseWords DEF LeaseKept, OneActivePerSlot
  <2>2. \A j \in Jobs : /\ row[j].attempts <= MaxAttempts
                        /\ row[j].status = "queued" => row[j].attempts < MaxAttempts
    BY <1>2, LeaseWords DEF LeaseKept
  <2> QED BY <2>1, <2>2 DEF QueueKept
<1> QED BY <1>1, <1>2, LeaseKeeps, PTL DEF Lease!Spec

(* ... and never takes a settled row up again.                              *)
THEOREM LeaseGivesEnds == Lease!Spec => [][SettledStays]_row
<1>1. ASSUME [Lease!Next]_(Lease!leaseVars) PROVE SettledStays
  <2> SUFFICES ASSUME NEW j \in Jobs, Settled(j) PROVE Settled(j)'
    BY DEF SettledStays
  <2>1. LeaseState[j] = "settled"
    BY LeaseWords
  <2>2. LeaseState'[j] = "settled"
    BY <1>1, <2>1, LeaseSettles
  <2>3. LeaseState'[j] = LeaseOf(row'[j])
    BY LeaseByRow
  <2> QED BY <2>2, <2>3 DEF LeaseOf, Settled, Active
<1> QED BY <1>1, PTL DEF Lease!Spec
=============================================================================
