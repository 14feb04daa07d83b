----------------------------- MODULE FleetProofs ----------------------------
(***************************************************************************)
(* The size of the fleet, the reaper and the rows under them, for any      *)
(* number of backend instances, machines, rows and faults.                 *)
(***************************************************************************)
EXTENDS Fleet, ScanQueueProofs, FiniteSetTheorems

MachineType == WorkerType({"boot", "run", "hung"})
TickType ==
  [pc : {"idle", "snapshot", "count", "provision", "again", "note", "unlock",
         "queued?", "processing?", "direct"},
   running : SUBSET Machines, claimable : Nat, todo : 0..Batch, pool : SUBSET Warm,
   made : Machines \cup {Null}, error : BOOLEAN]
ReapType ==
  [pc : {"idle", "running", "beating", "starting", "stop"},
   cand : SUBSET Machines, blind : 0..2, late : SUBSET Machines]

(* Rows: a row that is processing has a machine.                            *)
RowsFit ==
  /\ RowTyped
  /\ \A j \in Jobs : row[j].status = "processing" => row[j].machine \in Machines

(* Machines: only one that runs holds a job.                                *)
MachinesFit ==
  /\ wk \in [Machines -> MachineType]
  /\ \A m \in Machines : Busy(m) => wk[m].pc = "run"
  /\ fresh \subseteq On /\ extra \subseteq On

(* Ticks: what is left to start is left to one that is starting.            *)
TicksFit ==
  /\ tick \in [Dispatchers -> TickType]
  /\ \A d \in Dispatchers :
       /\ tick[d].todo > 0 => tick[d].pc \in {"provision", "again", "note"}
       /\ tick[d].pc \in {"provision", "again"} => tick[d].todo > 0

(* The reaper: a working machine is still a candidate only if the reads so  *)
(* far could not show it.                                                   *)
ReapFits ==
  /\ reap \in ReapType
  /\ reap.pc = "idle" => reap.cand = {}
  /\ reap.pc = "running" => reap.blind = 0
  /\ reap.pc = "beating" => reap.blind <= 1
  /\ \A m \in reap.cand \ reap.late : Working(m) =>
       /\ reap.pc = "beating" => reap.blind = 1
       /\ reap.pc \in {"starting", "stop"} => reap.blind = 2

RestFits ==
  /\ lock \in Dispatchers \cup {Null}
  /\ starting \in [Machines -> {"no", "young", "old"}]
  /\ toStop \subseteq Machines /\ overrun \in BOOLEAN /\ faults \in 0..MaxFaults

LEMMA PartsTypeOK ==
  RowsFit /\ MachinesFit /\ TicksFit /\ ReapFits /\ RestFits => TypeOK
BY DEF TypeOK, RowsFit, RowTyped, MachinesFit, TicksFit, ReapFits, RestFits, MachineType,
       TickType, ReapType

-----------------------------------------------------------------------------
(* Rows.                                                                    *)
RowsStay == \A j \in Jobs : /\ row'[j].status = "processing" => row[j].status = "processing"
                            /\ row[j].machine = row'[j].machine \/ row'[j].status # "processing"

LEMMA RowsStayFit ==
  ASSUME RowsFit, RowTyped', RowsStay
  PROVE  RowsFit'
BY DEF RowsFit, RowsStay

LEMMA SubmitRow ==
  ASSUME RowsFit, NEW j \in Jobs, Submit(j)
  PROVE  RowTyped' /\ RowsStay
BY InsertTyped DEF RowsFit, RowTyped, RowsStay, Submit, InsertRow, NoRow

LEMMA ClaimRowFits ==
  ASSUME RowsFit, NEW m \in Machines, Claim(m, "run")
  PROVE  RowsFit'
<1>1. PICK j \in Jobs : ClaimRow(j, m)
  BY DEF Claim
<1>2. RowTyped'
  BY <1>1, ClaimRowTyped DEF RowsFit
<1> QED BY <1>1, <1>2 DEF RowsFit, RowTyped, ClaimRow

LEMMA FinishRow ==
  ASSUME RowsFit, NEW m \in Machines, Finish(m)
  PROVE  RowTyped' /\ RowsStay
<1>1. "completed" \in Status
  BY DEF Status, Terminal
<1>2. RowTyped'
  BY <1>1, OwnedTyped DEF RowsFit, Finish
<1> QED BY <1>2 DEF RowsFit, RowTyped, RowType, RowsStay, Finish, SetStatusOwned

LEMMA StaleRow ==
  ASSUME RowsFit, NEW j, NEW b \in BOOLEAN, row' = [row EXCEPT ![j].stale = b]
  PROVE  RowTyped' /\ RowsStay
<1>1. RowTyped'
  BY StaleTyped DEF RowsFit
<1> QED BY <1>1 DEF RowsFit, RowTyped, RowType, RowsStay

LEMMA RecoverRow == RowsFit /\ Recover => RowTyped' /\ RowsStay
<1> SUFFICES ASSUME RowsFit, Recover PROVE RowTyped' /\ RowsStay
  OBVIOUS
<1>1. RowTyped'
  BY RecoverTyped DEF RowsFit, Recover
<1>2. \A j \in Jobs : row'[j] = row[j] \/ row'[j].status = "queued"
  BY DEF Recover, RecoverStuck, Requeued
<1> QED BY <1>1, <1>2 DEF RowsStay

LEMMA FailRow == RowsFit /\ Fail => RowTyped' /\ RowsStay
<1> SUFFICES ASSUME RowsFit, Fail PROVE RowTyped' /\ RowsStay
  OBVIOUS
<1>1. RowTyped'
  BY FailTyped DEF RowsFit, Fail
<1>2. \A j \in Jobs : row'[j] = row[j] \/ row'[j].status = "failed"
  BY DEF Fail, FailExhausted, RowsFit, RowTyped, RowType
<1> QED BY <1>1, <1>2 DEF RowsStay

(* Which actions change rows at all.                                        *)
RowChange ==
  \/ \E j \in Jobs : Submit(j) \/ Ages(j)
  \/ \E m \in Machines : ClaimJob(m) \/ Finish(m) \/ Ping(m)
  \/ Recover \/ Fail

LEMMA RowRest == [Next]_vars => RowChange \/ UNCHANGED row
BY DEF Next, TickStep, TickFault, MachineStep, ReapStep, RecoveryStep, RowChange, vars,
   TakeLock, Snapshot, Count, Reuse, Burst, Direct, ProvisionFails, DirectFails, Note, Unlock,
   AnyQueued, NoneProcessing, LockError, CountNoRedis, CountNoFly, BurstRepeated,
   StartedUnseen, BackendDies, Booted, Exit, IdleExit, Crash, Hang, StartingAges, GraceEnds,
   LockExpires, ReapList, ReapRunning, ReapBeating, ReapRead, ReapStarting, ReapStop, ReapEnds,
   StopFailed

LEMMA RowsNext ==
  ASSUME RowsFit, [Next]_vars
  PROVE  RowsFit'
<1>1. ASSUME NEW j \in Jobs, Ages(j) PROVE RowsFit'
  BY <1>1, StaleRow, RowsStayFit DEF Ages
<1>2. ASSUME NEW m \in Machines, Ping(m) PROVE RowsFit'
  BY <1>2, StaleRow, RowsStayFit DEF Ping, Heartbeat
<1>3. ASSUME NEW m \in Machines, ClaimJob(m) PROVE RowsFit'
  BY <1>3, ClaimRowFits DEF ClaimJob
<1>4. CASE UNCHANGED row
  BY <1>4 DEF RowsFit, RowTyped
<1> QED BY <1>1, <1>2, <1>3, <1>4, RowRest, SubmitRow, FinishRow, RecoverRow, FailRow,
           RowsStayFit DEF RowChange

-----------------------------------------------------------------------------
(* Machines: one is started, goes off, or goes on.                          *)
Starts(m) ==
  /\ TurnOn(m)
  /\ fresh' \in {fresh, fresh \cup {m}} /\ extra' \in {extra, extra \cup {m}}

GoesOff(m) ==
  wk' = [wk EXCEPT ![m] = Resting("off")] /\ fresh' = fresh \ {m} /\ extra' = extra \ {m}

GoesOn(m, r) ==
  /\ m \in On /\ r \in MachineType /\ r.pc # "off"
  /\ r.job # Null => r.pc = "run"
  /\ wk' = [wk EXCEPT ![m] = r] /\ UNCHANGED <<fresh, extra>>

LEMMA RestingType ==
  \A pc \in {"boot", "run", "hung", "off", "idle"} :
    /\ Resting(pc) \in MachineType
    /\ Resting(pc).pc = pc /\ Resting(pc).job = Null
BY DEF Resting, MachineType, WorkerType

LEMMA StartsFit ==
  ASSUME MachinesFit, NEW m \in Machines, Starts(m)
  PROVE  MachinesFit' /\ On' = On \cup {m}
<1>1. wk' = wk \/ (wk[m].pc = "off" /\ wk' = [wk EXCEPT ![m] = Resting("boot")])
  BY DEF Starts, TurnOn, MachinesFit
<1>2. wk' \in [Machines -> MachineType] /\ \A n \in Machines : Busy(n)' => wk'[n].pc = "run"
  BY <1>1, RestingType DEF MachinesFit, Busy
<1>3. On' = On \cup {m}
  BY RestingType DEF On, Starts, TurnOn, MachinesFit
<1> QED BY <1>2, <1>3 DEF MachinesFit, Starts

LEMMA GoesOffFits ==
  ASSUME MachinesFit, NEW m \in Machines, GoesOff(m)
  PROVE  MachinesFit' /\ On' = On \ {m}
<1>1. wk' \in [Machines -> MachineType] /\ \A n \in Machines : Busy(n)' => wk'[n].pc = "run"
  BY RestingType DEF MachinesFit, Busy, GoesOff
<1>2. On' = On \ {m}
  BY RestingType DEF On, GoesOff, MachinesFit
<1> QED BY <1>1, <1>2 DEF MachinesFit, GoesOff

LEMMA GoesOnFits ==
  ASSUME MachinesFit, NEW m, NEW r, GoesOn(m, r)
  PROVE  MachinesFit' /\ On' = On
<1>1. m \in Machines
  BY DEF GoesOn, On
<1>2. wk' \in [Machines -> MachineType] /\ \A n \in Machines : Busy(n)' => wk'[n].pc = "run"
  BY <1>1 DEF MachinesFit, Busy, GoesOn
<1>3. On' = On
  BY <1>1 DEF On, GoesOn, MachinesFit
<1> QED BY <1>2, <1>3 DEF MachinesFit, GoesOn

LEMMA AloneFits ==
  ASSUME MachinesFit, UNCHANGED <<wk, extra>>, fresh' \subseteq fresh
  PROVE  MachinesFit' /\ On' = On
BY DEF MachinesFit, On, Busy

(* Each step of the system does one of these to the machines.               *)
TickStarts(d, m) ==
  Reuse(d, m) \/ Burst(d, m) \/ Direct(d, m) \/ BurstRepeated(d, m) \/ StartedUnseen(d, m)

MachineKind ==
  \/ \E d \in Dispatchers, m \in Machines : TickStarts(d, m) /\ Starts(m)
  \/ \E m \in Machines : GoesOff(m) /\ UNCHANGED tick
  \/ \E m \in Machines : \E r \in MachineType : GoesOn(m, r) /\ UNCHANGED tick
  \/ UNCHANGED <<wk, extra>> /\ fresh' \subseteq fresh

LEMMA OnKinds ==
  ASSUME RowsFit, MachinesFit, NEW m \in Machines, Booted(m) \/ ClaimJob(m) \/ Finish(m) \/ Hang(m)
  PROVE  \E r \in MachineType : GoesOn(m, r)
<1>1. wk[m] \in MachineType
  BY DEF MachinesFit
<1>2. CASE Booted(m)
  <2> DEFINE r == [wk[m] EXCEPT !.pc = "idle"]
  <2>1. r \in MachineType /\ r.pc = "idle" /\ r.job = Null
    BY <1>1, <1>2 DEF Booted, MachineType, WorkerType, MachinesFit, Busy
  <2>2. wk' = [wk EXCEPT ![m] = r]
    BY <1>1, <1>2 DEF Booted, Goto, MachinesFit, MachineType, WorkerType
  <2> QED BY <1>2, <2>1, <2>2 DEF Booted, GoesOn, On, history
<1>3. CASE ClaimJob(m)
  <2>1. PICK j \in Jobs : wk' = [wk EXCEPT ![m] = [pc |-> "run", job |-> j, run |-> row[j].run,
                                                     known |-> FALSE]]
    BY <1>3 DEF ClaimJob, Claim
  <2>2. [pc |-> "run", job |-> j, run |-> row[j].run, known |-> FALSE] \in MachineType
    BY DEF MachineType, WorkerType, RowsFit, RowTyped, RowType
  <2> QED BY <1>3, <2>1, <2>2 DEF ClaimJob, Claim, GoesOn, On, history
<1>4. CASE Finish(m)
  BY <1>4, RestingType DEF Finish, Release, GoesOn, On, history
<1>5. CASE Hang(m)
  BY <1>5, RestingType DEF Hang, GoesOn, history
<1> QED BY <1>2, <1>3, <1>4, <1>5

LEMMA Kinds ==
  ASSUME RowsFit, MachinesFit, ReapFits, RestFits, [Next]_vars
  PROVE  MachineKind
<1>1. ASSUME NEW d \in Dispatchers, NEW m \in Machines, TickStarts(d, m) PROVE MachineKind
  BY <1>1 DEF TickStarts, Reuse, Burst, Direct, BurstRepeated, StartedUnseen, MachineKind,
     Starts, history
<1>2. ASSUME NEW m \in Machines, Booted(m) \/ ClaimJob(m) \/ Finish(m) \/ Hang(m)
      PROVE  MachineKind
  BY <1>2, OnKinds DEF MachineKind, Booted, ClaimJob, Finish, Hang, control
<1>3. ASSUME NEW m \in Machines, Exit(m) \/ Crash(m) PROVE MachineKind
  BY <1>3 DEF MachineKind, GoesOff, Exit, IdleExit, Crash, TurnOff, PowerOff, control
<1>4. ASSUME NEW m \in Machines, StopFailed(m) PROVE MachineKind
  BY <1>4 DEF MachineKind, GoesOff, StopFailed, TurnOff, PowerOff, control
<1>5. ASSUME NEW m \in Machines, ReapStop(m) PROVE MachineKind
  BY <1>5 DEF MachineKind, GoesOff, ReapStop, TurnOff, PowerOff, control
<1>6. ASSUME NEW m \in Machines, Ping(m) \/ StartingAges(m) \/ GraceEnds(m) PROVE MachineKind
  BY <1>6 DEF MachineKind, Ping, Heartbeat, StartingAges, GraceEnds, history
<1>7. ASSUME NEW j \in Jobs, Submit(j) \/ Ages(j) PROVE MachineKind
  BY <1>7 DEF MachineKind, Submit, Ages, history
<1>8. ASSUME NEW d \in Dispatchers,
             \/ TakeLock(d) \/ Snapshot(d) \/ Count(d) \/ ProvisionFails(d) \/ DirectFails(d)
             \/ Note(d) \/ Unlock(d) \/ AnyQueued(d) \/ NoneProcessing(d)
             \/ LockError(d) \/ CountNoRedis(d) \/ CountNoFly(d) \/ BackendDies(d)
      PROVE  UNCHANGED <<wk, extra, fresh>>
  BY <1>8 DEF TakeLock, Snapshot, Count, ProvisionFails, DirectFails, Note, Unlock,
     AnyQueued, NoneProcessing, LockError, CountNoRedis, CountNoFly, BackendDies, history
<1>9. CASE LockExpires \/ ReapList \/ ReapRunning \/ ReapBeating \/ ReapStarting \/ ReapEnds
           \/ Recover \/ Fail \/ UNCHANGED vars
  BY <1>9 DEF MachineKind, LockExpires, ReapList, ReapRunning, ReapBeating, ReapRead,
     ReapStarting, ReapEnds, Recover, Fail, vars, history
<1> QED BY <1>1, <1>2, <1>3, <1>4, <1>5, <1>6, <1>7, <1>8, <1>9
        DEF Next, TickStep, TickFault, MachineStep, ReapStep, RecoveryStep, TickStarts, MachineKind

LEMMA MachinesNext ==
  ASSUME MachinesFit, MachineKind
  PROVE  MachinesFit'
BY StartsFit, GoesOffFits, GoesOnFits, AloneFits DEF MachineKind

-----------------------------------------------------------------------------
(* Arithmetic.                                                              *)
LEMMA MinTwo ==
  ASSUME NEW a \in Int, NEW b \in Int
  PROVE  Min({a, b}) \in {a, b} /\ Min({a, b}) <= a /\ Min({a, b}) <= b
<1>1. \E x \in {a, b} : \A y \in {a, b} : x =< y
  BY a <= b \/ b <= a
<1> QED BY <1>1 DEF Min

LEMMA MaxTwo ==
  ASSUME NEW a \in Int, NEW b \in Int
  PROVE  Max({a, b}) \in {a, b} /\ Max({a, b}) >= a /\ Max({a, b}) >= b
<1>1. \E x \in {a, b} : \A y \in {a, b} : x >= y
  BY a <= b \/ b <= a
<1> QED BY <1>1 DEF Max

LEMMA FiniteParts ==
  /\ \A S \in SUBSET Machines : IsFiniteSet(S) /\ Cardinality(S) \in Nat
  /\ \A S, T \in SUBSET Machines : S \subseteq T => Cardinality(S) <= Cardinality(T)
<1>1. \A S \in SUBSET Machines : IsFiniteSet(S) /\ Cardinality(S) \in Nat
  BY FleetAssumption, FS_Subset, FS_CardinalityType
<1> QED BY <1>1, FS_Subset

LEMMA BacklogType == Backlog \in Nat
<1>1. IsFiniteSet(Jobs) /\ Cardinality(Jobs) \in Nat
  BY FleetAssumption, FS_CardinalityType
<1>2. IsFiniteSet({OrgOf[j] : j \in Jobs})
  <2> DEFINE f == [j \in Jobs |-> OrgOf[j]]
  <2>1. f \in Surjection(Jobs, {OrgOf[j] : j \in Jobs})
    BY DEF Surjection
  <2> QED BY <1>1, <2>1, FS_Surjection
<1>3. IsFiniteSet(1..Cardinality(Jobs))
  BY <1>1, FS_Interval
<1>4. IsFiniteSet({OrgOf[j] : j \in Jobs} \X (1..Cardinality(Jobs)))
  BY <1>2, <1>3, FS_Product
<1> QED BY <1>4, FS_Subset, FS_CardinalityType DEF Backlog

(* startN never starts more than a batch, and never above the fleet.        *)
LEMMA TodoBound ==
  ASSUME MachinesFit, TicksFit, NEW d \in Dispatchers, NEW S \in SUBSET Machines
  PROVE  LET n == Todo(d, Cardinality(S)) IN
         /\ n \in 0..Batch
         /\ n = 0 \/ n + Cardinality(S) <= MaxFleet
<1> DEFINE c == Cardinality(S)
           want == Cardinality(tick[d].running) + tick[d].claimable
           desired == Min({MaxFleet, want})
           room == Min({desired - c, Batch})
<1>1. c \in Nat /\ Cardinality(tick[d].running) \in Nat /\ tick[d].claimable \in Nat
  BY FiniteParts DEF TicksFit, TickType
<1>2. want \in Int /\ MaxFleet \in Nat /\ Batch \in Nat \ {0}
  BY <1>1, FleetAssumption
<1>3. desired \in Int /\ desired <= MaxFleet
  BY <1>2, MinTwo
<1>4. Todo(d, Cardinality(S)) = Max({0, room})
  BY DEF Todo
<1> HIDE DEF desired
<1>5. c = Cardinality(S)
  OBVIOUS
<1> HIDE DEF c
<1>6. room \in Int /\ room <= desired - c /\ room <= Batch
  <2>1. desired - c \in Int /\ Batch \in Int
    BY <1>1, <1>2, <1>3
  <2> QED BY <2>1, MinTwo
<1> HIDE DEF room
<1>7. Max({0, room}) \in {0, room} /\ Max({0, room}) >= 0
  <2>1. 0 \in Int /\ room \in Int
    BY <1>6
  <2> QED BY <2>1, MaxTwo
<1> QED BY <1>1, <1>2, <1>3, <1>6, <1>4, <1>7, <1>5

-----------------------------------------------------------------------------
(* Ticks.                                                                   *)
TickFits(r) ==
  /\ r \in TickType
  /\ r.todo > 0 => r.pc \in {"provision", "again", "note"}
  /\ r.pc \in {"provision", "again"} => r.todo > 0

AtWork(r) == r.pc \in {"snapshot", "count", "provision", "again", "note", "unlock"}

(* The record that a step of instance d leaves: it holds what tick[d] held, *)
(* or less; or it has used one of its starts; or it has counted.            *)
Keeps(d) == \E r \in TickType :
  /\ Step(d, r) /\ TickFits(r) /\ r.todo <= tick[d].todo
  /\ AtWork(r) => Live(d) \/ TakeLock(d)

Uses(d) == \E r \in TickType :
  /\ Step(d, r) /\ TickFits(r) /\ tick[d].todo > 0 /\ r.todo = tick[d].todo - 1
  /\ Live(d)

Counts(d) == \E r \in TickType :
  /\ Step(d, r) /\ TickFits(r) /\ Live(d) /\ tick[d].todo = 0
  /\ r.todo = 0 \/ r.todo + Cardinality(On) <= MaxFleet

BlankPcs == {"idle", "snapshot", "unlock", "queued?", "processing?", "direct"}

Blank(p, e) == [pc |-> p, running |-> {}, claimable |-> 0, todo |-> 0, pool |-> {},
                made |-> Null, error |-> e]

LEMMA BlankForms ==
  /\ NoTick = Blank("idle", FALSE)
  /\ \A p \in BlankPcs : [NoTick EXCEPT !.pc = p] = Blank(p, FALSE)
  /\ \A p \in BlankPcs : [NoTick EXCEPT !.pc = p, !.error = TRUE] = Blank(p, TRUE)
<1>1. NoTick = Blank("idle", FALSE)
  BY DEF NoTick, Blank, BlankPcs
<1>2. ASSUME NEW p \in BlankPcs PROVE [NoTick EXCEPT !.pc = p] = Blank(p, FALSE)
  <2>1. ASSUME NEW r, r = [NoTick EXCEPT !.pc = p] PROVE r = Blank(p, FALSE)
    BY <2>1 DEF NoTick, Blank, BlankPcs
  <2> QED BY <2>1
<1>3. ASSUME NEW p \in BlankPcs PROVE [NoTick EXCEPT !.pc = p, !.error = TRUE] = Blank(p, TRUE)
  <2>1. ASSUME NEW r, r = [NoTick EXCEPT !.pc = p, !.error = TRUE] PROVE r = Blank(p, TRUE)
    BY <2>1 DEF NoTick, Blank, BlankPcs
  <2> QED BY <2>1
<1> QED BY <1>1, <1>2, <1>3

LEMMA BlankTick ==
  ASSUME NEW p \in BlankPcs,
         NEW e \in BOOLEAN
  PROVE  TickFits(Blank(p, e)) /\ Blank(p, e).todo = 0 /\ Blank(p, e).pc = p
<1> DEFINE r == Blank(p, e)
<1>1. r \in TickType
  BY FleetAssumption DEF TickType, Blank, BlankPcs
<1>2. r.todo = 0 /\ r.pc = p
  BY DEF Blank
<1> HIDE DEF r
<1>3. r.pc \notin {"provision", "again"}
  BY <1>2 DEF BlankPcs
<1>4. TickFits(r)
  BY <1>1, <1>2, <1>3 DEF TickFits
<1> QED BY <1>2, <1>4 DEF r

LEMMA RoundFits ==
  ASSUME NEW r \in TickType
  PROVE  TickFits(Round(r)) /\ Round(r).todo = r.todo
<1>1. Round(r) \in TickType /\ Round(r).todo = r.todo
      /\ Round(r).pc = IF r.todo > 0 THEN "provision" ELSE "unlock"
  BY DEF Round, TickType
<1>2. r.todo \in Nat
  BY FleetAssumption DEF TickType
<1> QED BY <1>1, <1>2 DEF TickFits

LEMMA TickFields ==
  ASSUME TicksFit, NEW d \in Dispatchers
  PROVE  /\ tick[d] \in TickType /\ TickFits(tick[d]) /\ tick[d].todo \in Nat
         /\ Live(d) <=> AtWork(tick[d])
BY FleetAssumption DEF TicksFit, TickType, TickFits, Live, AtWork

LEMMA KeepsBlank ==
  ASSUME TicksFit, NEW d \in Dispatchers, NEW e \in BOOLEAN,
         NEW p \in BlankPcs,
         Step(d, Blank(p, e)),
         p \in {"snapshot", "unlock"} => Live(d) \/ TakeLock(d)
  PROVE  Keeps(d)
<1> DEFINE r == Blank(p, e)
<1>1. TickFits(r) /\ r.todo = 0 /\ r.pc = p
  BY BlankTick
<1> HIDE DEF r
<1>2. AtWork(r) => Live(d) \/ TakeLock(d)
  BY <1>1 DEF AtWork, BlankPcs
<1>3. Step(d, r)
  BY DEF r
<1> QED BY <1>1, <1>2, <1>3, TickFields DEF Keeps, TickFits

LEMMA KeepsRound ==
  ASSUME TicksFit, NEW d \in Dispatchers, NEW r \in TickType, Step(d, Round(r)),
         r.todo <= tick[d].todo, Live(d)
  PROVE  Keeps(d)
BY RoundFits DEF Keeps, TickFits

LEMMA TickKeeps ==
  ASSUME RowsFit, TicksFit, NEW d \in Dispatchers,
         \/ TakeLock(d) \/ LockError(d) \/ Snapshot(d) \/ CountNoFly(d) \/ ProvisionFails(d)
         \/ Note(d) \/ Unlock(d) \/ BackendDies(d) \/ AnyQueued(d) \/ NoneProcessing(d)
         \/ DirectFails(d) \/ \E m \in Machines : Direct(d, m) \/ BurstRepeated(d, m)
  PROVE  Keeps(d)
<1>0. /\ tick[d] \in TickType /\ TickFits(tick[d]) /\ tick[d].todo \in Nat
      /\ Live(d) <=> AtWork(tick[d])
  BY TickFields
<1>1. /\ NoTick = Blank("idle", FALSE)
      /\ \A p \in BlankPcs : [NoTick EXCEPT !.pc = p] = Blank(p, FALSE)
  BY BlankForms
<1>2. ASSUME NEW p \in BlankPcs,
             NEW e \in BOOLEAN, Step(d, Blank(p, e)),
             p \in {"snapshot", "unlock"} => Live(d) \/ TakeLock(d)
      PROVE  Keeps(d)
  BY <1>2, KeepsBlank
<1>3. CASE TakeLock(d)
  BY <1>1, <1>2, <1>3 DEF TakeLock, BlankPcs
<1>4. CASE LockError(d)
  BY <1>1, <1>2, <1>4 DEF LockError, BlankPcs
<1>5. CASE Snapshot(d)
  <2>1. Live(d)
    BY <1>5 DEF Snapshot, At, Live
  <2>2. CASE Step(d, Blank("unlock", TRUE))
    BY <1>2, <2>1, <2>2 DEF BlankPcs
  <2>3. CASE Step(d, [tick[d] EXCEPT !.pc = "count", !.running = RunningIds, !.claimable = Backlog])
    <3> DEFINE r == [tick[d] EXCEPT !.pc = "count", !.running = RunningIds, !.claimable = Backlog]
    <3>1. RunningIds \subseteq Machines
      BY DEF RunningIds, RowsFit
    <3>2. r \in TickType /\ r.pc = "count" /\ r.todo = tick[d].todo
      BY <1>0, <3>1, BacklogType DEF TickType
    <3>3. tick[d].todo = 0
      BY <1>0, <1>5 DEF TickFits, Snapshot, At
    <3> HIDE DEF r
    <3>4. TickFits(r)
      BY <3>2, <3>3 DEF TickFits
    <3>5. Step(d, r)
      BY <2>3 DEF r
    <3> QED BY <1>0, <2>1, <3>2, <3>4, <3>5 DEF Keeps
  <2>4. Blank("unlock", TRUE) = [NoTick EXCEPT !.pc = "unlock", !.error = TRUE]
    BY BlankForms DEF BlankPcs
  <2> QED BY <1>5, <2>2, <2>3, <2>4 DEF Snapshot
<1>6. CASE CountNoFly(d)
  BY <1>1, <1>2, <1>6 DEF CountNoFly, At, Live, BlankPcs
<1>7. CASE ProvisionFails(d)
  <2>1. Live(d) /\ tick[d].todo > 0
    BY <1>0, <1>7 DEF ProvisionFails, At, Live, TickFits
  <2>2. PICK pool \in {tick[d].pool \ {m} : m \in tick[d].pool} \cup {tick[d].pool},
             n \in {tick[d].todo - 1, 0} :
          Step(d, Round([tick[d] EXCEPT !.pool = pool, !.todo = n]))
    BY <1>7 DEF ProvisionFails
  <2>3. pool \subseteq Warm /\ n \in 0..Batch /\ n <= tick[d].todo
    BY <1>0, <2>1, <2>2, FleetAssumption DEF TickType
  <2>4. [tick[d] EXCEPT !.pool = pool, !.todo = n] \in TickType
        /\ [tick[d] EXCEPT !.pool = pool, !.todo = n].todo = n
    BY <1>0, <2>3 DEF TickType
  <2> QED BY <2>1, <2>2, <2>3, <2>4, KeepsRound
<1>8. CASE Note(d)
  <2> DEFINE r == [tick[d] EXCEPT !.made = Null]
  <2>1. Live(d) /\ Step(d, Round(r))
    BY <1>8 DEF Note, At, Live
  <2>2. r \in TickType /\ r.todo = tick[d].todo
    BY <1>0 DEF TickType
  <2> HIDE DEF r
  <2>3. r.todo <= tick[d].todo
    BY <1>0, <2>2
  <2> QED BY <2>1, <2>2, <2>3, KeepsRound
<1>9. CASE Unlock(d)
  <2>1. PICK p \in {"queued?", "idle"} : Step(d, [NoTick EXCEPT !.pc = p])
    BY <1>9 DEF Unlock
  <2>2. p \in BlankPcs
    BY DEF BlankPcs
  <2> QED BY <1>1, <1>2, <2>1, <2>2
<1>10. CASE BackendDies(d) \/ DirectFails(d)
  BY <1>1, <1>2, <1>10 DEF BackendDies, DirectFails, BlankPcs
<1>11. CASE AnyQueued(d)
  BY <1>1, <1>2, <1>11 DEF AnyQueued, BlankPcs
<1>12. CASE NoneProcessing(d)
  BY <1>1, <1>2, <1>12 DEF NoneProcessing, BlankPcs
<1>13. ASSUME NEW m \in Machines, Direct(d, m) PROVE Keeps(d)
  BY <1>1, <1>2, <1>13 DEF Direct, BlankPcs
<1>14. ASSUME NEW m \in Machines, BurstRepeated(d, m) PROVE Keeps(d)
  <2> DEFINE r == [tick[d] EXCEPT !.pc = "again"]
  <2>1. Live(d) /\ tick[d].todo > 0 /\ Step(d, r)
    BY <1>0, <1>14 DEF BurstRepeated, At, Live, TickFits
  <2>2. r \in TickType /\ r.todo = tick[d].todo /\ r.pc = "again"
    BY <1>0 DEF TickType
  <2> HIDE DEF r
  <2> QED BY <1>0, <2>1, <2>2 DEF Keeps, TickFits
<1> QED BY <1>3, <1>4, <1>5, <1>6, <1>7, <1>8, <1>9, <1>10, <1>11, <1>12, <1>13, <1>14

LEMMA TickUses ==
  ASSUME TicksFit, NEW d \in Dispatchers, NEW m \in Machines,
         Reuse(d, m) \/ Burst(d, m) \/ StartedUnseen(d, m)
  PROVE  Uses(d)
<1>0. tick[d] \in TickType /\ TickFits(tick[d]) /\ tick[d].todo \in Nat
  BY TickFields
<1>1. Live(d) /\ tick[d].todo > 0 /\ tick[d].todo - 1 \in 0..Batch
  BY <1>0, FleetAssumption DEF Reuse, Burst, StartedUnseen, At, Live, TickFits, TickType
<1>2. CASE Reuse(d, m) \/ Burst(d, m)
  <2> DEFINE r(pool) == [tick[d] EXCEPT !.pc = "note", !.made = m, !.pool = pool,
                                        !.todo = tick[d].todo - 1]
  <2>1. /\ tick[d].pool \subseteq Warm /\ tick[d].pool \ {m} \subseteq Warm
        /\ \A P \in SUBSET Warm : r(P) \in TickType /\ r(P).pc = "note" /\ r(P).todo = tick[d].todo - 1
    BY <1>0, <1>1 DEF TickType
  <2>2. Step(d, r(tick[d].pool)) \/ Step(d, r(tick[d].pool \ {m}))
    BY <1>0, <1>2 DEF Reuse, Burst, TickType
  <2> HIDE DEF r
  <2> QED BY <1>1, <2>1, <2>2 DEF Uses, TickFits
<1>3. CASE StartedUnseen(d, m)
  <2> DEFINE r == [tick[d] EXCEPT !.pool = @ \ {m}, !.todo = @ - 1]
  <2>1. r \in TickType /\ r.todo = tick[d].todo - 1
    BY <1>0, <1>1 DEF TickType
  <2>2. Step(d, Round(r))
    BY <1>3 DEF StartedUnseen
  <2> HIDE DEF r
  <2> QED BY <1>1, <2>1, <2>2, RoundFits DEF Uses, TickFits
<1> QED BY <1>2, <1>3

LEMMA TickCounts ==
  ASSUME MachinesFit, TicksFit, RestFits, NEW d \in Dispatchers, Count(d) \/ CountNoRedis(d)
  PROVE  Counts(d)
<1>0. tick[d] \in TickType /\ TickFits(tick[d]) /\ tick[d].running \subseteq Machines
      /\ tick[d].pc = "count" /\ Live(d) /\ tick[d].todo = 0
  BY TickFields DEF TickType, TickFits, Count, CountNoRedis, At, Live
<1>1. PICK S \in SUBSET Machines : On \subseteq S /\ Counted(d, S)
  BY <1>0 DEF Count, CountNoRedis, On
<1>2. PICK pool \in SUBSET (Warm \ On) :
        Step(d, Round([tick[d] EXCEPT !.todo = Todo(d, Cardinality(S)), !.pool = pool,
                                      !.running = {}, !.claimable = 0]))
  BY <1>1 DEF Counted
<1> DEFINE n == Todo(d, Cardinality(S))
           r == [tick[d] EXCEPT !.todo = n, !.pool = pool, !.running = {}, !.claimable = 0]
<1>3. n \in 0..Batch /\ (n = 0 \/ n + Cardinality(S) <= MaxFleet)
  BY TodoBound
<1>4. Cardinality(On) <= Cardinality(S) /\ Cardinality(On) \in Nat /\ Cardinality(S) \in Nat
  BY <1>1, FiniteParts DEF On
<1>5. Step(d, Round(r))
  BY <1>2
<1> HIDE DEF n
<1>6. r \in TickType /\ r.todo = n
  BY <1>0, <1>3 DEF TickType
<1> HIDE DEF r
<1>7. Round(r) \in TickType /\ Round(r).todo = n /\ TickFits(Round(r))
  BY <1>6, RoundFits DEF TickFits
<1>8. n = 0 \/ n + Cardinality(On) <= MaxFleet
  BY <1>3, <1>4, FleetAssumption
<1> QED BY <1>0, <1>5, <1>7, <1>8 DEF Counts

(* A step of the tick of d changes no other tick.                           *)
LEMMA StepTick ==
  ASSUME TicksFit, NEW d \in Dispatchers, NEW r \in TickType, Step(d, r), TickFits(r)
  PROVE  /\ TicksFit' /\ tick'[d] = r
         /\ \A e \in Dispatchers \ {d} : tick'[e] = tick[e]
BY DEF TicksFit, Step, TickFits

(* The steps of the system, by what they do to ticks and machines.          *)
StepKind ==
  \/ \E d \in Dispatchers, m \in Machines : Uses(d) /\ Starts(m) /\ UNCHANGED extra
  \/ \E d \in Dispatchers, m \in Machines : Keeps(d) /\ Starts(m) /\ extra' = extra \cup {m}
  \/ \E d \in Dispatchers : (Keeps(d) \/ Counts(d)) /\ UNCHANGED <<wk, extra>>
  \/ UNCHANGED tick /\ \/ \E m \in Machines : GoesOff(m)
                       \/ \E m \in Machines : \E r \in MachineType : GoesOn(m, r)
                       \/ UNCHANGED <<wk, extra>>

LEMMA StepKinds ==
  ASSUME RowsFit, MachinesFit, TicksFit, ReapFits, RestFits, [Next]_vars
  PROVE  StepKind
<1>1. ASSUME NEW d \in Dispatchers, NEW m \in Machines,
             Reuse(d, m) \/ Burst(d, m) \/ StartedUnseen(d, m)
      PROVE  StepKind
  <2>1. Starts(m) /\ UNCHANGED extra
    BY <1>1 DEF Reuse, Burst, StartedUnseen, Starts, history
  <2> QED BY <1>1, <2>1, TickUses DEF StepKind
<1>2. ASSUME NEW d \in Dispatchers, NEW m \in Machines, Direct(d, m) \/ BurstRepeated(d, m)
      PROVE  StepKind
  <2>1. Starts(m) /\ extra' = extra \cup {m}
    BY <1>2 DEF Direct, BurstRepeated, Starts
  <2> QED BY <1>2, <2>1, TickKeeps DEF StepKind
<1>3. ASSUME NEW d \in Dispatchers,
             \/ TakeLock(d) \/ Snapshot(d) \/ Count(d) \/ ProvisionFails(d) \/ DirectFails(d)
             \/ Note(d) \/ Unlock(d) \/ AnyQueued(d) \/ NoneProcessing(d)
             \/ LockError(d) \/ CountNoRedis(d) \/ CountNoFly(d) \/ BackendDies(d)
      PROVE  StepKind
  <2>1. UNCHANGED <<wk, extra>>
    BY <1>3 DEF TakeLock, Snapshot, Count, ProvisionFails, DirectFails, Note, Unlock,
       AnyQueued, NoneProcessing, LockError, CountNoRedis, CountNoFly, BackendDies, history
  <2>2. Keeps(d) \/ Counts(d)
    BY <1>3, TickKeeps, TickCounts
  <2> QED BY <2>1, <2>2 DEF StepKind
<1>4. CASE UNCHANGED tick
  BY <1>1, <1>2, <1>4, Kinds DEF MachineKind, StepKind, TickStarts
<1>5. CASE LockExpires \/ ReapStep \/ RecoveryStep
  BY <1>5, <1>4 DEF LockExpires, ReapStep, RecoveryStep, ReapList, ReapRunning, ReapBeating,
     ReapRead, ReapStarting, ReapStop, ReapEnds, Recover, Fail, StopFailed, control
<1>6. ASSUME NEW m \in Machines, MachineStep(m) \/ Crash(m) \/ Hang(m) \/ Ping(m)
                                 \/ StartingAges(m) \/ GraceEnds(m)
      PROVE  StepKind
  BY <1>6, <1>4 DEF MachineStep, Booted, ClaimJob, Finish, Exit, Crash, Hang, Ping,
     StartingAges, GraceEnds, control
<1>7. ASSUME NEW j \in Jobs, Submit(j) \/ Ages(j) PROVE StepKind
  BY <1>7, <1>4 DEF Submit, Ages, control
<1>8. CASE UNCHANGED vars
  BY <1>8, <1>4 DEF vars
<1> QED BY <1>1, <1>2, <1>3, <1>5, <1>6, <1>7, <1>8 DEF Next, TickStep, TickFault

LEMMA TicksNext ==
  ASSUME TicksFit, StepKind
  PROVE  TicksFit'
BY StepTick DEF StepKind, Uses, Keeps, Counts, TicksFit

-----------------------------------------------------------------------------
(* The lock, and the rest of the variables.                                 *)
LEMMA RestNext ==
  ASSUME RowsFit, MachinesFit, RestFits, [Next]_vars
  PROVE  RestFits'
<1> USE DEF control, history
<1>0. MaxFaults \in Nat /\ \A j \in Jobs : row[j].machine \in Machines \cup {Null}
  BY FleetAssumption DEF RowsFit, RowTyped, RowType
<1>1. Fault \/ NoFault \/ UNCHANGED faults => faults' \in 0..MaxFaults
  BY <1>0 DEF Fault, NoFault, RestFits
<1>2. ASSUME UNCHANGED <<lock, toStop, overrun>>, starting' \in [Machines -> {"no", "young", "old"}],
             Fault \/ NoFault \/ UNCHANGED faults
      PROVE  RestFits'
  BY <1>1, <1>2 DEF RestFits
<1>3. starting \in [Machines -> {"no", "young", "old"}]
  BY DEF RestFits
<1>4. ASSUME NEW d \in Dispatchers, TickStep(d) PROVE RestFits'
  <2>1. ASSUME NEW m \in Machines, Reuse(d, m) \/ Burst(d, m) \/ Direct(d, m) PROVE RestFits'
    BY <1>2, <1>3, <2>1 DEF Reuse, Burst, Direct
  <2>2. CASE Count(d)
    BY <1>2, <1>3, <2>2 DEF Count, Prune
  <2>3. CASE Note(d)
    BY <1>2, <1>3, <2>3 DEF Note
  <2>4. CASE Unlock(d) \/ TakeLock(d)
    BY <1>1, <2>4 DEF Unlock, TakeLock, RestFits
  <2>5. CASE Snapshot(d) \/ ProvisionFails(d) \/ DirectFails(d) \/ AnyQueued(d) \/ NoneProcessing(d)
    BY <1>2, <1>3, <2>5 DEF Snapshot, ProvisionFails, DirectFails, AnyQueued, NoneProcessing
  <2> QED BY <1>4, <2>1, <2>2, <2>3, <2>4, <2>5 DEF TickStep
<1>5. ASSUME NEW d \in Dispatchers, TickFault(d) PROVE RestFits'
  <2>1. ASSUME NEW m \in Machines, BurstRepeated(d, m) \/ StartedUnseen(d, m) PROVE RestFits'
    BY <1>2, <1>3, <2>1 DEF BurstRepeated, StartedUnseen
  <2>2. CASE CountNoRedis(d) \/ CountNoFly(d)
    BY <1>2, <1>3, <2>2 DEF CountNoRedis, CountNoFly, Prune
  <2>3. CASE LockError(d) \/ BackendDies(d)
    BY <1>1, <2>3 DEF LockError, BackendDies, RestFits
  <2> QED BY <1>5, <2>1, <2>2, <2>3 DEF TickFault
<1>6. ASSUME NEW m \in Machines, MachineStep(m) \/ Crash(m) \/ Hang(m) \/ Ping(m)
                                 \/ StartingAges(m) \/ GraceEnds(m)
      PROVE  RestFits'
  BY <1>2, <1>3, <1>6 DEF MachineStep, Booted, ClaimJob, Finish, Exit, Crash, Hang, Ping,
     StartingAges, GraceEnds
<1>7. ASSUME NEW j \in Jobs, Submit(j) \/ Ages(j) PROVE RestFits'
  BY <1>2, <1>3, <1>7 DEF Submit, Ages
<1>8. CASE LockExpires
  BY <1>1, <1>8 DEF LockExpires, RestFits
<1>9. CASE ReapStep
  BY <1>2, <1>3, <1>9 DEF ReapStep, ReapList, ReapRunning, ReapBeating, ReapRead, ReapStarting,
     ReapStop, ReapEnds
<1>10. CASE Recover
  BY <1>2, <1>3, <1>10 DEF Recover
<1>11. CASE Fail
  <2>1. {row[j].machine : j \in Exhausted} \subseteq Machines
    BY DEF Exhausted, Stuck, RowsFit
  <2> QED BY <1>1, <1>11, <2>1 DEF Fail, RestFits
<1>12. ASSUME NEW m \in Machines, StopFailed(m) PROVE RestFits'
  BY <1>1, <1>12 DEF StopFailed, RestFits
<1>13. CASE UNCHANGED vars
  BY <1>2, <1>3, <1>13 DEF vars
<1> QED BY <1>4, <1>5, <1>6, <1>7, <1>8, <1>9, <1>10, <1>11, <1>12, <1>13 DEF Next, RecoveryStep

(* A tick at work holds the lock, until a lock runs out too early.          *)
LockHeld == ~overrun => \A d \in Dispatchers : Live(d) => lock = d

LEMMA LockNext ==
  ASSUME RowsFit, MachinesFit, TicksFit, RestFits, LockHeld, [Next]_vars
  PROVE  LockHeld'
<1> USE DEF LockHeld, control, history
<1>0. Null \notin Dispatchers
  BY FleetAssumption
<1>1. ASSUME \A d \in Dispatchers : Live(d)' => Live(d), UNCHANGED <<lock, overrun>>
      PROVE  LockHeld'
  BY <1>1
<1>2. CASE UNCHANGED <<tick, lock, overrun>>
  BY <1>1, <1>2 DEF Live
<1>3. ASSUME NEW d \in Dispatchers, Keeps(d) \/ Uses(d) \/ Counts(d), ~TakeLock(d)
      PROVE  /\ \A e \in Dispatchers \ {d} : Live(e)' <=> Live(e)
             /\ Live(d)' => Live(d)
  BY <1>3, StepTick DEF Keeps, Uses, Counts, Live, AtWork
<1>4. ASSUME NEW d \in Dispatchers, TakeLock(d) PROVE LockHeld'
  <2>1. ~overrun' => \A e \in Dispatchers : ~Live(e)
    BY <1>0, <1>4 DEF TakeLock, LockFree
  <2>2. lock' = d /\ \A e \in Dispatchers \ {d} : tick'[e] = tick[e]
    BY <1>4 DEF TakeLock, Step, TicksFit
  <2> QED BY <2>1, <2>2 DEF Live
<1>5. ASSUME NEW d \in Dispatchers, LockError(d) PROVE LockHeld'
  <2>1. /\ \A e \in Dispatchers \ {d} : Live(e)' <=> Live(e)
        /\ ~Live(d)'
    <3>1. Keeps(d) /\ ~TakeLock(d) /\ ~Live(d)
      <4>1. Step(d, Blank("queued?", FALSE))
        BY <1>5, BlankForms DEF LockError, BlankPcs
      <4>2. "queued?" \in BlankPcs
        BY DEF BlankPcs
      <4>3. tick'[d].pc = "queued?"
        BY <4>1, <4>2, BlankTick DEF Step, TicksFit
      <4>4. ~TakeLock(d)
        <5>1. ASSUME TakeLock(d) PROVE tick'[d].pc = "snapshot"
          <6>1. Step(d, Blank("snapshot", FALSE)) /\ "snapshot" \in BlankPcs
            BY <5>1, BlankForms DEF TakeLock, BlankPcs
          <6> QED BY <6>1, BlankTick DEF Step, TicksFit
        <5> QED BY <4>3, <5>1
      <4> QED BY <1>5, <4>4, TickKeeps DEF LockError, At, Live
    <3> QED BY <1>3, <3>1
  <2>2. lock' = lock \/ lock = Null
    BY <1>5 DEF LockError
  <2> QED BY <1>0, <1>5, <2>1, <2>2 DEF LockError
<1>6. ASSUME NEW d \in Dispatchers, Unlock(d) PROVE LockHeld'
  <2>1. /\ \A e \in Dispatchers \ {d} : tick'[e] = tick[e]
        /\ ~Live(d)'
    <3>1. PICK p \in {"queued?", "idle"} : Step(d, [NoTick EXCEPT !.pc = p])
      BY <1>6 DEF Unlock
    <3>2. Step(d, Blank(p, FALSE)) /\ p \in BlankPcs
      BY <3>1, BlankForms DEF BlankPcs
    <3>3. tick'[d].pc = p
      BY <3>2, BlankTick DEF Step, TicksFit
    <3> QED BY <3>2, <3>3 DEF Step, TicksFit, Live
  <2> QED BY <1>6, <2>1 DEF Unlock, Live
<1>7. CASE LockExpires
  <2>1. \A d \in Dispatchers : Live(d)' <=> Live(d)
    BY <1>7 DEF LockExpires, Live
  <2> QED BY <1>7, <2>1 DEF LockExpires, RestFits
<1>8. ASSUME NEW d \in Dispatchers, TickStep(d) \/ TickFault(d),
             ~TakeLock(d), ~LockError(d), ~Unlock(d)
      PROVE  LockHeld'
  <2>1. UNCHANGED <<lock, overrun>>
    BY <1>8 DEF TickStep, TickFault, Snapshot, Count, Reuse, Burst, Direct, ProvisionFails,
       DirectFails, Note, AnyQueued, NoneProcessing, CountNoRedis, CountNoFly, BurstRepeated,
       StartedUnseen, BackendDies
  <2>2. Keeps(d) \/ Uses(d) \/ Counts(d)
    BY <1>8, TickKeeps, TickUses, TickCounts DEF TickStep, TickFault
  <2> QED BY <1>1, <1>3, <1>8, <2>1, <2>2
<1>9. ASSUME NEW m \in Machines, MachineStep(m) \/ Crash(m) \/ Hang(m) \/ Ping(m)
                                 \/ StartingAges(m) \/ GraceEnds(m)
      PROVE  LockHeld'
  BY <1>2, <1>9 DEF MachineStep, Booted, ClaimJob, Finish, Exit, Crash, Hang, Ping,
     StartingAges, GraceEnds
<1>10. ASSUME NEW j \in Jobs, Submit(j) \/ Ages(j) PROVE LockHeld'
  BY <1>2, <1>10 DEF Submit, Ages
<1>11. CASE ReapStep \/ RecoveryStep
  BY <1>2, <1>11 DEF ReapStep, RecoveryStep, ReapList, ReapRunning, ReapBeating, ReapRead,
     ReapStarting, ReapStop, ReapEnds, Recover, Fail, StopFailed
<1>12. CASE UNCHANGED vars
  BY <1>2, <1>12 DEF vars
<1> QED BY <1>4, <1>5, <1>6, <1>7, <1>8, <1>9, <1>10, <1>11, <1>12 DEF Next

-----------------------------------------------------------------------------
(* The size of the fleet.  Counted machines and what ticks may still start  *)
(* stay within FLY_MAX_FLEET while the lock keeps ticks apart, and within   *)
(* one batch more for each other instance in any case.                      *)
InFleet == On \ extra
Owed    == {p \in Dispatchers \X (1..Batch) : p[2] <= tick[p[1]].todo}

WithinFleet ==
  ~overrun => /\ Cardinality(InFleet) <= MaxFleet
              /\ \A d \in Dispatchers : Cardinality(InFleet) + tick[d].todo <= MaxFleet

WithinBatches ==
  Cardinality(InFleet) + Cardinality(Owed) <= MaxFleet + (Cardinality(Dispatchers) - 1) * Batch

LEMMA Interval ==
  ASSUME NEW n \in Nat
  PROVE  IsFiniteSet(1..n) /\ Cardinality(1..n) = n
<1>1. IsFiniteSet(1..n) /\ Cardinality(1..n) = IF 1 > n THEN 0 ELSE n - 1 + 1
  <2>1. 1 \in Int /\ n \in Int
    OBVIOUS
  <2> QED BY <2>1, FS_Interval
<1>2. (IF 1 > n THEN 0 ELSE n - 1 + 1) = n
  OBVIOUS
<1> QED BY <1>1, <1>2

LEMMA Numbers ==
  /\ MaxFleet \in Nat /\ Batch \in Nat \ {0}
  /\ Cardinality(Dispatchers) \in Nat \ {0} /\ IsFiniteSet(Dispatchers)
  /\ IsFiniteSet(InFleet) /\ Cardinality(InFleet) \in Nat
  /\ IsFiniteSet(Dispatchers \X (1..Batch))
  /\ IsFiniteSet(Owed) /\ Cardinality(Owed) \in Nat
<1>1. MaxFleet \in Nat /\ Batch \in Nat \ {0} /\ IsFiniteSet(Dispatchers) /\ Dispatchers # {}
  BY FleetAssumption
<1>2. Cardinality(Dispatchers) \in Nat \ {0}
  BY <1>1, FS_CardinalityType, FS_EmptySet
<1>3. IsFiniteSet(InFleet) /\ Cardinality(InFleet) \in Nat
  BY FiniteParts DEF InFleet, On
<1>4. IsFiniteSet(Dispatchers \X (1..Batch))
  <2>1. IsFiniteSet(1..Batch)
    BY <1>1, Interval
  <2> QED BY <1>1, <2>1, FS_Product
<1>5. IsFiniteSet(Owed) /\ Cardinality(Owed) \in Nat
  BY <1>4, FS_Subset, FS_CardinalityType DEF Owed
<1> QED BY <1>1, <1>2, <1>3, <1>4, <1>5

LEMMA NumbersNext ==
  /\ IsFiniteSet(InFleet') /\ Cardinality(InFleet') \in Nat
  /\ IsFiniteSet(Owed') /\ Cardinality(Owed') \in Nat
<1>1. IsFiniteSet(InFleet') /\ Cardinality(InFleet') \in Nat
  BY FiniteParts DEF InFleet, On
<1>2. IsFiniteSet(Owed') /\ Cardinality(Owed') \in Nat
  BY Numbers, FS_Subset, FS_CardinalityType DEF Owed
<1> QED BY <1>1, <1>2

LEMMA Fewer ==
  ASSUME NEW S, NEW T, IsFiniteSet(T), S \subseteq T
  PROVE  Cardinality(S) <= Cardinality(T)
BY FS_Subset

(* No more machines, and no more to start.                                  *)
LEMMA CapKeeps ==
  ASSUME TicksFit, TicksFit', WithinFleet, WithinBatches, overrun' = FALSE => overrun = FALSE,
         RestFits, RestFits', InFleet' \subseteq InFleet,
         \A d \in Dispatchers : tick'[d].todo <= tick[d].todo
  PROVE  WithinFleet' /\ WithinBatches'
<1>1. \A d \in Dispatchers : tick[d].todo \in Nat /\ tick'[d].todo \in Nat
  BY FleetAssumption DEF TicksFit, TickType
<1>2. Owed' \subseteq Owed
  BY <1>1, Numbers DEF Owed
<1>3. Cardinality(InFleet') <= Cardinality(InFleet) /\ Cardinality(Owed') <= Cardinality(Owed)
  BY <1>2, Numbers, Fewer
<1>4. WithinFleet'
  BY <1>1, <1>3, Numbers, NumbersNext DEF WithinFleet, RestFits
<1>5. (Cardinality(Dispatchers) - 1) * Batch \in Nat
  BY Numbers
<1>6. WithinBatches'
  BY <1>3, <1>5, Numbers, NumbersNext DEF WithinBatches
<1> QED BY <1>4, <1>6

(* One machine more, out of the headroom of the tick that starts it.        *)
LEMMA CapUses ==
  ASSUME TicksFit, MachinesFit, LockHeld, WithinFleet, WithinBatches, RestFits, RestFits',
         overrun' = FALSE => overrun = FALSE,
         NEW d \in Dispatchers, NEW m, Uses(d), InFleet' \subseteq InFleet \cup {m}
  PROVE  WithinFleet' /\ WithinBatches'
<1>1. /\ \A e \in Dispatchers : tick[e].todo \in 0..Batch
      /\ tick'[d].todo = tick[d].todo - 1 /\ tick[d].todo > 0 /\ Live(d)
      /\ \A e \in Dispatchers \ {d} : tick'[e] = tick[e]
  BY StepTick DEF Uses, TicksFit, TickType
<1>2. Cardinality(InFleet') <= Cardinality(InFleet) + 1
  <2>1. IsFiniteSet(InFleet \cup {m}) /\ Cardinality(InFleet \cup {m}) <= Cardinality(InFleet) + 1
    <3>1. IsFiniteSet(InFleet) /\ Cardinality(InFleet) \in Nat
      BY Numbers
    <3>2. /\ IsFiniteSet(InFleet \cup {m})
          /\ Cardinality(InFleet \cup {m}) = IF m \in InFleet THEN Cardinality(InFleet)
                                             ELSE Cardinality(InFleet) + 1
      BY <3>1, FS_AddElement
    <3> QED BY <3>1, <3>2
  <2> QED BY <2>1, Fewer, Numbers, NumbersNext, FS_CardinalityType
<1>3. Cardinality(Owed') = Cardinality(Owed) - 1
  <2>1. <<d, tick[d].todo>> \in Owed
    BY <1>1, Numbers DEF Owed
  <2>2. Owed' = Owed \ {<<d, tick[d].todo>>}
    BY <1>1, Numbers DEF Owed
  <2> QED BY <2>1, <2>2, Numbers, FS_RemoveElement
<1>4. WithinFleet'
  <2> SUFFICES ASSUME ~overrun'
               PROVE  /\ Cardinality(InFleet') <= MaxFleet
                      /\ \A e \in Dispatchers : Cardinality(InFleet') + tick'[e].todo <= MaxFleet
    BY DEF WithinFleet
  <2>1. ~overrun
    BY DEF RestFits
  <2>2. \A e \in Dispatchers \ {d} : tick[e].todo = 0
    <3>1. \A e \in Dispatchers \ {d} : ~Live(e)
      BY <1>1, <2>1 DEF LockHeld
    <3> QED BY <1>1, <3>1, Numbers DEF TicksFit, Live
  <2>3. Cardinality(InFleet) + tick[d].todo <= MaxFleet
    BY <2>1 DEF WithinFleet
  <2> QED BY <1>1, <1>2, <2>2, <2>3, Numbers, NumbersNext
<1>5. (Cardinality(Dispatchers) - 1) * Batch \in Nat
  BY Numbers
<1>6. WithinBatches'
  BY <1>2, <1>3, <1>5, Numbers, NumbersNext DEF WithinBatches
<1> QED BY <1>4, <1>6

(* A tick counts: what it may start fits above what is on.                  *)
LEMMA CapCounts ==
  ASSUME TicksFit, MachinesFit, LockHeld, WithinFleet, WithinBatches, RestFits, RestFits',
         overrun' = FALSE => overrun = FALSE,
         NEW d \in Dispatchers, Counts(d), InFleet' = InFleet
  PROVE  WithinFleet' /\ WithinBatches'
<1>1. /\ \A e \in Dispatchers : tick[e].todo \in 0..Batch
      /\ tick[d].todo = 0 /\ tick'[d].todo \in 0..Batch
      /\ tick'[d].todo = 0 \/ tick'[d].todo + Cardinality(On) <= MaxFleet
      /\ \A e \in Dispatchers \ {d} : tick'[e] = tick[e]
  BY StepTick DEF Counts, TicksFit, TickType
<1>2. Cardinality(InFleet) <= Cardinality(On) /\ Cardinality(On) \in Nat
  BY FiniteParts DEF InFleet, On
<1> DEFINE n == tick'[d].todo
<1>3. n = 0 \/ Cardinality(InFleet) + n <= MaxFleet
  BY <1>1, <1>2, Numbers
<1>4. WithinFleet'
  BY <1>1, <1>3, Numbers DEF WithinFleet, RestFits
<1>5. CASE n = 0
  <2>1. Owed' \subseteq Owed
    BY <1>1, <1>5, Numbers DEF Owed
  <2>2. (Cardinality(Dispatchers) - 1) * Batch \in Nat
    BY Numbers
  <2>3. Cardinality(Owed') <= Cardinality(Owed)
    BY <2>1, Numbers, Fewer
  <2> QED BY <1>4, <2>2, <2>3, Numbers, NumbersNext DEF WithinBatches
<1>6. CASE n # 0
  <2> DEFINE mine == {d} \X (1..n)
             rest == (Dispatchers \ {d}) \X (1..Batch)
  <2>1. n \in Nat /\ Cardinality(InFleet) + n <= MaxFleet
    BY <1>1, <1>3, <1>6, Numbers
  <2>2. Cardinality(mine) = n /\ IsFiniteSet(mine)
    <3>1. IsFiniteSet({d}) /\ Cardinality({d}) = 1
      BY FS_Singleton
    <3>2. IsFiniteSet(1..n) /\ Cardinality(1..n) = n
      BY <2>1, Interval
    <3>3. IsFiniteSet(mine) /\ Cardinality(mine) = Cardinality({d}) * Cardinality(1..n)
      BY <3>1, <3>2, FS_Product
    <3> HIDE DEF mine, n
    <3>4. 1 * n = n
      BY <2>1
    <3> QED BY <3>1, <3>2, <3>3, <3>4
  <2>3. /\ IsFiniteSet(Dispatchers \ {d}) /\ Cardinality(Dispatchers \ {d}) = Cardinality(Dispatchers) - 1
    BY Numbers, FS_RemoveElement
  <2>4. Cardinality(1..Batch) = Batch /\ IsFiniteSet(1..Batch)
    BY Numbers, Interval
  <2>5. Cardinality(rest) = (Cardinality(Dispatchers) - 1) * Batch /\ IsFiniteSet(rest)
    <3>1. IsFiniteSet(rest)
          /\ Cardinality(rest) = Cardinality(Dispatchers \ {d}) * Cardinality(1..Batch)
      BY <2>3, <2>4, FS_Product
    <3> QED BY <2>3, <2>4, <3>1
  <2>6. Owed' \subseteq mine \cup rest
    BY <1>1, Numbers DEF Owed
  <2>7. IsFiniteSet(mine \cup rest) /\ Cardinality(mine \cup rest) <= Cardinality(mine) + Cardinality(rest)
    <3>1. IsFiniteSet(mine \cup rest)
          /\ Cardinality(mine \cup rest) = Cardinality(mine) + Cardinality(rest) - Cardinality(mine \cap rest)
      BY <2>2, <2>5, FS_Union
    <3>2. IsFiniteSet(mine \cap rest) /\ Cardinality(mine \cap rest) \in Nat
      BY <2>2, FS_Intersection, FS_CardinalityType
    <3>3. (Cardinality(Dispatchers) - 1) * Batch \in Nat
      BY Numbers
    <3> HIDE DEF mine, rest, n
    <3> QED BY <2>1, <2>2, <2>5, <3>1, <3>2, <3>3
  <2>8. Cardinality(Owed') <= Cardinality(mine \cup rest) /\ Cardinality(mine \cup rest) \in Nat
    BY <2>6, <2>7, Fewer, FS_CardinalityType
  <2>9. (Cardinality(Dispatchers) - 1) * Batch \in Nat
    BY Numbers
  <2> HIDE DEF mine, rest, n
  <2>10. Cardinality(Owed') <= n + (Cardinality(Dispatchers) - 1) * Batch
    BY <2>1, <2>2, <2>5, <2>7, <2>8, <2>9, NumbersNext
  <2> QED BY <1>4, <2>1, <2>9, <2>10, Numbers, NumbersNext DEF WithinBatches
<1> QED BY <1>5, <1>6

LEMMA CapNext ==
  ASSUME MachinesFit, TicksFit, TicksFit', LockHeld, WithinFleet, WithinBatches,
         RestFits, RestFits', StepKind, [Next]_vars
  PROVE  WithinFleet' /\ WithinBatches'
<1>0. \A e \in Dispatchers : tick[e].todo \in Nat
  BY FleetAssumption DEF TicksFit, TickType
<1>1. overrun' = FALSE => overrun = FALSE
  BY DEF Next, TickStep, TickFault, MachineStep, ReapStep, RecoveryStep, vars, history,
   TakeLock, Snapshot, Count, Reuse, Burst, Direct, ProvisionFails, DirectFails, Note, Unlock,
   AnyQueued, NoneProcessing, LockError, CountNoRedis, CountNoFly, BurstRepeated,
   StartedUnseen, BackendDies, Booted, ClaimJob, Finish, Exit, Crash, Hang, Ping,
   StartingAges, GraceEnds, Submit, Ages, LockExpires, ReapList, ReapRunning, ReapBeating,
   ReapRead, ReapStarting, ReapStop, ReapEnds, Recover, Fail, StopFailed
<1>2. ASSUME NEW d \in Dispatchers, Keeps(d)
      PROVE  \A e \in Dispatchers : tick'[e].todo <= tick[e].todo
  BY <1>0, <1>2, StepTick DEF Keeps
<1>3. ASSUME NEW d \in Dispatchers, NEW m \in Machines, Uses(d), Starts(m), UNCHANGED extra
      PROVE  WithinFleet' /\ WithinBatches'
  <2>1. InFleet' \subseteq InFleet \cup {m}
    BY <1>3, StartsFit DEF InFleet
  <2> QED BY <1>1, <1>3, <2>1, CapUses
<1>4. ASSUME NEW d \in Dispatchers, NEW m \in Machines, Keeps(d), Starts(m),
             extra' = extra \cup {m}
      PROVE  WithinFleet' /\ WithinBatches'
  <2>1. InFleet' \subseteq InFleet
    BY <1>4, StartsFit DEF InFleet
  <2> QED BY <1>1, <1>2, <1>4, <2>1, CapKeeps
<1>5. ASSUME NEW d \in Dispatchers, Keeps(d) \/ Counts(d), UNCHANGED <<wk, extra>>
      PROVE  WithinFleet' /\ WithinBatches'
  <2>1. InFleet' = InFleet
    BY <1>5 DEF InFleet, On
  <2> QED BY <1>1, <1>2, <1>5, <2>1, CapKeeps, CapCounts
<1>6. ASSUME UNCHANGED tick, InFleet' \subseteq InFleet PROVE WithinFleet' /\ WithinBatches'
  <2>1. \A e \in Dispatchers : tick'[e].todo <= tick[e].todo
    BY <1>0, <1>6
  <2> QED BY <1>1, <1>6, <2>1, CapKeeps
<1>7. ASSUME UNCHANGED tick, NEW m \in Machines, GoesOff(m) PROVE WithinFleet' /\ WithinBatches'
  <2>1. InFleet' \subseteq InFleet
    BY <1>7, GoesOffFits DEF InFleet, GoesOff
  <2> QED BY <1>6, <1>7, <2>1
<1>8. ASSUME UNCHANGED tick, NEW m \in Machines, NEW r \in MachineType, GoesOn(m, r)
      PROVE  WithinFleet' /\ WithinBatches'
  <2>1. InFleet' = InFleet
    BY <1>8, GoesOnFits DEF InFleet, GoesOn
  <2> QED BY <1>6, <1>8, <2>1
<1>9. CASE UNCHANGED tick /\ UNCHANGED <<wk, extra>>
  BY <1>6, <1>9 DEF InFleet, On
<1> QED BY <1>3, <1>4, <1>5, <1>7, <1>8, <1>9 DEF StepKind

-----------------------------------------------------------------------------
(* The reaper.                                                              *)

(* A machine is working for as long as its row says so: it begins to work   *)
(* by a claim or by a heartbeat of its own.                                 *)
LEMMA WorkingRow ==
  ASSUME NEW m \in Machines, Working(m)', wk'[m] = wk[m], row'[wk[m].job] = row[wk[m].job]
  PROVE  Working(m)
BY DEF Working, Busy, OwnedBy

Begins(m) == ClaimJob(m) \/ Ping(m)

LEMMA WorkingBegins ==
  ASSUME RowsFit, MachinesFit, NEW m \in Machines, [Next]_vars, Working(m)', ~Begins(m)
  PROVE  Working(m)
<1>0. /\ wk'[m].job # Null /\ row'[wk'[m].job].status = "processing"
      /\ row'[wk'[m].job].machine = m /\ ~row'[wk'[m].job].stale
  BY DEF Working, Busy, OwnedBy
<1>1. wk'[m] = wk[m] \/ \/ wk'[m].job = Null
                        \/ wk' = [wk EXCEPT ![m].pc = "idle"] /\ UNCHANGED row
  <2>1. ASSUME NEW n \in Machines, MachineStep(n) \/ Crash(n) \/ Hang(n) \/ Ping(n)
                                   \/ StartingAges(n) \/ GraceEnds(n) \/ StopFailed(n) \/ ReapStop(n)
        PROVE  wk'[m] = wk[m] \/ \/ wk'[m].job = Null
                                 \/ wk' = [wk EXCEPT ![m].pc = "idle"] /\ UNCHANGED row
    BY <2>1 DEF MachineStep, Booted, ClaimJob, Claim, Finish, Exit, IdleExit, Crash, Hang, Ping,
       Heartbeat, StartingAges, GraceEnds, StopFailed, ReapStop, TurnOff, PowerOff, Release, Goto,
       Resting, MachinesFit, Begins
  <2>2. ASSUME NEW d \in Dispatchers, NEW n \in Machines, TickStarts(d, n)
        PROVE  wk'[m] = wk[m] \/ wk'[m].job = Null
    BY <2>2 DEF TickStarts, Reuse, Burst, Direct, BurstRepeated, StartedUnseen, TurnOn, Resting,
       MachinesFit
  <2>3. CASE UNCHANGED wk
    BY <2>3
  <2> QED BY <2>1, <2>2, <2>3 DEF Next, TickStep, TickFault, TickStarts, ReapStep, RecoveryStep,
       TakeLock, Snapshot, Count, ProvisionFails, DirectFails, Note, Unlock, AnyQueued,
       NoneProcessing, LockError, CountNoRedis, CountNoFly, BackendDies, Submit, Ages, LockExpires,
       ReapList, ReapRunning, ReapBeating, ReapRead, ReapStarting, ReapEnds, Recover, Fail, vars
<1>2. CASE wk' = [wk EXCEPT ![m].pc = "idle"] /\ UNCHANGED row
  BY <1>2 DEF Working, Busy, OwnedBy, MachinesFit, MachineType, WorkerType
<1>3. CASE wk'[m] = wk[m]
  <2> DEFINE k == wk[m].job
  <2>1. k \in Jobs
    BY <1>0, <1>3 DEF MachinesFit, MachineType, WorkerType
  <2>2. row'[k] = row[k]
    <3>1. CASE UNCHANGED row
      BY <3>1
    <3>2. ASSUME NEW j \in Jobs, Submit(j) PROVE row'[k] = row[k]
      BY <1>0, <1>3, <2>1, <3>2 DEF Submit, InsertRow, NoRow, RowsFit, RowTyped
    <3>3. ASSUME NEW j \in Jobs, Ages(j) PROVE row'[k] = row[k]
      BY <1>0, <1>3, <2>1, <3>3 DEF Ages, RowsFit, RowTyped, RowType
    <3>4. ASSUME NEW n \in Machines, ClaimJob(n) PROVE row'[k] = row[k]
      <4>1. n # m
        BY <3>4 DEF Begins
      <4>2. PICK j \in Jobs : ClaimRow(j, n)
        BY <3>4 DEF ClaimJob, Claim
      <4> QED BY <1>0, <1>3, <2>1, <4>1, <4>2 DEF ClaimRow, RowsFit, RowTyped
    <3>5. ASSUME NEW n \in Machines, Finish(n) PROVE row'[k] = row[k]
      BY <1>0, <1>3, <2>1, <3>5 DEF Finish, SetStatusOwned, RowsFit, RowTyped, RowType
    <3>6. ASSUME NEW n \in Machines, Ping(n) PROVE row'[k] = row[k]
      <4>1. n # m
        BY <3>6 DEF Begins
      <4>2. row[wk[n].job].machine = n /\ row' = [row EXCEPT ![wk[n].job].stale = FALSE]
        BY <3>6 DEF Ping, Heartbeat, OwnedBy
      <4> QED BY <1>0, <1>3, <2>1, <4>1, <4>2 DEF RowsFit, RowTyped, RowType
    <3>7. CASE Recover
      BY <1>0, <1>3, <2>1, <3>7 DEF Recover, RecoverStuck, Requeued
    <3>8. CASE Fail
      BY <1>0, <1>3, <2>1, <3>8 DEF Fail, FailExhausted, RowsFit, RowTyped, RowType
    <3> QED BY RowRest, <3>1, <3>2, <3>3, <3>4, <3>5, <3>6, <3>7, <3>8 DEF RowChange
  <2> QED BY <1>3, <2>2, WorkingRow
<1> QED BY <1>0, <1>1, <1>2, <1>3

(* A working machine shows in scan_jobs, in both reads.                     *)
LEMMA WorkingShows ==
  ASSUME RowsFit, MachinesFit, NEW m \in Machines, Working(m)
  PROVE  m \in RunningIds /\ m \in BeatingIds
<1>1. wk[m].job \in Jobs
  BY DEF Working, Busy, MachinesFit, MachineType, WorkerType
<1>2. Null \notin Machines
  BY QueueAssumption
<1> QED BY <1>1, <1>2 DEF Working, OwnedBy, RunningIds, BeatingIds

LEMMA ReapGotoFields ==
  ASSUME reap \in ReapType, NEW p \in {"beating", "starting", "stop"}, NEW C \in SUBSET Machines
  PROVE  LET r == ReapGoto(p, C) IN
         /\ r \in ReapType /\ r.pc = p /\ r.cand = C /\ r.blind = reap.blind
         /\ r.late = reap.late \cap C
BY DEF ReapGoto, ReapType

(* What the candidates owe at each read.                                    *)
Owes(r, m) ==
  /\ r.pc = "beating" => r.blind = 1
  /\ r.pc \in {"starting", "stop"} => r.blind = 2

ReapShape(r) ==
  /\ r \in ReapType
  /\ r.pc = "idle" => r.cand = {}
  /\ r.pc = "running" => r.blind = 0
  /\ r.pc = "beating" => r.blind <= 1

LEMMA ReapParts ==
  /\ ReapFits <=> ReapShape(reap) /\ \A m \in reap.cand \ reap.late : Working(m) => Owes(reap, m)
  /\ ReapFits' <=> ReapShape(reap') /\ \A m \in reap'.cand \ reap'.late : Working(m)' => Owes(reap', m)
BY DEF ReapFits, ReapShape, Owes

LEMMA NoReapShape == ReapShape(NoReap) /\ NoReap.cand = {} /\ NoReap.pc = "idle"
BY DEF NoReap, ReapShape, ReapType

(* The reaper reads: rows and machines stay, so a step is judged by what it *)
(* leaves of the candidates.                                                *)
LEMMA ReadStep ==
  ASSUME RowsFit, MachinesFit, ReapFits, NEW p, NEW n, NEW ids,
         \/ p = "running" /\ n = "beating" /\ ids = RunningIds
         \/ p = "beating" /\ n = "starting" /\ ids = BeatingIds,
         ReapRead(p, n, ids)
  PROVE  ReapFits'
<1>1. reap \in ReapType /\ reap.pc = p /\ UNCHANGED <<row, wk>> /\ reap.cand \subseteq Machines
      /\ reap.blind \in 0..2
  BY DEF ReapFits, ReapRead, ReapType
<1>2. \A m \in Machines : Working(m)' <=> Working(m)
  BY <1>1 DEF Working, Busy, OwnedBy
<1>3. CASE reap' = [ReapGoto(n, reap.cand \ ids) EXCEPT !.late = {}]
  <2> DEFINE r == ReapGoto(n, reap.cand \ ids)
  <2>1. r \in ReapType /\ r.pc = n /\ r.cand = reap.cand \ ids /\ r.blind = reap.blind
    BY <1>1, ReapGotoFields
  <2> HIDE DEF r
  <2>2. reap' = [r EXCEPT !.late = {}]
    BY <1>3 DEF r
  <2>3. /\ reap' \in ReapType /\ reap'.pc = n /\ reap'.cand = reap.cand \ ids
        /\ reap'.blind = reap.blind
    BY <2>1, <2>2 DEF ReapType
  <2>4. \A m \in reap'.cand : ~Working(m)'
    BY <1>1, <1>2, <2>3, WorkingShows
  <2>5. ReapShape(reap')
    BY <1>1, <2>3 DEF ReapShape, ReapFits
  <2> QED BY <2>4, <2>5, ReapParts
<1>4. CASE reap' = [ReapGoto(n, reap.cand) EXCEPT !.blind = @ + 1]
  <2> DEFINE r == ReapGoto(n, reap.cand)
  <2>1. r \in ReapType /\ r.pc = n /\ r.cand = reap.cand /\ r.blind = reap.blind
        /\ r.late = reap.late \cap reap.cand
    BY <1>1, ReapGotoFields
  <2> HIDE DEF r
  <2>2. reap' = [r EXCEPT !.blind = reap.blind + 1]
    BY <1>4, <2>1 DEF r
  <2>3. reap.blind <= 1 /\ (p = "running" => reap.blind = 0) /\ reap.blind + 1 \in 0..2
    BY <1>1 DEF ReapFits
  <2>4. /\ reap' \in ReapType /\ reap'.pc = n /\ reap'.cand = reap.cand
        /\ reap'.blind = reap.blind + 1 /\ reap'.late = reap.late \cap reap.cand
    BY <2>1, <2>2, <2>3 DEF ReapType
  <2>5. ReapShape(reap')
    BY <2>3, <2>4 DEF ReapShape
  <2>6. ASSUME NEW m \in reap'.cand \ reap'.late, Working(m)' PROVE Owes(reap', m)
    <3>1. m \in reap.cand \ reap.late /\ Working(m)
      BY <1>1, <1>2, <2>4, <2>6
    <3>2. p = "beating" => reap.blind = 1
      BY <1>1, <3>1 DEF ReapFits
    <3> QED BY <2>3, <2>4, <3>2 DEF Owes
  <2> QED BY <2>5, <2>6, ReapParts
<1> QED BY <1>3, <1>4 DEF ReapRead

(* Which actions change the reaper.                                         *)
LEMMA ReapRest ==
  [Next]_vars =>
    \/ UNCHANGED reap \/ ReapList \/ ReapRunning \/ ReapBeating \/ ReapStarting \/ ReapEnds
    \/ \E m \in Machines : ReapStop(m) \/ Begins(m)
BY DEF Next, TickStep, TickFault, MachineStep, ReapStep, RecoveryStep, Begins, vars,
   TakeLock, Snapshot, Count, Reuse, Burst, Direct, ProvisionFails, DirectFails, Note, Unlock,
   AnyQueued, NoneProcessing, LockError, CountNoRedis, CountNoFly, BurstRepeated,
   StartedUnseen, BackendDies, Booted, Finish, Exit, Crash, Hang, StartingAges, GraceEnds,
   Submit, Ages, LockExpires, Recover, Fail, StopFailed

LEMMA ReapNextFits ==
  ASSUME RowsFit, MachinesFit, ReapFits, [Next]_vars
  PROVE  ReapFits'
<1>0. reap \in ReapType /\ reap.cand \subseteq Machines
  BY DEF ReapFits, ReapType
<1>1. ASSUME reap' = NoReap PROVE ReapFits'
  BY <1>1, NoReapShape, ReapParts
<1>2. ASSUME reap' = reap, \A m \in reap.cand : ~Begins(m) PROVE ReapFits'
  <2>1. \A m \in reap.cand : Working(m)' => Working(m)
    BY <1>0, <1>2, WorkingBegins
  <2> QED BY <1>2, <2>1, ReapParts
<1>3. ASSUME NEW n \in Machines, Begins(n) PROVE ReapFits'
  <2>1. reap' = IF n \in reap.cand THEN [reap EXCEPT !.late = @ \cup {n}] ELSE reap
    BY <1>3 DEF Begins, ClaimJob, Ping, Late
  <2>2. /\ reap'.pc = reap.pc /\ reap'.cand = reap.cand /\ reap'.blind = reap.blind
        /\ reap' \in ReapType
        /\ reap.late \subseteq reap'.late
        /\ n \in reap.cand => n \in reap'.late
    BY <1>0, <2>1 DEF ReapType
  <2>3. ReapShape(reap')
    BY <2>2 DEF ReapFits, ReapShape
  <2>4. ASSUME NEW m \in reap'.cand \ reap'.late, Working(m)' PROVE Owes(reap', m)
    <3>1. m # n /\ m \in reap.cand \ reap.late
      BY <2>2, <2>4
    <3>2. ~Begins(m)
      BY <1>0, <2>2, <2>4 DEF Begins, ClaimJob, Ping, Late, ReapType
    <3>3. Working(m)
      BY <1>0, <2>4, <3>1, <3>2, WorkingBegins
    <3> QED BY <2>2, <3>1, <3>3 DEF ReapFits, Owes
  <2> QED BY <2>3, <2>4, ReapParts
<1>4. CASE ReapList
  <2>1. PICK C \in SUBSET Machines : reap' = [NoReap EXCEPT !.pc = "running", !.cand = C]
    BY <1>4 DEF ReapList, On
  <2>2. reap' = [pc |-> "running", cand |-> C, blind |-> 0, late |-> {}]
    BY <2>1 DEF NoReap
  <2>3. ReapShape(reap') /\ reap'.pc = "running"
    BY <2>2 DEF ReapShape, ReapType
  <2> QED BY <2>3, ReapParts DEF Owes
<1>5. CASE ReapRunning \/ ReapBeating
  BY <1>5, ReadStep DEF ReapRunning, ReapBeating
<1>6. ASSUME UNCHANGED row, reap.pc \in {"starting", "stop"},
             \A m \in Machines : wk'[m] = wk[m] \/ wk'[m].job = Null,
             NEW C \in SUBSET reap.cand, reap' = ReapGoto("stop", C)
      PROVE  ReapFits'
  <2>1. /\ reap' \in ReapType /\ reap'.pc = "stop" /\ reap'.cand = C /\ reap'.blind = reap.blind
        /\ reap'.late = reap.late \cap C
    BY <1>0, <1>6, ReapGotoFields
  <2>2. \A m \in Machines : Working(m)' => Working(m)
    BY <1>6 DEF Working, Busy, OwnedBy
  <2>3. ReapShape(reap')
    BY <2>1 DEF ReapShape
  <2>4. ASSUME NEW m \in reap'.cand \ reap'.late, Working(m)' PROVE Owes(reap', m)
    BY <1>0, <1>6, <2>1, <2>2, <2>4 DEF ReapFits, Owes
  <2> QED BY <2>3, <2>4, ReapParts
<1>7. CASE ReapStarting
  <2>1. \E C \in SUBSET reap.cand : reap' = ReapGoto("stop", C)
    BY <1>7 DEF ReapStarting
  <2> QED BY <1>6, <1>7, <2>1 DEF ReapStarting
<1>8. ASSUME NEW n \in Machines, ReapStop(n) PROVE ReapFits'
  <2>1. CASE reap' = NoReap
    BY <1>1, <2>1
  <2>2. CASE reap' = ReapGoto("stop", reap.cand \ {n})
    <3>1. \A m \in Machines : wk'[m] = wk[m] \/ wk'[m].job = Null
      BY <1>8 DEF ReapStop, TurnOff, PowerOff, Resting, MachinesFit
    <3> QED BY <1>6, <1>8, <2>2, <3>1 DEF ReapStop
  <2> QED BY <1>8, <2>1, <2>2 DEF ReapStop, ReapNext
<1>9. CASE ReapEnds
  BY <1>1, <1>9 DEF ReapEnds
<1>10. CASE UNCHANGED reap /\ \A m \in reap.cand : ~Begins(m)
  BY <1>2, <1>10
<1> QED BY <1>0, <1>3, <1>4, <1>5, <1>7, <1>8, <1>9, <1>10, ReapRest

(* Who is taken off the list and goes off was stopped by the reaper.        *)
LEMMA SparesNext ==
  ASSUME RowsFit, MachinesFit, ReapFits, [Next]_vars, NEW m \in reap.cand \ reap'.cand,
         Working(m), wk'[m].pc = "off"
  PROVE  m \in reap.late \/ reap.blind = 2
<1>1. m \in Machines /\ wk[m].pc = "run" /\ wk' # wk
  BY DEF ReapFits, ReapType, Working, MachinesFit
<1>2. ASSUME NEW n \in Machines, ReapStop(n) PROVE m \in reap.late \/ reap.blind = 2
  BY <1>2 DEF ReapStop, ReapFits
<1>3. ASSUME NEW n \in Machines, Begins(n) PROVE FALSE
  BY <1>3 DEF Begins, ClaimJob, Ping, Late, ReapFits, ReapType
<1>4. ~(ReapList \/ ReapRunning \/ ReapBeating \/ ReapStarting \/ ReapEnds)
  BY <1>1 DEF ReapList, ReapRunning, ReapBeating, ReapRead, ReapStarting, ReapEnds
<1> QED BY <1>2, <1>3, <1>4, ReapRest

-----------------------------------------------------------------------------
(* The inductive invariant, and what follows from it.                       *)
IInv ==
  /\ RowsFit /\ MachinesFit /\ TicksFit /\ ReapFits /\ RestFits
  /\ LockHeld /\ WithinFleet /\ WithinBatches

LEMMA IInvInit == Init => IInv
<1> SUFFICES ASSUME Init PROVE IInv
  OBVIOUS
<1> USE DEF Init
<1>0. MaxFaults \in Nat /\ MaxFleet \in Nat /\ Batch \in Nat \ {0}
  BY FleetAssumption
<1>1. RowsFit
  BY DEF QueueInit, NoRow, RowsFit, RowTyped, RowType, Status, Active
<1>2. MachinesFit /\ On = {}
  BY RestingType DEF QueueInit, MachinesFit, Busy, On
<1>3. \A d \in Dispatchers : tick[d] = Blank("idle", FALSE) /\ "idle" \in BlankPcs
  BY BlankForms DEF BlankPcs
<1>4. TicksFit /\ \A d \in Dispatchers : tick[d].todo = 0 /\ ~Live(d)
  BY <1>3, BlankTick DEF TicksFit, TickFits, Live
<1>5. ReapFits
  BY NoReapShape, ReapParts
<1>6. RestFits /\ LockHeld
  <2>1. RestFits
    <3>1. faults \in 0..MaxFaults
      BY <1>0
    <3>2. starting \in [Machines -> {"no", "young", "old"}] /\ toStop \subseteq Machines
      OBVIOUS
    <3>3. lock \in Dispatchers \cup {Null} /\ overrun \in BOOLEAN
      OBVIOUS
    <3> QED BY <3>1, <3>2, <3>3 DEF RestFits
  <2>2. LockHeld
    BY <1>4 DEF LockHeld
  <2> QED BY <2>1, <2>2
<1>7. Cardinality(InFleet) = 0
  BY <1>2, FS_EmptySet DEF InFleet
<1>8. WithinFleet
  BY <1>0, <1>4, <1>7 DEF WithinFleet
<1>9. Owed = {}
  BY <1>0, <1>4 DEF Owed
<1>10. (Cardinality(Dispatchers) - 1) * Batch \in Nat
  BY Numbers
<1>11. WithinBatches
  BY <1>0, <1>7, <1>9, <1>10, FS_EmptySet DEF WithinBatches
<1> QED BY <1>1, <1>2, <1>4, <1>5, <1>6, <1>8, <1>11 DEF IInv

LEMMA IInvNext == IInv /\ [Next]_vars => IInv'
<1> SUFFICES ASSUME IInv, [Next]_vars PROVE IInv'
  OBVIOUS
<1> USE DEF IInv
<1>1. MachineKind /\ StepKind
  BY Kinds, StepKinds
<1>2. RowsFit' /\ MachinesFit' /\ TicksFit' /\ ReapFits' /\ RestFits' /\ LockHeld'
  BY <1>1, RowsNext, MachinesNext, TicksNext, ReapNextFits, RestNext, LockNext
<1> QED BY <1>1, <1>2, CapNext

(* Spec keeps the invariant that the facts below are read off from.        *)
THEOREM Invariant == Spec => []IInv
BY IInvInit, IInvNext, PTL DEF Spec

(* Every variable keeps its type.                                           *)
THEOREM TypeCorrect == Spec => []TypeOK
<1>1. IInv => TypeOK
  BY PartsTypeOK DEF IInv
<1> QED BY Invariant, <1>1, PTL

(* dispatchFleet keeps FLY_MAX_FLEET across instances, for any number of    *)
(* them and whatever fails, until a lock runs out under a tick.             *)
THEOREM Capped == Spec => []FleetCapped
<1>1. IInv => FleetCapped
  BY DEF IInv, WithinFleet, FleetCapped, InFleet
<1> QED BY Invariant, <1>1, PTL

(* dispatchFleet without its lock: one batch more for each other instance.  *)
THEOREM Bounded == Spec => []OverrunBounded
<1>1. IInv => OverrunBounded
  <2> SUFFICES ASSUME IInv PROVE OverrunBounded
    OBVIOUS
  <2>1. (Cardinality(Dispatchers) - 1) * Batch \in Nat
    BY Numbers
  <2> QED BY <2>1, Numbers DEF IInv, WithinBatches, OverrunBounded, InFleet
<1> QED BY Invariant, <1>1, PTL

(* reapZombieMachines: a working machine is stopped only if it began to     *)
(* work after the last read, or both reads of scan_jobs failed.             *)
THEOREM Spares == Spec => ReaperSpares
<1>1. IInv /\ [Next]_vars =>
        [\A m \in reap.cand \ reap'.cand :
           Working(m) /\ wk'[m].pc = "off" => m \in reap.late \/ reap.blind = 2]_vars
  BY SparesNext DEF IInv
<1> QED BY Invariant, <1>1, PTL DEF Spec, ReaperSpares
-----------------------------------------------------------------------------
(* The rows under the fleet: machines are started, stopped and reaped, hang *)
(* and crash at any point of a claim, and the queue is still a JobLease.    *)
RowsTurn == \/ \E j \in Jobs : Submit(j)
            \/ \E m \in Machines : ClaimJob(m)
            \/ Recover

LEMMA RowsQuieten ==
  ASSUME RowsFit, QueueInv, [Next]_vars
  PROVE  RowsTurn \/ RowsQuiet
<1>1. ASSUME NEW j \in Jobs, Ages(j) PROVE RowsQuiet
  <2>1. row[j].status # "absent"
    BY <1>1 DEF Ages, QueueInv, Unclaimed
  <2> QED BY <1>1, <2>1, StaleQuiet DEF Ages, RowsFit
<1>2. ASSUME NEW m \in Machines, Finish(m) PROVE RowsQuiet
  <2>1. "completed" \in Terminal
    BY DEF Terminal
  <2> QED BY <1>2, <2>1, OwnedQuiet DEF Finish, RowsFit
<1>3. ASSUME NEW m \in Machines, Ping(m) PROVE RowsQuiet
  <2>1. PICK j : j = wk[m].job
    OBVIOUS
  <2>2. row' = [row EXCEPT ![j].stale = FALSE] /\ row[j].machine = m
    BY <1>3, <2>1 DEF Ping, Heartbeat, OwnedBy
  <2>3. CASE j \in Jobs
    <3>1. row[j].status # "absent"
      BY <2>2, <2>3, QueueAssumption DEF QueueInv, Unclaimed
    <3> QED BY <2>2, <2>3, <3>1, StaleQuiet DEF RowsFit
  <2>4. CASE j \notin Jobs
    BY <2>2, <2>4, SameQuiet DEF RowsFit, RowTyped
  <2> QED BY <2>3, <2>4
<1>4. CASE Fail
  BY <1>4, FailQuiet DEF Fail, RowsFit
<1> QED BY <1>1, <1>2, <1>3, <1>4, RowRest, SameQuiet DEF RowChange, RowsTurn

LEMMA MachinesQuieten ==
  ASSUME RowsFit, MachinesFit, ReapFits, RestFits, [Next]_vars
  PROVE  (\E m \in Machines : ClaimJob(m)) \/ WorkersQuiet
<1>1. ASSUME NEW m \in Machines, NEW p, wk' = [wk EXCEPT ![m] = Resting(p)]
      PROVE  WorkersQuiet
  BY <1>1 DEF WorkersQuiet, Resting, MachinesFit
<1>2. CASE UNCHANGED wk
  BY <1>2 DEF WorkersQuiet
<1>3. ASSUME NEW m \in Machines, Starts(m) PROVE WorkersQuiet
  <2>1. wk' = wk \/ wk' = [wk EXCEPT ![m] = Resting("boot")]
    BY <1>3 DEF Starts, TurnOn, MachinesFit
  <2>2. CASE wk' = wk
    BY <2>2 DEF WorkersQuiet
  <2>3. CASE wk' = [wk EXCEPT ![m] = Resting("boot")]
    BY <1>1, <2>3
  <2> QED BY <2>1, <2>2, <2>3
<1>4. ASSUME NEW m \in Machines, GoesOff(m) PROVE WorkersQuiet
  BY <1>1, <1>4 DEF GoesOff
<1>5. ASSUME NEW m \in Machines, Booted(m) PROVE WorkersQuiet
  BY <1>5 DEF Booted, Goto, WorkersQuiet, MachinesFit, MachineType, WorkerType
<1>6. ASSUME NEW m \in Machines, Finish(m) \/ Hang(m) PROVE WorkersQuiet
  BY <1>1, <1>6 DEF Finish, Release, Hang
<1>7. ASSUME NEW m \in Machines, NEW r \in MachineType, GoesOn(m, r), UNCHANGED tick
      PROVE  \/ UNCHANGED wk
             \/ \E n \in Machines : \/ Booted(n) \/ ClaimJob(n) \/ Finish(n) \/ Hang(n)
                                    \/ GoesOff(n) \/ \E d \in Dispatchers : TickStarts(d, n)
  BY DEF Next, TickStep, TickFault, MachineStep, ReapStep, RecoveryStep, TickStarts, vars,
     TakeLock, Snapshot, Count, ProvisionFails, DirectFails, Note, Unlock,
     AnyQueued, NoneProcessing, LockError, CountNoRedis, CountNoFly, BackendDies,
     Exit, IdleExit, Crash, PowerOff, TurnOff, GoesOff, Ping, Heartbeat, StartingAges,
     GraceEnds, Submit, Ages, LockExpires, ReapList, ReapRunning, ReapBeating, ReapRead,
     ReapStarting, ReapStop, ReapEnds, StopFailed, Recover, Fail
<1>8. ASSUME NEW d \in Dispatchers, NEW m \in Machines, TickStarts(d, m)
      PROVE  WorkersQuiet
  <2>1. Starts(m)
    BY <1>8 DEF TickStarts, Reuse, Burst, Direct, BurstRepeated, StartedUnseen, Starts, history
  <2> QED BY <1>3, <2>1
<1> QED BY <1>2, <1>3, <1>4, <1>5, <1>6, <1>7, <1>8, Kinds DEF MachineKind

LEMMA QueueNext ==
  ASSUME RowsFit, MachinesFit, ReapFits, RestFits, QueueInv, [Next]_vars,
         RowsFit', MachinesFit'
  PROVE  QueueInv' /\ [Lease!Next]_(Lease!leaseVars)
<1>1. QueueTyped /\ QueueTyped'
  BY DEF QueueTyped, ClaimTyped, RowsFit, MachinesFit, MachineType, WorkerType
<1>2. ASSUME NEW j \in Jobs, Submit(j) PROVE QueueInv' /\ Lease!Next
  BY <1>1, <1>2, InsertStep, InsertLease DEF Submit, Lease!Next
<1>3. ASSUME NEW m \in Machines, ClaimJob(m) PROVE QueueInv' /\ Lease!Next
  <2>1. PICK j \in Jobs :
          /\ row[j].status = "queued" /\ ClaimRow(j, m)
          /\ wk' = [wk EXCEPT ![m] = [pc |-> "run", job |-> j, run |-> row[j].run,
                                      known |-> FALSE]]
    BY <1>3 DEF ClaimJob, Claim, Claimable
  <2>2. /\ wk'[m].job = j /\ wk'[m].run = row[j].run
        /\ \A n \in Machines \ {m} : wk'[n] = wk[n]
    BY <2>1 DEF MachinesFit
  <2> QED BY <1>1, <2>1, <2>2, ClaimStep, ClaimLease DEF Lease!Next
<1>4. CASE Recover
  <2>1. Recoverable \in SUBSET Jobs
    BY DEF Recoverable
  <2> QED BY <1>1, <1>4, <2>1, RecoverStep, RecoverLease DEF Recover, Lease!Next
<1>5. ASSUME RowsQuiet, WorkersQuiet PROVE QueueInv' /\ Lease!Next
  BY <1>1, <1>5, QuietStep, QuietLease DEF Lease!Next
<1>6. RowsTurn \/ (RowsQuiet /\ WorkersQuiet)
  BY RowsQuieten, MachinesQuieten DEF RowsTurn
<1> QED BY <1>2, <1>3, <1>4, <1>5, <1>6 DEF RowsTurn

LEMMA QueueInvariant == Spec => []QueueInv
<1>1. Init => QueueInv
  BY QueueInitInv DEF Init
<1>2. IInv /\ IInv' /\ QueueInv /\ [Next]_vars => QueueInv'
  BY QueueNext DEF IInv
<1> QED BY <1>1, <1>2, Invariant, PTL DEF Spec

(* The unique index under the fleet: a project never has two rows of a type *)
(* queued or processing, whichever machines die with their claims.          *)
THEOREM OneActive == Spec => []OneActivePerSlot
<1>1. QueueInv => OneActivePerSlot
  BY DEF QueueInv
<1> QED BY <1>1, QueueInvariant, PTL

(* A machine that froze in a job and one that the job was handed to hold    *)
(* different run_ids.                                                       *)
THEOREM DistinctRuns == Spec => []RunsDistinct
<1>1. QueueInv => RunsDistinct
  BY DEF QueueInv
<1> QED BY <1>1, QueueInvariant, PTL

(* Under any number of backend instances, machines and faults the rows of   *)
(* scan_jobs implement JobLease.                                            *)
THEOREM Refinement == Spec => ImplementsJobLease
<1>1. Init => Lease!Init
  BY LeaseInit DEF Init
<1>2. IInv /\ IInv' /\ QueueInv /\ [Next]_vars => [Lease!Next]_(Lease!leaseVars)
  BY QueueNext DEF IInv
<1> QED BY Invariant, QueueInvariant, <1>1, <1>2, PTL
        DEF Spec, ImplementsJobLease, Lease!Spec

(* However often the autoscaler, the fallback and the reaper start and stop *)
(* machines, no row is claimed more often than max_attempts, and a queued   *)
(* one, which the tick counts as backlog, can still be claimed.             *)
THEOREM BoundedAttempts == Spec => []QueueKept
BY Refinement, LeaseGivesQueue, PTL DEF ImplementsJobLease

(* A machine that comes back from a freeze, or answers late, never takes a  *)
(* row up again that is over.                                               *)
THEOREM EndsStay == Spec => [][SettledStays]_row
BY Refinement, LeaseGivesEnds, PTL DEF ImplementsJobLease
=============================================================================
